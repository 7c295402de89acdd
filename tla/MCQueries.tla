----------------------------- MODULE MCQueries -----------------------------
(***************************************************************************)
(* The pure algorithms on bounded inputs: one step takes an input of one   *)
(* of the kinds, and the invariants compare what the algorithm makes of    *)
(* it with what it promises.                                               *)
(***************************************************************************)
EXTENDS Integers, TLC, SequencesExt

CONSTANT None
VARIABLE input

F == INSTANCE Formula WITH MaxSteps <- 40, MaxDepth <- 6, MaxElements <- 6, MaxNodes <- 14

Id(n) == <<"id", n>>
Lit(v) == <<"lit", v>>
N(n) == Lit(F!Num(n))
Bin(op, a, b) == <<"binary", op, a, b>>
Mem(e, k) == <<"member", e, <<"name", k>>, FALSE>>
Call(e, m, args) == <<"call", Mem(e, m), args, FALSE>>
Arrow(ps, e) == <<"arrow", ps, e>>

\* Expressions over the fields a to d; d is always raw, x and y are parameters.
Expressions == {
  N(1), Bin("+", Id("a"), N(1)), Bin("+", Id("b"), Id("d")), Mem(Id("fields"), "c"),
  <<"member", Id("fields"), Lit(F!Str(<<"d">>)), FALSE>>,
  <<"cond", Id("d"), Id("a"), Id("c")>>, <<"logical", "??", Id("b"), N(0)>>,
  Call(Id("d"), "map", <<Arrow(<<"x">>, Bin("+", Id("x"), Id("c")))>>),
  Call(<<"array", <<N(1), N(2)>>>>, "reduce", <<Arrow(<<"x", "a">>, Bin("+", Id("x"), Id("a")))>>),
  Call(<<"array", <<N(1), N(2), N(3)>>>>, "filter",
       <<Arrow(<<"x", "y", "a">>, Bin("<", Id("y"), Mem(Id("a"), "length")))>>),
  Call(Id("Math"), "abs", <<Bin("-", Id("b"), N(3))>>), Call(Lit(F!Str(<<"u", "v">>)), "concat", <<Id("d")>>),
  Bin("===", Id("undefined"), <<"chain", <<"member", Id("a"), <<"name", "b">>, TRUE>>>>),
  Arrow(<<>>, N(1)), Id("e"),
  <<"template", <<<<"u">>, <<>>>>, <<Id("a")>>>>,
  <<"object", <<"a", "b">>, <<Id("c"), N(2)>>>>,
  <<"member", Id("fields"), Bin("+", Lit(F!Str(<<>>)), Lit(F!Str(<<"c">>))), FALSE>>}

Raws == {[d |-> v, a |-> F!Num(7)] : v \in {F!Null, F!Num(2), F!List(<<F!Num(1), F!Num(5)>>)}}

Program(e, f, g, order) ==
  LET defs == <<[name |-> "a", e |-> e], [name |-> "b", e |-> f], [name |-> "c", e |-> g]>>
  IN  [i \in 1 .. 3 |-> defs[order[i]]]

S == INSTANCE Search WITH OverFetch <- 1, HybridOverFetch <- 2, Seeds <- 1, ExpandLeast <- 1,
  ExpandEach <- 1, ExpandLimit <- 1, RrfK <- 1, RrfScale <- 60

Orders(s) == {[i \in DOMAIN s |-> s[p[i]]] : p \in Permutations(DOMAIN s)}
\* Documents a, b and c with four chunks, an edge from a and one from c.
SearchIndex(vectors, lexical, aged, matching, links, tie) ==
  [vectors |-> vectors, lexical |-> lexical, texts |-> 4, aged |-> aged, matching |-> matching,
   score |-> [v \in ToSet(vectors) |-> 4 * (8 - 2 * CHOOSE i \in DOMAIN vectors : vectors[i] = v)],
   chunks |-> [a1 |-> "a", b1 |-> "b", c1 |-> "c", c2 |-> "c"], home |-> [a |-> "a1", b |-> "b1", c |-> "c1"],
   source |-> [e1 |-> "a"], links |-> links, tie |-> tie, files |-> <<"c", "b", "a">>]
Neighbors == {<<"a", "b">>, <<"b", "a">>, <<"b", "c">>, <<"c", "b">>}
AllFiles == {"a", "b", "c"}

\* Numbers and texts, by the codes of their digits.
Metadata ==
  {[type |-> "number", number |-> n, text |-> t] : <<n, t>> \in {<<9, <<57>>>>, <<10, <<49, 48>>>>}}
  \cup {[type |-> "text", number |-> 0, text |-> t] : t \in {<<53>>, <<57>>}}

\* Shards: only their definitions matter here.
D == INSTANCE Shards WITH Ids <- 1 .. 3, Names <- {}, Files <- {}, FolderPaths <- {}, TopicNames <- {},
  TopicTexts <- {}, Malformed <- None, MaxChanges <- 0, definitions <- input, folders <- {},
  index <- {}, clustering <- TRUE, cacheFile <- {}, reader <- {}, ingest <- {}, changes <- 0
\* a, a/b, a/b/c, a-b, a-b/c and b
Folders == {<<<<97>>>>, <<<<97>>, <<98>>>>, <<<<97>>, <<98>>, <<99>>>>, <<<<97, 45, 98>>>>,
            <<<<97, 45, 98>>, <<99>>>>, <<<<98>>>>}

\* Layers of settings: trees of two levels over two keys.
C == INSTANCE ConfigLayers WITH Default <- 0
TreesOver(nodes) == {C!Map(f) : f \in UNION {[ks -> nodes] : ks \in SUBSET {"x", "y"}}}
Trees(v) == TreesOver({C!Leaf(v)} \cup TreesOver({C!Leaf(v)}))
TreePaths == {"x", "y"} \X {"x", "y"} \cup {<<k>> : k \in {"x", "y"}}

Sc == INSTANCE Schema WITH Names <- {"f", "g"}, SampleLimit <- 2

\* A definition of each type, and those that differ from one of them in one part.
Undefined == [type |-> None] @@ Sc!Plain
Links == [relation |-> "g", field |-> "g"]
Evaluated == [formula |-> "e", result |-> "number"]
Whole == {Undefined, [type |-> "string"] @@ Undefined, [type |-> "relation", target |-> "t"] @@ Undefined,
          [target |-> "t"] @@ Undefined, [type |-> "formula"] @@ Evaluated @@ Undefined,
          [type |-> "lookup"] @@ Links @@ Undefined, [type |-> "rollup"] @@ Links @@ Evaluated @@ Undefined,
          [type |-> "rollup", direction |-> "incoming", scope |-> "t"] @@ Links @@ Evaluated @@ Undefined}
Definitions == Whole \cup
  {[ov EXCEPT ![part] = v] : ov \in Whole, v \in {None, "", "f", "number"},
                             part \in {"note", "target", "formula", "result", "relation", "field", "scope"}}
  \cup {[ov EXCEPT !.type = v] : ov \in Whole, v \in Sc!Types \cup {"other"}}
  \cup {[ov EXCEPT !.direction = v] : ov \in Whole, v \in {None, "outgoing", "incoming", "other"}}

Plain == <<"text", "plain">>
Values == {<<"number">>, <<"null">>, Plain, <<"text", "file">>, <<"text", "relation">>, <<"list", <<>>>>,
           <<"list", <<<<"text", "file">>, <<"text", "file">>>>>>, <<"list", <<<<"text", "file">>, Plain>>>>}
Frontmatters == {<<>>} \cup {<<"f" :> u, "f" :> v>> : u, v \in Values}

\* Documents of two folders with a number, a text or nothing in the field f, written by
\* people or by a module, and definitions of f for all documents and in one folder.
FieldOf(v, owned) == [values |-> IF v = None THEN <<>> ELSE "f" :> v, owned |-> owned]
Documents == {FieldOf(None, {})} \cup {FieldOf(v, o) : v \in {<<"number">>, Plain}, o \in {{}, {"f"}}}
Computed == "f" :> ([type |-> "formula"] @@ Evaluated @@ Undefined)
OverlaysOf(definitions) ==
  {[fields |-> g, scopes |-> s] : g \in definitions, s \in {<<>>} \cup {<<"a">> :> d : d \in definitions}}

\* Clusters: only groupings matter here. Four documents, alike, a little alike or not at all.
G == INSTANCE Clusters WITH Docs <- {}, Points <- {}, Existing <- {}, Topics <- {}, Knn <- 0,
  RebalanceThreshold <- 0, HierarchyMin <- 2, Floor <- 0, MaxUpdates <- 0, vectors <- <<>>, enabled <- TRUE,
  algorithm <- "leiden", defined <- <<>>, clusters <- None, topics <- None, skipped <- {}, updates <- 0
Points == {<<5, 0>>, <<4, 3>>, <<0, 5>>, <<0, -5>>}
\* Communities are connected.
IsConnected(m, edges) ==
  \A some \in SUBSET DOMAIN m : \A c \in DOMAIN m \ some :
    (\E d \in some : m[d] = m[c]) =>
      \E e \in edges : Cardinality({m[d] : d \in e}) = 1 /\ Cardinality(e \cap some) = 1
CommunitiesOf(vs, k) ==
  {m \in G!Memberships(DOMAIN vs) : IsConnected(m, G!BuildKnnGraph(vs, k))}

\* Documents of two fields, one of them read as a number unless in quotes, and a comment.
P == INSTANCE FieldPatch WITH Scalars <- {"7"}
Pieces == {P!Comment(1)} \cup {P!Entry(k, 1) : k \in {"f", "g", "7"}} \cup
  {P!Entry("f", 2), [P!Entry("7", 2) EXCEPT !.quoted = TRUE], [P!Entry("f", 1) EXCEPT !.long = TRUE],
   [P!Entry("f", 1) EXCEPT !.joined = TRUE], [P!Entry("g", 1) EXCEPT !.joined = TRUE]}
Frontmatter == {ps \in BoundedSeq(Pieces, 3) : ps = <<>> \/ ~Head(ps).joined}
Document(ps, root) ==
  [bom |-> TRUE, envelope |-> "closed", root |-> root, mixed |-> FALSE, yaml |-> ps, body |-> "body"]
SourceDocuments ==
  {Document(ps, "mapping") : ps \in Frontmatter} \cup {Document(<<>>, root) : root \in {"other", "broken"}} \cup
  {[Document(<<>>, "mapping") EXCEPT !.envelope = e] : e \in {"none", "open"}} \cup
  {[Document(<<p>>, "mapping") EXCEPT !.mixed = TRUE] : p \in {P!Comment(1), P!Entry("f", 1)}}

\* Documents of nested folders, one of which has the name of a document, and ways they stand
\* to the index: what a reader finds of each, and the values of the index.
L == INSTANCE Listings WITH Builtin <- {<<116>>}
a == <<97>>
b == <<98>>
Listed == {<<a>>, <<a, b>>, <<a, b, a>>, <<<<97, 45>>, b>>}
Stored(hash, v) == [hash |-> hash, values |-> IF v = None THEN <<>> ELSE "v" :> v]
Standings ==
  {<<"absent">>, <<"disk", 1>>, <<"index", Stored(1, 1)>>, <<"both", 1, Stored(1, None)>>,
   <<"both", 1, Stored(1, 2)>>, <<"both", 2, Stored(1, 1)>>, <<"both", None, Stored(1, 2)>>}
DiskOf(st) == [p \in {p \in DOMAIN st : st[p][1] \in {"disk", "both"}} |-> st[p][2]]
IndexOf(st) == [p \in {p \in DOMAIN st : st[p][1] \in {"index", "both"}} |-> Last(st[p])]
\* Paths of up to three names: one hidden, one with others as parts, one of a built-in folder.
SourceNames == {a, b, <<97, 98>>, <<46, 97>>, <<116>>}
SourceFiles == {f \in UNION {[1 .. n -> SourceNames] : n \in 1 .. 3} : Last(f) # <<116>>}

\* Bodies of headings, blank lines and lines of up to three tokens, with characters of two.
K == INSTANCE Chunking
BodyLine(level, tokens) == [level |-> level, tokens |-> tokens]
BodyLines ==
  {BodyLine(0, ts) : ts \in {<<>>, <<"whole">>, <<"whole", "whole">>, <<"whole", "first", "second">>}} \cup
  {BodyLine(l, <<"whole">>) : l \in 1 .. 3}

\* Three documents, one of which links may miss, in two folders, and chunks of two vectors of edges.
V == INSTANCE GraphViews WITH OverFetch <- 1
Drawn == {<<"a">>, <<"d", "b">>, <<"d", "e", "c">>}
Gone == <<"d", "gone">>
Scopes == {<<>>, <<"d">>, <<"d", "e">>}
LinkTo(source, n, target, field) == [target |-> target, field |-> field, id |-> <<source, n>>]
LinksOf(source) ==
  LET ToOthers(links) == SelectSeq(links, LAMBDA l : l.target # source)
  IN  {<<>>, ToOthers(<<LinkTo(source, 1, <<"a">>, None), LinkTo(source, 2, <<"d", "b">>, None)>>),
       ToOthers(<<LinkTo(source, 3, Gone, None), LinkTo(source, 4, <<"d", "e", "c">>, "f"), LinkTo(source, 5, <<"d", "b">>, "f")>>)}
Groupings == {<<{<<"a">>, Gone}, {<<"d", "b">>, <<"d", "e", "c">>}>>, <<{Gone}, {<<"d", "e", "c">>}>>, <<>>}
Scores == {<<>>, <<<<"a">> :> 1 @@ <<"d", "b">> :> 2, <<"a">> :> 1, <<"d", "b">> :> 3>>}
\* Of the links in bodies something is known, or of none; the third has no cluster.
GraphIndex(forward, known, clusters, topics) ==
  LET ids == IF known THEN (Drawn \cup {Gone}) \X (1 .. 3) ELSE {}
      InCluster(id) == id[2] # 3
  IN  [files |-> Drawn, clusters |-> clusters, topics |-> topics, forward |-> forward,
       semantic |-> [id \in ids |-> [context |-> IF id[2] = 1 THEN "s" ELSE "t",
                                     cluster |-> IF InCluster(id) THEN 1 ELSE None]],
       edgeClusters |-> <<{id \in ids : InCluster(id)}>>, chunks |-> <<>>, near |-> <<>>]
ChunkIndex(order) ==
  [files |-> Drawn, clusters |-> <<>>, topics |-> <<>>, forward |-> <<>>, semantic |-> <<>>,
   edgeClusters |-> <<>>,
   chunks |-> [a1 |-> <<"a">>, a2 |-> <<"a">>, b1 |-> <<"d", "b">>, c1 |-> <<"d", "e", "c">>],
   near |-> [c \in {"a1", "a2", "b1", "c1"} |-> <<c>> \o SelectSeq(order, LAMBDA v : v # c)]]

Init == input = [kind |-> "none"]
Waiting == input.kind = "none"
Take(i) == input' = i

TakeProgram ==
  /\ Waiting
  /\ \E e, f \in Expressions : \E g \in {N(1), Id("a"), Bin("+", Id("b"), Id("d"))} :
     \E raw \in Raws : \E order \in {<<1, 2, 3>>, <<3, 2, 1>>} :
       Take([kind |-> "program", program |-> Program(e, f, g, order), raw |-> raw])
TakeExpression ==
  /\ Waiting
  /\ \E e, f \in Expressions : \E raw \in Raws :
       Take([kind |-> "expression", e |-> Bin("===", e, f), raw |-> raw])
TakeChain ==
  /\ Waiting
  /\ \E v \in {F!Null, F!Num(1), <<"object", [k \in {<<"p">>} |-> F!Null]>>,
               <<"object", [k \in {<<"p">>} |-> <<"object", [l \in {<<"q">>} |-> F!Num(1)]>>]>>} :
     \E links \in UNION {[1 .. n -> [key : {"p", "q"}, optional : BOOLEAN]] : n \in 1 .. 3} :
       Take([kind |-> "chain", value |-> v, links |-> links])
TakeText ==
  /\ Waiting
  /\ \E t \in BoundedSeq({"x", "y"}, 3), n \in BoundedSeq({"x", "y"}, 2), i, j \in -2 .. 4 :
       Take([kind |-> "text", t |-> t, needle |-> n, i |-> i, j |-> j])
TakeDate ==
  /\ Waiting
  /\ \E y \in {-401, -400, -100, -1, 0, 3, 1899, 1900, 1999, 2000, 2023, 2100} : \E m \in 1 .. 12 :
     \E d \in {1, 27, 28, F!DaysIn(y, m)} :
       Take([kind |-> "date", y |-> y, m |-> m, d |-> d])

\* Scores and matching files vary the most where a ranking is long: limits are 1 and 2,
\* windows start at one and two limits.
TakeSearch ==
  /\ Waiting
  /\ \E vectors \in Orders(<<"a1", "b1", "c1", "c2", "e1">>) :
     \E lexical \in {<<"c2", "a1">>, <<"b1", "c1", "c2", "a1">>} :
     \E mode \in {"semantic", "lexical", "hybrid"}, limit \in 1 .. 2 :
     \E scope \in {{"c"}, {"a", "b"}}, matching \in {AllFiles, {"b", "c"}} :
     \E change \in {<<FALSE, 0>>, <<TRUE, 0>>, <<TRUE, 2>>}, least \in {0, 8} :
       Take([kind |-> "search",
             ix |-> SearchIndex(vectors, lexical, {"c"}, matching, Neighbors, <<"a1", "c1", "b1", "c2">>),
             q |-> [mode |-> mode, limit |-> limit, scope |-> scope, scoped |-> TRUE, min |-> least,
                    decay |-> change[1], boost |-> change[2], expand |-> 0]])
TakeContext ==
  /\ Waiting
  /\ \E vectors \in Orders(<<"a1", "b1", "c1", "c2", "e1">>), limit \in 1 .. 2, expand \in 1 .. 2 :
     \E links \in {Neighbors, Neighbors \cup {<<"a", "c">>, <<"c", "a">>}} :
       Take([kind |-> "context",
             ix |-> SearchIndex(vectors, <<>>, {}, AllFiles, links, <<>>),
             q |-> [mode |-> "semantic", limit |-> limit, scope |-> AllFiles, scoped |-> FALSE, min |-> 0,
                    decay |-> FALSE, boost |-> 0, expand |-> expand]])
TakeEdges ==
  /\ Waiting
  /\ \E vectors \in Orders(<<"a1", "b1", "c1", "c2", "e1", "e2">>), limit \in 1 .. 2 :
     \E scope \in {AllFiles, {"c"}, {"b", "c"}} :
       Take([kind |-> "edges",
             ix |-> [SearchIndex(vectors, <<>>, {}, AllFiles, {}, <<>>) EXCEPT
                       !.source = [e1 |-> "a", e2 |-> "c"]],
             q |-> [mode |-> "edge", limit |-> limit, scope |-> scope]])
TakeMetadata ==
  Waiting /\ \E u, v, w \in Metadata : Take([kind |-> "sort", u |-> u, v |-> v, w |-> w])
TakeManifest ==
  /\ Waiting
  /\ \E paths \in [1 .. 3 -> Folders], old, new \in Folders :
       LET defs == [id \in 1 .. 3 |-> [name |-> 2 * id, path |-> paths[id]]] IN
       /\ D!Valid(defs)
       /\ Take([kind |-> "manifest", definitions |-> IF D!Retargeted(defs, old, new) = None THEN defs
                                                    ELSE D!Retargeted(defs, old, new)[1]])
TakeLayers ==
  Waiting /\ \E base \in Trees(1), overlay \in Trees(2) : Take([kind |-> "layers", base |-> base, overlay |-> overlay])
TakeDefinition ==
  Waiting /\ \E fm \in Frontmatters, ov \in Definitions :
    (Len(fm) = 0 \/ ov \in Whole) /\ Take([kind |-> "definition", frontmatters |-> fm, fields |-> "f" :> ov])
TakeOverlay ==
  /\ Waiting
  /\ \E d, e \in Documents, before \in OverlaysOf({<<>>, Computed}),
        overlay \in OverlaysOf({<<>>, Computed, "f" :> Undefined, "f" :> ([type |-> "string"] @@ Undefined)}) :
       Take([kind |-> "overlay", files |-> <<"a", "x">> :> d @@ <<"b", "x">> :> e, before |-> before, overlay |-> overlay])

TakeGrouping ==
  /\ Waiting
  /\ \E vs \in [1 .. 4 -> Points], k \in 1 .. 2, min \in 2 .. 3 : \E m \in CommunitiesOf(vs, k) :
       Take([kind |-> "grouping", vs |-> vs, k |-> k, min |-> min, m |-> m])

TakePatch ==
  /\ Waiting
  /\ \E doc \in SourceDocuments, unset \in {{}, {"f"}, {"f", "7"}} :
     \E set \in {<<>>, "f" :> 1, "7" :> 1, "f" :> 2 @@ "7" :> 2} :
       Take([kind |-> "patch", doc |-> doc, set |-> set, unset |-> unset])

TakeListing ==
  /\ Waiting
  /\ \E st \in [Listed -> Standings], folder \in {<<>>, <<a>>, <<a, b>>}, recursive \in BOOLEAN :
     \E filter \in {None, <<"v", 1>>}, sortBy \in {None, "v"} :
       Take([kind |-> "listing", disk |-> DiskOf(st), index |-> IndexOf(st),
             q |-> [folder |-> folder, recursive |-> recursive, filter |-> filter, sortBy |-> sortBy,
                    descending |-> FALSE, limit |-> None, offset |-> 0]])
TakeRules ==
  /\ Waiting
  /\ \E git, root \in {{}, {b}}, nested \in {<<>>, <<a>> :> {b}}, sources \in {{<<>>}, {<<a>>, <<b>>}} :
     \E patterns \in SUBSET [name : {a, b}, deep : BOOLEAN] :
       Take([kind |-> "rules", rules |-> [git |-> git, root |-> root, nested |-> nested,
                                          sources |-> sources, patterns |-> patterns]])

TakeBody ==
  /\ Waiting
  /\ \E body \in BoundedSeq(BodyLines, 4) : \E cut \in {<<1, 0>>, <<2, 0>>, <<2, 1>>, <<3, 1>>, <<3, 2>>} :
       Take([kind |-> "body", body |-> body, max |-> cut[1], overlap |-> cut[2]])

TakeGraph ==
  /\ Waiting
  /\ \E forA \in LinksOf(<<"a">>), forB \in LinksOf(<<"d", "b">>), forC \in LinksOf(<<"d", "e", "c">>), known \in BOOLEAN :
     \E clusters \in Groupings, topics \in Scores, shard \in {<<>>, <<"d">>}, visible \in Scopes \cup {None, <<"x">>} :
       Take([kind |-> "graph", shard |-> shard, visible |-> visible,
             ix |-> GraphIndex(<<"a">> :> forA @@ <<"d", "b">> :> forB @@ <<"d", "e", "c">> :> forC
                                 @@ Gone :> <<LinkTo(Gone, 1, <<"a">>, None)>>,
                               known, clusters, topics)])
TakeNear ==
  /\ Waiting
  /\ \E order \in Orders(<<"a1", "a2", "b1", "c1", "e1", "e2">>), k \in 1 .. 2, scope \in Scopes :
       Take([kind |-> "near", ix |-> ChunkIndex(order), k |-> k, scope |-> scope])

Next ==
  \/ TakeGraph \/ TakeNear \/ TakeBody \/ TakeListing \/ TakeRules \/ TakePatch \/ TakeProgram \/ TakeExpression \/ TakeChain \/ TakeText \/ TakeDate
  \/ TakeSearch \/ TakeContext \/ TakeEdges \/ TakeMetadata \/ TakeManifest \/ TakeLayers
  \/ TakeDefinition \/ TakeOverlay \/ TakeGrouping

\* A scoped search and a search of edges miss nothing, and the graph context leaves out no
\* neighbour unfairly; see S!MissesNothing, S!EdgesMissNothing and S!ContextIsFair.
SearchesMissNothing ==
  /\ input.kind = "search" => S!MissesNothing(input.q, input.ix)
  /\ input.kind = "edges" => S!EdgesMissNothing(input.q, input.ix)
  /\ input.kind = "context" => S!ContextIsFair(input.q, input.ix)

\* Lists of Shards keep subtrees together, trees and collections of documents show the same,
\* in pages that are whole, and the watcher differs from an ingest only in known ways; see
\* D!ListShowsTree, L!TreeIsCollection, L!PagesAreWhole and L!FiltersAgree.  Graphs are
\* parts of one another, and near chunks are joined; see V!GraphIsInduced, V!NearestAreJoined.
ListingsAgree ==
  /\ input.kind = "manifest" => D!ListShowsTree(input.definitions)
  /\ input.kind = "listing" =>
       /\ L!TreeIsCollection(input.q, input.disk, input.index)
       /\ L!PagesAreWhole(input.q, input.disk, input.index, {"s"})
  /\ input.kind = "rules" => L!FiltersAgree(SourceFiles, input.rules)
  /\ input.kind = "graph" => V!GraphIsInduced(input.ix, input.shard, input.visible)
  /\ input.kind = "near" => V!NearestAreJoined(input.ix, input.k, input.scope)

\* Chunks hold all of a body, and paragraphs of links are as long as they may be; see
\* K!ChunksCoverBody and K!ParagraphsFit.
ChunksCoverBody ==
  input.kind = "body" =>
    /\ K!ChunksCoverBody(input.body, input.max, input.overlap)
    /\ \A i \in DOMAIN input.body : \A most \in {1, 4} : K!ParagraphsFit(input.body, i, most)

\* Layers of settings and single changes touch what they name; see C!LayersKeepLeaves.
LayersKeepLeaves ==
  input.kind = "layers" =>
    C!LayersKeepLeaves(input.base, input.overlay, TreePaths) /\ C!MutationsAreLocal(input.base, TreePaths)

\* Accepted definitions are whole, and stay what they are; see Sc!DefinitionsAreWhole.
DefinitionsAreWhole == input.kind = "definition" => Sc!DefinitionsAreWhole(input.frontmatters, input.fields)

\* Schemas keep nothing of what is gone; see Sc!NoGhostColumns.
NoGhostColumns == input.kind = "overlay" => Sc!NoGhostColumns(input.files, input.before, input.overlay)

\* The order of metadata is an order; see S!SortsTotally. It is not.
SortsTotally == input.kind = "sort" => S!SortsTotally(input.u, input.v, input.w)

\* Documents stay in one group each, and the folding of small ones ends; see
\* G!GroupingIsPartition and G!StragglersStay.
GroupingIsPartition == input.kind = "grouping" => G!GroupingIsPartition(input.m, input.vs, input.k, input.min)
StragglersStay == input.kind = "grouping" => G!StragglersStay(input.m, input.vs, input.k, input.min)

\* Patches of frontmatter change their fields only; see P!PatchKeepsTheRest and P!PatchSucceeds.
PatchKeepsTheRest ==
  input.kind = "patch" =>
    /\ \A editor \in P!Editors : P!PatchKeepsTheRest(input.doc, input.set, input.unset, editor)
    /\ P!PatchSucceeds(input.doc, input.set, input.unset)

\* Methods of texts agree with one another, days are numbered one after the other, and
\* optional chains stop where JavaScript's do; see F!TextMethodsAgree, F!DayAfterDay and
\* F!ChainIsJavaScript.
ValueMethodsAgree ==
  /\ input.kind = "text" => F!TextMethodsAgree(input.t, input.needle, input.i, input.j)
  /\ input.kind = "date" => F!DayAfterDay(input.y, input.m, input.d)
  /\ input.kind = "chain" => F!ChainIsJavaScript(input.value, input.links)

\* The values of a program solve its definitions, whatever their order; see IsSolution.
ProgramsAreSolved == input.kind = "program" => F!IsSolution(input.program, input.raw)

\* Static dependencies are all that a formula reads; see SeesOnlyDependencies.
DependenciesSuffice ==
  input.kind = "expression" => F!SeesOnlyDependencies(input.e, input.raw)
=============================================================================
