----------------------------- MODULE LinkGraph -----------------------------
(***************************************************************************)
(* The graph of links between documents: how links and relations resolve   *)
(* to paths, how ingests rebuild the graph and the watcher keeps it up to  *)
(* date document by document, and what is asked of it: backlinks,          *)
(* neighbourhoods, distances, orphans, populated relations.                *)
(*                                                                         *)
(* A path is the sequence of its segments, without the .md the code adds;  *)
(* a target is such a sequence in which ".." may occur.                    *)
(***************************************************************************)
EXTENDS Option, Naturals, SequencesExt, FiniteSetsExt

CONSTANTS
  Paths,       \* of documents
  Contents,    \* sources: targets of body links, and relations with their fields
  Overlays,    \* target folder of each field or None, and fields that are no relation
  MaxEdits     \* bound

\* A source has sequences of links and of relations, and relations are of a field.
ASSUME LinksAssumption ==
  /\ \A c \in Contents : /\ c.body \in Seq(ToSet(c.body)) /\ c.rels \in Seq(ToSet(c.rels))
                         /\ \A i \in DOMAIN c.rels : c.rels[i].field # None
  /\ IsFiniteSet(Paths) /\ None \notin Paths /\ None \notin Contents /\ \A o \in Overlays : None \notin DOMAIN o.folder

VARIABLES
  disk,        \* the documents
  overlay,
  indexed,     \* the sources the index holds
  forward,     \* the graph: the links of each document, <<>> if it has no key
  queue,       \* events the watcher has still to take: path and kind
  ahead,       \* history: documents whose links are of a source the index has not
  unlinked,    \* history: documents removed without their links
  edits

graphVars == <<indexed, forward>>
linkVars == <<disk, overlay, graphVars, queue, ahead, unlinked, edits>>

-----------------------------------------------------------------------------
(* Resolution *)

\* normalize_path: going up from the root stays there.
NormalizePath(target) ==
  FoldLeft(LAMBDA at, c : IF c # ".." THEN Append(at, c) ELSE IF at = <<>> THEN at ELSE Front(at),
           <<>>, target)

ResolveLink(source, target) ==
  IF target = <<>> THEN <<>> ELSE NormalizePath(Front(source) \o target)

\* relation_target_candidates, in the order in which they are tried.
RelationTargetCandidates(source, target, folder) ==
  LET root == NormalizePath(target)
      beside == ResolveLink(source, target)
  IN  IF target = <<>> THEN <<>>
      ELSE IF Len(target) > 1 THEN (IF beside = root THEN <<root>> ELSE <<root, beside>>)
      ELSE IF folder # None THEN <<folder \o target>>
      ELSE <<beside>>

\* The first candidate that is known, or else the first one.
ResolveRelationTarget(source, target, folder, known) ==
  LET candidates == RelationTargetCandidates(source, target, folder)
      there == SelectSeq(candidates, LAMBDA c : c \in known)
  IN  IF candidates = <<>> THEN None
      ELSE IF there # <<>> THEN Head(there) ELSE Head(candidates)

\* RelationContext: fields that are files or computed are no relations.
TargetFor(ov, field) == ov.folder[field]
IsHidden(ov, field) == field \in ov.hidden

Entry(target, field) == [target |-> target, field |-> field]

\* build_entries_for_file: links with one of the targets or one of the fields are skipped,
\* and so is what has been pushed.
Pushed(entries, e, targets, fields) ==
  IF e.target \in targets \/ e.field \in fields \/ Contains(entries, e) THEN entries ELSE Append(entries, e)
Entries(links, targets, fields) ==
  LET entries[n \in 0 .. Len(links)] ==
        IF n = 0 THEN <<>> ELSE Pushed(entries[n - 1], links[n], targets, fields)
  IN  entries[Len(links)]

BodyEntries(source, doc) ==
  Entries([i \in DOMAIN doc.body |-> Entry(ResolveLink(source, doc.body[i]), None)], {<<>>, source}, {})
\* Fields that are files or computed are left out.  Mutant: they are kept.
RelationLinks(source, doc, known, ov) ==
  [i \in DOMAIN doc.rels |->
     Entry(ResolveRelationTarget(source, doc.rels[i].target, TargetFor(ov, doc.rels[i].field), known),
           doc.rels[i].field)]
RelationEntriesOfAll(source, doc, known, ov) ==
  Entries(RelationLinks(source, doc, known, ov), {None, source}, {})
RelationEntries(source, doc, known, ov) ==
  Entries(RelationLinks(source, doc, known, ov), {None, source}, ov.hidden)
BuildEntries(source, doc, known, ov) ==
  BodyEntries(source, doc) \o RelationEntries(source, doc, known, ov)

Present(files) == {p \in Paths : files[p] # None}

BuildLinkGraph(files, ov) ==
  [p \in Paths |-> IF files[p] = None THEN <<>> ELSE BuildEntries(p, files[p], Present(files), ov)]

-----------------------------------------------------------------------------
(* Queries; a graph is a function like forward *)

Links(g) == UNION {{<<p, i>> : i \in DOMAIN g[p]} : p \in DOMAIN g}

\* compute_backlinks; the order among sources is that of a hash map.
Backlinks(g, p) == {[source |-> l[1], field |-> g[l[1]][l[2]].field] :
                    l \in {k \in Links(g) : g[k[1]][k[2]].target = p}}

\* bfs_neighbors: one turn of its loop takes the head of the queue.
\* Mutant: what others link to from here is left out.
ForwardNeighbors(g, p) == IF p \in DOMAIN g THEN {e.target : e \in ToSet(g[p])} ELSE {}
Neighbors(g, p) == ForwardNeighbors(g, p) \cup {b.source : b \in Backlinks(g, p)}
BfsTurn(near, max, s) ==
  IF s.queue = <<>> THEN s
  ELSE LET d == Head(s.queue)[2]
           new == IF d >= max THEN {} ELSE near[Head(s.queue)[1]] \ s.visited
           order == SetToSeq(new)
       IN  [visited |-> s.visited \cup new,
            result |-> s.result \cup (new \X {d + 1}),
            queue |-> Tail(s.queue) \o [i \in DOMAIN order |-> <<order[i], d + 1>>]]
Vertices(g) == DOMAIN g \cup {g[l[1]][l[2]].target : l \in Links(g)}
BfsStart(seeds) ==
  LET order == SetToSeq(seeds)
  IN  [visited |-> seeds, result |-> {}, queue |-> [i \in DOMAIN order |-> <<order[i], 0>>]]
BfsNeighbors(g, seeds, depth) ==
  LET max == IF depth > 3 THEN 3 ELSE depth
      near == [p \in Vertices(g) \cup seeds |-> Neighbors(g, p)]
      turn[n \in Nat] == IF n = 0 THEN BfsStart(seeds) ELSE BfsTurn(near, max, turn[n - 1])
  IN  IF max = 0 THEN {} ELSE turn[Cardinality(Vertices(g) \cup seeds)].result

\* build_outgoing_tree and build_incoming_tree, as the paths from the root to each
\* node: a path never returns to a document it has passed, but siblings may repeat
\* what others have. A node is a path and the index or field of the link to it.
Outgoing(g, p) == IF p \in DOMAIN g THEN {<<g[p][i].target, i>> : i \in DOMAIN g[p]} ELSE {}
\* Mutant: forgets the relations.
IncomingOfBody(g, p) == {<<b.source, b.field>> : b \in {c \in Backlinks(g, p) : c.field = None}}
Incoming(g, p) == {<<b.source, b.field>> : b \in Backlinks(g, p)}
Following(g, p, way) == IF way = "outgoing" THEN Outgoing(g, p) ELSE Incoming(g, p)
OnBranch(branch, p) == \E i \in DOMAIN branch : branch[i][1] = p
Grow(g, way, branches) ==
  UNION {{Append(b, n) : n \in {m \in Following(g, Last(b)[1], way) : ~OnBranch(b, m[1])}} : b \in branches}
Tree(g, p, way, depth) ==
  LET level1 == Grow(g, way, {<<<<p, None>>>>})
      level2 == Grow(g, way, level1)
      level3 == Grow(g, way, level2)
  IN  level1 \cup (IF depth > 1 THEN level2 ELSE {}) \cup (IF depth > 2 THEN level3 ELSE {})
Clamp(depth) == IF depth < 1 THEN 1 ELSE IF depth > 3 THEN 3 ELSE depth
Neighborhood(g, p, depth) ==
  [outgoing |-> Tree(g, p, "outgoing", Clamp(depth)), incoming |-> Tree(g, p, "incoming", Clamp(depth))]

\* query_links: broken is what is not indexed.
QueryLinks(g, p, known) ==
  [valid |-> {e \in ToSet(g[p]) : e.target \in known},
   broken |-> {e \in ToSet(g[p]) : e.target \notin known},
   incoming |-> Backlinks(g, p)]

FindOrphans(g, files) == {p \in files : g[p] = <<>> /\ Backlinks(g, p) = {}}

\* compute_relations resolves anew; compute_referenced_by asks the graph.
ComputeRelations(p) ==
  {e \in {Entry(ResolveRelationTarget(p, r.target, TargetFor(overlay, r.field), Present(indexed)), r.field) :
          r \in {r \in ToSet(indexed[p].rels) : ~IsHidden(overlay, r.field)}} :
     e.target # p}
ComputeReferencedBy(p) == {b \in Backlinks(forward, p) : b.field # None}

-----------------------------------------------------------------------------
(* The watcher and the ingests *)

\* Mutant: only a document that has links replaces those it had.
UpdateFileLinksGated(g, p, doc, known) ==
  LET entries == BuildEntries(p, doc, known, overlay)
  IN  IF entries = <<>> THEN g ELSE [g EXCEPT ![p] = entries]
UpdateFileLinks(g, p, doc, known) == [g EXCEPT ![p] = BuildEntries(p, doc, known, overlay)]
\* Mutant: removes what leads to the document.
RemoveBacklinks(g, p) == [q \in Paths |-> SelectSeq(g[q], LAMBDA e : e.target # p)]
RemoveFileLinks(g, p) == [g EXCEPT ![p] = <<>>]

Edit(p, c) ==
  /\ edits < MaxEdits /\ disk[p] # c
  /\ disk' = [disk EXCEPT ![p] = c]
  \* A removal may be reported as a modification.
  /\ \E kind \in IF c = None THEN {"deleted", "modified"} ELSE {"modified"} :
       queue' = Append(queue, [path |-> p, kind |-> kind])
  /\ edits' = edits + 1
  /\ UNCHANGED <<overlay, graphVars, ahead, unlinked>>

ChangeOverlay(o) ==
  /\ edits < MaxEdits /\ o # overlay
  /\ overlay' = o
  /\ queue' = Append(queue, [path |-> None, kind |-> "schema"])
  /\ edits' = edits + 1
  /\ UNCHANGED <<disk, graphVars, ahead, unlinked>>

\* A rename is one event; the old path is not looked at again.
Rename(p, q) ==
  /\ edits < MaxEdits /\ disk[p] # None /\ disk[q] = None
  /\ disk' = [disk EXCEPT ![q] = disk[p], ![p] = None]
  /\ queue' = Append(queue, [path |-> q, kind |-> "renamed", from |-> p])
  /\ edits' = edits + 1
  /\ UNCHANGED <<overlay, graphVars, ahead, unlinked>>

Now == [indexed |-> indexed, forward |-> forward, ahead |-> ahead, unlinked |-> unlinked]
Become(s) ==
  indexed' = s.indexed /\ forward' = s.forward /\ ahead' = s.ahead /\ unlinked' = s.unlinked

\* Deleted, and the file is gone; or the old path of a rename.
Removed(s, p) ==
  [indexed |-> [s.indexed EXCEPT ![p] = None], forward |-> RemoveFileLinks(s.forward, p),
   ahead |-> s.ahead \ {p}, unlinked |-> s.unlinked \ {p}]

\* process_file: of a file that is gone the links are left in the graph.
Processed(s, p) ==
  IF disk[p] = None
  THEN [indexed |-> [s.indexed EXCEPT ![p] = None], forward |-> s.forward,
        ahead |-> s.ahead, unlinked |-> s.unlinked \cup {p}]
  ELSE IF s.indexed[p] = disk[p] THEN s
  ELSE LET known == Present(s.indexed) \cup {p} IN
       [indexed |-> [s.indexed EXCEPT ![p] = disk[p]],
        forward |-> UpdateFileLinks(s.forward, p, disk[p], known),
        ahead |-> s.ahead \ {p}, unlinked |-> s.unlinked \ {p}]

HandleFile ==
  /\ queue # <<>> /\ Head(queue).kind # "schema"
  /\ queue' = Tail(queue)
  /\ LET e == Head(queue) IN
     Become(CASE e.kind = "deleted" /\ disk[e.path] = None -> Removed(Now, e.path)
              [] e.kind = "renamed" -> Processed(Removed(Now, e.from), e.path)
              [] OTHER -> Processed(Now, e.path))
  /\ UNCHANGED <<disk, overlay, edits>>

\* SchemaChanged revisits every indexed document, as it is on disk now.
HandleSchema ==
  /\ queue # <<>> /\ Head(queue).kind = "schema"
  /\ queue' = Tail(queue)
  /\ LET there == {p \in Present(indexed) : disk[p] # None} IN
     /\ forward' = [p \in Paths |-> IF p \in there
                                    THEN BuildEntries(p, disk[p], Present(indexed), overlay)
                                    ELSE forward[p]]
     /\ ahead' = (ahead \ there) \cup {p \in there : disk[p] # indexed[p]}
  /\ UNCHANGED <<disk, overlay, indexed, unlinked, edits>>

Ingest ==
  /\ indexed' = disk
  /\ forward' = BuildLinkGraph(disk, overlay)
  /\ ahead' = {} /\ unlinked' = {}
  /\ UNCHANGED <<disk, overlay, queue, edits>>

\* ingest --file, of a file that is there and has changed.
IngestFile(p) ==
  /\ disk[p] # None /\ disk[p] # indexed[p]
  /\ Become(Processed(Now, p))
  /\ UNCHANGED <<disk, overlay, queue, edits>>

LinksInit ==
  /\ disk = [p \in Paths |-> None] /\ indexed = disk
  /\ overlay \in Overlays
  /\ forward = [p \in Paths |-> <<>>]
  /\ queue = <<>> /\ ahead = {} /\ unlinked = {} /\ edits = 0

LinksNext ==
  \/ \E p \in Paths : \E c \in Contents \cup {None} : Edit(p, c)
  \/ \E p, q \in Paths : Rename(p, q)
  \/ \E o \in Overlays : ChangeOverlay(o)
  \/ HandleFile
  \/ HandleSchema
  \/ Ingest
  \/ \E p \in Paths : IngestFile(p)

LinksSpec == LinksInit /\ [][LinksNext]_linkVars

-----------------------------------------------------------------------------
(* Properties *)

\* Every document that has links in the graph is indexed -- but for those whose
\* removal was reported as a modification.
NoGhosts == \A p \in Paths : forward[p] # <<>> => indexed[p] # None \/ p \in unlinked

\* The body links of an indexed document are those of the source the index holds, in
\* their order, whatever mix of events and ingests led there -- but for documents
\* whose links a schema event took from a newer source.
BodyLinksFollow ==
  \A p \in Present(indexed) \ ahead :
    LET body == BodyEntries(p, indexed[p])
    IN  /\ IsPrefix(body, forward[p])
        /\ \A i \in Len(body) + 1 .. Len(forward[p]) : forward[p][i].field # None

\* The graph has the documents of the index and their links; see NoGhosts and BodyLinksFollow.
GraphFollowsIndex == NoGhosts /\ BodyLinksFollow

\* After an ingest the two ways to follow relations agree: what a document is
\* populated with is referenced by it, and nothing else is.
PopulateMatchesBacklinks ==
  (forward = BuildLinkGraph(indexed, overlay)) =>
    \A p \in Present(indexed) : \A q \in Paths : \A f \in DOMAIN overlay.folder :
      LET b == [source |-> p, field |-> f] IN
      /\ (Entry(q, f) \in ComputeRelations(p)) = (b \in ComputeReferencedBy(q))
      /\ indexed[q] # None =>
           (Entry(q, f) \in QueryLinks(forward, p, Present(indexed)).valid)
             = (b \in QueryLinks(forward, q, Present(indexed)).incoming)

\* What bfs_neighbors finds from any documents is what is within three links, in either
\* direction, at its shortest distance -- with cycles, links to documents that do not
\* exist and seeds that are not indexed.
Adjacent(g, some) ==
  {g[l[1]][l[2]].target : l \in {k \in Links(g) : k[1] \in some}}
    \cup {l[1] : l \in {k \in Links(g) : g[k[1]][k[2]].target \in some}}
Within(g, seeds) ==
  LET within[n \in Nat] == IF n = 0 THEN seeds ELSE within[n - 1] \cup Adjacent(g, within[n - 1])
  IN  within
ByDistance(g, seeds, depth) ==
  UNION {(Within(g, seeds)[d] \ Within(g, seeds)[d - 1]) \X {d} : d \in 1 .. IF depth > 3 THEN 3 ELSE depth}
NeighborsAreNearest(g) ==
  \A seeds \in SUBSET Paths : \A depth \in {0, 2, 4} : BfsNeighbors(g, seeds, depth) = ByDistance(g, seeds, depth)

\* What n links lead to, one after the other.
Reached(g, p) ==
  LET reached[n \in Nat] ==
        IF n = 0 THEN {p} ELSE UNION {{m[1] : m \in Outgoing(g, q)} : q \in reached[n - 1]}
  IN  reached
\* The trees of a neighbourhood lose no document: each that some way of at most the
\* asked number of links leads to is in the tree, the first time at its distance; p is
\* in the incoming tree of q when q is in the outgoing one of p; and orphans are those
\* whose two trees are empty.
NeighborhoodIsComplete(g) ==
  \A depth \in {1, 3} :
    LET trees == [p \in Paths |-> Neighborhood(g, p, depth)]
        reach == [p \in Paths |-> Reached(g, p)]
        ends(tree) == {Last(b)[1] : b \in tree}
    IN  \A p \in Paths :
          /\ \A n \in 1 .. depth : reach[p][n] \ UNION {reach[p][k] : k \in 0 .. n - 1}
                                     \subseteq ends({b \in trees[p].outgoing : Len(b) = n + 1})
          /\ \A q \in Paths : p \in ends(trees[q].incoming) <=> q \in ends(trees[p].outgoing)
          /\ p \in FindOrphans(g, Paths) <=> trees[p].outgoing = {} /\ trees[p].incoming = {}

\* Queries that walk the graph neither miss a document nor find one too near or too far;
\* see NeighborsAreNearest and NeighborhoodIsComplete.
WalksAreExact == Links(forward) # {} => NeighborsAreNearest(forward) /\ NeighborhoodIsComplete(forward)
=============================================================================
