------------------------------ MODULE Listings ------------------------------
(***************************************************************************)
(* What a user sees of the documents: the rules that find them, which an   *)
(* ingest and the watcher apply each in its own way, the tree of files and *)
(* the rows of a collection.  A path is a sequence of names, a name a      *)
(* sequence of codes; the disk holds what a document has when it is read,  *)
(* or None where it is gone by then.                                       *)
(***************************************************************************)
EXTENDS Integers, SequencesExt, TLC

CONSTANTS Builtin, None

Dot == 46
Slash == 47
RECURSIVE Flat(_)
Flat(path) == IF Len(path) = 1 THEN path[1] ELSE path[1] \o <<Slash>> \o Flat(Tail(path))
Part(text, whole) == \E i \in 1 .. Len(whole) - Len(text) + 1 : SubSeq(whole, i, i + Len(text) - 1) = text
Before(s, t) ==
  \/ IsStrictPrefix(s, t)
  \/ \E i \in 1 .. Len(s) : i <= Len(t) /\ s[i] < t[i] /\ \A j \in 1 .. i - 1 : s[j] = t[j]
Within(path, folder) == IsPrefix(folder, path)

\* Rules: source folders, names ignored by git, by the root's and by a folder's .mdvdbignore,
\* and patterns, which are names, or the name of a folder and /**.
Excluded(path, i, source, rules) ==
  \/ path[i] \in Builtin /\ i < Len(path)
  \/ path[i][1] = Dot
  \/ path[i] \in rules.git \cup rules.root
  \/ \E folder \in DOMAIN rules.nested :
       Within(SubSeq(path, 1, i - 1), folder) /\ path[i] \in rules.nested[folder]
  \/ \E p \in rules.patterns : path[i] = p.name /\ (p.deep => i = Len(source) + 1 /\ i < Len(path))
Discover(files, rules) ==
  {f \in files : \E source \in rules.sources :
     Within(f, source) /\ \A i \in Len(source) + 1 .. Len(f) : ~Excluded(f, i, source, rules)}
EventIsInSources(path, rules) == \E source \in rules.sources : Within(path, source)
ShouldIndexByPatterns(path, rules) == \A p \in rules.patterns : p.deep \/ ~Part(p.name, Flat(path))
ShouldIndex(path, rules) ==
  /\ \A i \in DOMAIN path : path[i] \notin Builtin \cup rules.root
  /\ \A p \in rules.patterns : p.deep \/ ~Part(p.name, Flat(path))
Watched(files, rules) == {f \in files : EventIsInSources(f, rules) /\ ShouldIndex(f, rules)}

\* The watcher misses documents of an ingest only where a pattern is part of a name or of
\* the way to a source, and takes others only where a name is hidden, where git or the
\* .mdvdbignore of a folder leaves it out, or under a pattern with /**.
FiltersAgree(files, rules) ==
  LET found == Discover(files, rules)
      watched == Watched(files, rules)
  IN  /\ \A f \in found \ watched :
           \/ \E p \in rules.patterns : ~p.deep /\ Part(p.name, Flat(f))
           \/ \E i \in DOMAIN f : f[i] \in Builtin \cup rules.root /\ \E s \in rules.sources : i <= Len(s)
      /\ \A f \in watched \ found :
           \E i \in DOMAIN f :
             \/ f[i][1] = Dot \/ f[i] \in rules.git
             \/ \E folder \in DOMAIN rules.nested : Within(f, folder) /\ f[i] \in rules.nested[folder]
             \/ \E p \in rules.patterns : p.deep /\ f[i] = p.name

\* How a document stands to the index; reading fails for one that vanished since it was found.
State(path, disk, index) ==
  CASE path \notin DOMAIN index -> "new"
    [] path \notin DOMAIN disk -> "deleted"
    [] OTHER -> IF disk[path] = index[path].hash THEN "indexed" ELSE "modified"
Paths(disk, index) == DOMAIN disk \cup DOMAIN index
Entries(disk, index) == [p \in Paths(disk, index) |-> State(p, disk, index)]
Unreadable(disk, index) == {p \in DOMAIN disk \cap DOMAIN index : disk[p] = None}

\* The tree of entries as the sequence of its nodes: folders before files, each in order.
Node(path, state) == [path |-> path, state |-> state]
RECURSIVE Nodes(_, _)
Nodes(entries, folder) ==
  LET below == {p \in DOMAIN entries : IsStrictPrefix(folder, p)}
      depth == Len(folder) + 1
      names == SetToSortSeq({p[depth] : p \in {q \in below : Len(q) > depth}}, Before)
      files == SetToSortSeq({p[depth] : p \in {q \in below : Len(q) = depth}}, Before)
      Dir(n) == <<Node(Append(folder, n), None)>> \o Nodes(entries, Append(folder, n))
  IN  FoldLeft(LAMBDA acc, n : acc \o Dir(n), <<>>, names)
      \o [i \in DOMAIN files |-> Node(Append(folder, files[i]), entries[Append(folder, files[i])])]
States == {"indexed", "modified", "new", "deleted"}
FilterFileTreeCountsKept(entries, folder) ==
  LET CountOf(s) == Cardinality({p \in DOMAIN entries : entries[p] = s})
  IN  IF folder # <<>> /\ ~\E p \in DOMAIN entries : IsStrictPrefix(folder, p) THEN None
      ELSE [nodes |-> Nodes(entries, folder), counts |-> [s \in States |-> CountOf(s)]]
\* The part of the tree under a folder with its own counts, or None.
FilterFileTree(entries, folder) ==
  LET nodes == Nodes(entries, folder)
  IN  IF folder # <<>> /\ ~\E p \in DOMAIN entries : IsStrictPrefix(folder, p) THEN None
      ELSE [nodes |-> nodes,
            counts |-> [s \in States |-> Cardinality({i \in DOMAIN nodes : nodes[i].state = s})]]

\* Rows of a collection: new documents have no values yet.
InScope(path, q) == Within(path, q.folder) /\ (q.recursive \/ Len(path) <= Len(q.folder) + 1)
Row(path, disk, index) ==
  [path |-> path, state |-> State(path, disk, index),
   values |-> IF path \in DOMAIN index THEN index[path].values ELSE <<>>]
GatherRows(q, disk, index) ==
  {Row(p, disk, index) : p \in {p \in Paths(disk, index) : InScope(p, q)}}
Value(row, field) == IF field \in DOMAIN row.values THEN row.values[field] ELSE None
Passes(row, q) == q.filter = None \/ Value(row, q.filter[1]) = q.filter[2]

RowBeforeTurned(q, r, s) ==
  LET v == Value(r, q.sortBy)
      w == Value(s, q.sortBy)
      Key(x) == IF x = None THEN 1000 ELSE x
  IN  IF q.sortBy = None \/ v = w THEN Before(Flat(r.path), Flat(s.path))
      ELSE IF q.descending THEN Key(v) > Key(w) ELSE Key(v) < Key(w)
\* By a field, or by path; rows without a value are last in either direction.
RowBefore(q, r, s) ==
  LET v == Value(r, q.sortBy)
      w == Value(s, q.sortBy)
      byPath == Before(Flat(r.path), Flat(s.path))
  IN  CASE q.sortBy = None \/ v = w -> byPath
        [] v = None -> FALSE
        [] w = None -> TRUE
        [] OTHER -> IF q.descending THEN v > w ELSE v < w
SortRows(q, rows) == SetToSortSeq(rows, LAMBDA r, s : RowBefore(q, r, s))

\* The fields of the schema, then what else the rows have.
Columns(schema, rows) ==
  LET present == UNION {DOMAIN r.values : r \in rows}
  IN  SetToSeq(schema) \o SetToSeq(present \ schema)

\* Columns and the total are those of all rows that pass, whatever the page.
Collection(q, disk, index, schema) ==
  LET rows == {r \in GatherRows(q, disk, index) : Passes(r, q)}
      total == Cardinality(rows)
      last == IF q.limit = None THEN total ELSE Min({total, q.offset + q.limit})
  IN  IF \E p \in Unreadable(disk, index) : InScope(p, q) THEN None
      ELSE [columns |-> Columns(schema, rows), total |-> total,
            rows |-> SubSeq(SortRows(q, rows), q.offset + 1, last)]

\* The tree of a folder and its collection show the same documents in the same states, each
\* once, in either depth; a document that has the folder's own name is a row but no node.
TreeIsCollection(q, disk, index) ==
  LET tree == FilterFileTree(Entries(disk, index), q.folder)
      all == Collection([q EXCEPT !.filter = None, !.limit = None, !.offset = 0], disk, index, {})
      files == IF tree = None THEN {} ELSE {i \in DOMAIN tree.nodes : tree.nodes[i].state # None}
      shown == {i \in files : InScope(tree.nodes[i].path, q)}
      rows == {i \in DOMAIN all.rows : all.rows[i].path # q.folder}
  IN  Unreadable(disk, index) = {} =>
        /\ {[path |-> all.rows[i].path, state |-> all.rows[i].state] : i \in rows}
             = {tree.nodes[i] : i \in shown}
        /\ Cardinality(shown) = Cardinality(rows)
        /\ tree # None => \A s \in States :
             tree.counts[s] = Cardinality({p \in Paths(disk, index) :
               IsStrictPrefix(q.folder, p) /\ State(p, disk, index) = s})

\* Pages put together are the whole, under one layout of columns with each field of a row
\* once; rows without a value come last, and turning the order turns the others.
PagesAreWhole(q, disk, index, schema) ==
  LET whole == Collection([q EXCEPT !.limit = None, !.offset = 0], disk, index, schema)
      Page(n) == Collection([q EXCEPT !.limit = 2, !.offset = 2 * n], disk, index, schema)
      turned == Collection([q EXCEPT !.limit = None, !.offset = 0, !.descending = ~@], disk, index, schema)
      V(c) == SelectSeq([i \in DOMAIN c.rows |-> Value(c.rows[i], q.sortBy)], LAMBDA v : v # None)
  IN  whole # None =>
        /\ whole.rows = Page(0).rows \o Page(1).rows \o Page(2).rows
        /\ \A n \in 0 .. 2 : Page(n).total = whole.total /\ Page(n).columns = whole.columns
        /\ IsInjective(whole.columns)
        /\ \A i \in DOMAIN whole.rows : DOMAIN whole.rows[i].values \subseteq ToSet(whole.columns)
        /\ q.sortBy # None =>
             /\ V(turned) = Reverse(V(whole))
             /\ \A c \in {whole, turned} : \A i, j \in DOMAIN c.rows :
                  Value(c.rows[i], q.sortBy) = None /\ i < j => Value(c.rows[j], q.sortBy) = None
=============================================================================
