------------------------------- MODULE Search -------------------------------
(***************************************************************************)
(* Search over one state of the index: candidate windows that widen, the   *)
(* fusion of two rankings, the assembly of results with decay and link     *)
(* boosts, the graph context around them, and the order of metadata.       *)
(*                                                                         *)
(* The index is a record ix:                                               *)
(*   vectors    chunks and edges from the nearest to the query on          *)
(*   score      what each of them scores, a multiple of 4                  *)
(*   lexical    the chunks the text search finds, best first               *)
(*   chunks     the file of each chunk; a file's first chunk is Home[f]    *)
(*   source     the file of each edge                                      *)
(*   aged       files one half-life old; the others are new                *)
(*   matching   files whose metadata passes the filters                    *)
(*   links      pairs of files, in both directions                         *)
(*   tie        the order in which hash maps are walked                    *)
(* A query q is a record of mode, limit, scope (files), min, decay, boost  *)
(* (a number of hops, 0 for none) and expand (likewise).                   *)
(***************************************************************************)
EXTENDS Integers, SequencesExt, FiniteSetsExt

CONSTANTS OverFetch, HybridOverFetch,   \* 3 and 5 in the code
          Seeds,                        \* 3 in the code
          ExpandLeast, ExpandEach,      \* 100 and 10 in the code
          ExpandLimit,                  \* results for each hop
          RrfK, RrfScale                \* RrfScale is divisible by RrfK + each rank

Cut(s, n) == IF n < Len(s) THEN SubSeq(s, 1, n) ELSE s
\* A stable sort by falling score, over r.score.
ByScore(rs) ==
  LET order == SetToSortSeq(DOMAIN rs, LAMBDA i, j : rs[i].score > rs[j].score
                                                     \/ (rs[i].score = rs[j].score /\ i < j))
  IN  [k \in DOMAIN rs |-> rs[order[k]]]
AtLeast(a, b) == IF a > b THEN a ELSE b
AtMost(a, b) == IF a < b THEN a ELSE b

-----------------------------------------------------------------------------
(* Candidates *)

Chunks(ix) == DOMAIN ix.chunks
Edges(ix) == DOMAIN ix.source
Ranked(ix, ids) == [k \in DOMAIN ids |-> [id |-> ids[k], score |-> ix.score[ids[k]]]]

\* Chunks and edges share one index of vectors: the nearest are taken, then the others'
\* kind is dropped. Mutant: also where all of one kind are wanted.
NearestBounded(ix, kind, limit) ==
  Cut(SelectSeq(Cut(ix.vectors, 2 * limit), LAMBDA v : v \in kind), limit)
Nearest(ix, kind, limit) ==
  LET requested == AtMost(limit, Cardinality(kind))
      window == IF requested = Cardinality(kind) THEN Len(ix.vectors) ELSE 2 * requested
  IN  Cut(SelectSeq(Cut(ix.vectors, window), LAMBDA v : v \in kind), limit)
SearchVectors(ix, limit) == Ranked(ix, Nearest(ix, Chunks(ix), limit))
SearchEdges(ix, limit) == Ranked(ix, Nearest(ix, Edges(ix), limit))
LexicalSearch(ix, limit) == Ranked(ix, Cut(ix.lexical, limit))

\* Equal scores stand in the order of a hash map.
ReciprocalRankFusion(ix, as, bs) ==
  LET share(rs, id) == MapThenSumSet(LAMBDA k : RrfScale \div (RrfK + k), {k \in DOMAIN rs : rs[k].id = id})
      found == SelectSeq(ix.tie, LAMBDA id : \E r \in ToSet(as) \cup ToSet(bs) : r.id = id)
  IN  ByScore([k \in DOMAIN found |->
                 [id |-> found[k], score |-> share(as, found[k]) + share(bs, found[k])]])

Candidates(q, ix, window) ==
  CASE window = 0 -> <<>>
    [] q.mode = "semantic" -> SearchVectors(ix, window)
    [] q.mode = "lexical" -> LexicalSearch(ix, window)
    [] q.mode = "hybrid" ->
         ReciprocalRankFusion(ix, SearchVectors(ix, window), LexicalSearch(ix, window))
Ceiling(q, ix) ==
  CASE q.mode = "edge" -> Cardinality(Edges(ix))
    [] q.mode = "semantic" -> Cardinality(Chunks(ix))
    [] q.mode = "lexical" -> ix.texts
    [] q.mode = "hybrid" -> AtLeast(Cardinality(Chunks(ix)), ix.texts)
FirstWindow(q, ix) ==
  AtMost(q.limit * (IF q.mode = "hybrid" THEN HybridOverFetch ELSE OverFetch), Ceiling(q, ix))
WidenedCandidateLimit(window, ceiling) == AtMost(AtLeast(2 * window, window + 1), ceiling)

-----------------------------------------------------------------------------
(* Results *)

\* Distances from the seeds over links, seeds left out, up to a number of hops.
Within(ix, seeds, hops) ==
  LET reach[h \in 0 .. hops] ==
        IF h = 0 THEN seeds ELSE reach[h - 1] \cup {p[2] : p \in {p \in ix.links : p[1] \in reach[h - 1]}}
  IN  [f \in reach[hops] \ seeds |-> Min({h \in 1 .. hops : f \in reach[h]})]

FilesOf(ix, results) == {ix.chunks[results[k].id] : k \in DOMAIN results}
Decayed(q, ix, r) == IF q.decay /\ ix.chunks[r.id] \in ix.aged THEN r.score \div 2 ELSE r.score
Passes(q, ix, r) ==
  /\ ix.chunks[r.id] \in q.scope \cap ix.matching
  /\ Decayed(q, ix, r) >= q.min

\* Neighbours of the best results gain, half as much with each further hop.
Boost(q, ix, results) ==
  LET near == Within(ix, FilesOf(ix, Cut(results, Seeds)), q.boost)
      gain(r) == LET f == ix.chunks[r.id] IN
                 IF f \in DOMAIN near THEN r.score \div (2 ^ (near[f] - 1)) ELSE 0
  IN  IF q.boost = 0 \/ Len(results) <= 1 THEN results
      ELSE ByScore([k \in DOMAIN results |-> [results[k] EXCEPT !.score = @ + gain(results[k])]])

AssembleResults(q, ix, candidates) ==
  LET passing == SelectSeq(candidates, LAMBDA r : Passes(q, ix, r))
      decayed == [k \in DOMAIN passing |-> [passing[k] EXCEPT !.score = Decayed(q, ix, passing[k])]]
  IN  Boost(q, ix, Cut(IF q.decay THEN ByScore(decayed) ELSE decayed, q.limit))

\* The window doubles while a scoped search is starved.
RECURSIVE Retrieve(_, _, _)
Retrieve(q, ix, window) ==
  LET results == AssembleResults(q, ix, Candidates(q, ix, window))
  IN  IF ~q.scoped \/ Len(results) >= q.limit \/ window >= Ceiling(q, ix) THEN results
      ELSE Retrieve(q, ix, WidenedCandidateLimit(window, Ceiling(q, ix)))
Results(q, ix) == Retrieve(q, ix, FirstWindow(q, ix))

\* An edge is in the scope of the document it leaves. Edge searches widen also without
\* a scope.
RECURSIVE RetrieveEdges(_, _, _)
RetrieveEdges(q, ix, window) ==
  LET found == Cut(SelectSeq(SearchEdges(ix, window), LAMBDA r : ix.source[r.id] \in q.scope), q.limit)
  IN  IF window = 0 THEN <<>>
      ELSE IF Len(found) >= q.limit \/ window >= Ceiling(q, ix) THEN found
      ELSE RetrieveEdges(q, ix, WidenedCandidateLimit(window, Ceiling(q, ix)))

\* The document of a neighbour's best chunk among those a bounded search finds, or its
\* first chunk, with no score.
BestChunks(ix, targets) ==
  LET found == SearchVectors(ix, AtLeast(ExpandLeast, ExpandEach * Cardinality(targets)))
      best(f) == {k \in DOMAIN found : ix.chunks[found[k].id] = f}
  IN  [f \in targets |-> IF best(f) = {} THEN [id |-> ix.home[f], score |-> 0] ELSE found[Min(best(f))]]
\* Mutant: the nearest neighbours come first, whatever their hop.
ExpandGraphContextAtOnce(q, ix, results) ==
  LET near == Within(ix, FilesOf(ix, Cut(results, Seeds)), q.expand)
      targets == DOMAIN near \ FilesOf(ix, results)
      best == BestChunks(ix, targets)
      order == SelectSeq(ix.files, LAMBDA f : f \in targets)
      kept == Cut(ByScore([k \in DOMAIN order |-> best[order[k]]]), ExpandLimit)
  IN  {[file |-> ix.chunks[kept[k].id], id |-> kept[k].id, hop |-> near[ix.chunks[kept[k].id]]] : k \in DOMAIN kept}
ExpandGraphContext(q, ix, results) ==
  LET near == Within(ix, FilesOf(ix, Cut(results, Seeds)), q.expand)
      targets == DOMAIN near \ FilesOf(ix, results)
      best == BestChunks(ix, targets)
      atHop(h) == SelectSeq(ix.files, LAMBDA f : f \in targets /\ near[f] = h)
      kept(h) == Cut(ByScore([k \in DOMAIN atHop(h) |-> best[atHop(h)[k]]]), ExpandLimit)
  IN  IF results = <<>> \/ q.expand = 0 THEN {}
      ELSE UNION {{[file |-> ix.chunks[kept(h)[k].id], id |-> kept(h)[k].id, hop |-> h] :
                   k \in DOMAIN kept(h)} : h \in 1 .. q.expand}

-----------------------------------------------------------------------------
(* Metadata: a value is a number, a text or a truth value, with the text it stands for *)

RECURSIVE TextBefore(_, _)
TextBefore(s, t) ==
  \/ s = <<>> /\ t # <<>>
  \/ s # <<>> /\ t # <<>> /\ (Head(s) < Head(t) \/ (Head(s) = Head(t) /\ TextBefore(Tail(s), Tail(t))))

\* compare_values: -1, 0 or 1
Compare(v, w) ==
  IF v.type = "number" /\ w.type = "number"
  THEN IF v.number < w.number THEN -1 ELSE IF v.number = w.number THEN 0 ELSE 1
  ELSE IF TextBefore(v.text, w.text) THEN -1 ELSE IF v.text = w.text THEN 0 ELSE 1
InRange(v, low, high) == Compare(v, low) >= 0 /\ Compare(v, high) <= 0
CompareForSort(v, w) ==
  IF v.type = "boolean" /\ w.type = "boolean"
  THEN IF v = w THEN 0 ELSE IF v.number < w.number THEN -1 ELSE 1
  ELSE Compare(v, w)

-----------------------------------------------------------------------------
(* What a search promises; the runs check it on bounded inputs *)

\* A scoped search misses nothing: with room left, every chunk in scope that the mode's
\* rankings hold and that passes is among the results; where scores are as ranked, the
\* results are the first of all that pass, however the candidates were windowed.
MissesNothing(q, ix) ==
  LET results == Results(q, ix)
      all == Candidates(q, ix, AtLeast(Len(ix.vectors), Len(ix.lexical)))
      passing == SelectSeq(all, LAMBDA r : Passes(q, ix, r))
      ids(rs) == [k \in DOMAIN rs |-> rs[k].id]
  IN  q.scoped =>
        /\ Len(results) < q.limit /\ q.mode # "hybrid" =>
             ToSet(ids(results)) = ToSet(ids(passing))
        /\ q.mode # "hybrid" /\ ~q.decay /\ q.boost = 0 => ids(results) = ids(Cut(passing, q.limit))
        /\ Len(results) < q.limit /\ q.mode = "hybrid" /\ q.min = 0 =>
             ToSet(ids(results)) = ToSet(ids(passing))

\* So does the search of edges, with or without a scope.
EdgesMissNothing(q, ix) ==
  LET found == RetrieveEdges(q, ix, FirstWindow(q, ix))
  IN  [k \in DOMAIN found |-> found[k].id]
      = Cut(SelectSeq(ix.vectors, LAMBDA v : v \in Edges(ix) /\ ix.source[v] \in q.scope), q.limit)

\* Every neighbour within the hops is in the context, at its distance and with its best
\* chunk, or has as many as the limit of its own hop before it.
ContextIsFair(q, ix) ==
  LET results == Results(q, ix)
      context == ExpandGraphContext(q, ix, results)
      near == Within(ix, FilesOf(ix, Cut(results, Seeds)), q.expand)
      targets == DOMAIN near \ FilesOf(ix, results)
      best == BestChunks(ix, targets)
  IN  results # <<>> /\ q.expand > 0 =>
        /\ \A c \in context : /\ c.file \in targets /\ c.hop = near[c.file]
                              /\ c.id = best[c.file].id /\ ix.chunks[c.id] = c.file
        /\ \A f \in targets :
             \/ \E c \in context : c.file = f
             \/ Cardinality({c \in context : c.hop = near[f] /\ best[c.file].score >= best[f].score}) = ExpandLimit

\* "Total ordering of two JSON values for stable sorting".
SortsTotally(u, v, w) == CompareForSort(u, v) <= 0 /\ CompareForSort(v, w) <= 0 => CompareForSort(u, w) <= 0
=============================================================================
