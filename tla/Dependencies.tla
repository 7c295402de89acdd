---------------------------- MODULE Dependencies ----------------------------
(***************************************************************************)
(* Computed fields over documents that relate to each other: Formula,      *)
(* which reads its own document, then Lookup & Rollup, which reads others. *)
(* The module evaluates a graph of fields with a memo, cycles, outcomes    *)
(* kept by the fingerprint of their inputs, and the planning of manual     *)
(* runs.  The user edits documents at any time; what the index knows of    *)
(* them lags behind, and each kind of run catches up with a different part *)
(* of it.                                                                  *)
(*                                                                         *)
(* A document has a field of its own (base), a relation (rel), a Formula   *)
(* field (form) and a Lookup or Rollup field (look); a node of the graph   *)
(* is the look of a document.  A run is one step here, and the computed    *)
(* fields of the documents are those of their entries: Writeback has the   *)
(* steps of a run and the values users overwrite.  Paths are numbers, so   *)
(* that their order is the order of numbers.                               *)
(***************************************************************************)
EXTENDS Naturals, SequencesExt

CONSTANTS
  Docs,        \* paths
  Bases,       \* values of base, see Num
  Relations,   \* values of rel: how it is written, and the paths it names
  Overlays,    \* see Overlay
  Formula,     \* the value of form for a base, or None where it fails
  First,       \* the documents a project may start with
  Scopes,      \* the sets of paths a manual run may name
  MaxDepth,    \* of nested evaluations: 256
  None,
  MaxEdits, MaxRuns   \* bounds

Num(n) == <<"n", n>>
Null == <<"null">>
List(vs) == <<"list", vs>>
LookDef == [kind : {"lookup", "rollup"}, dir : {"out", "in"}, target : {"base", "form", "look"},
            scope : SUBSET Docs]
\* The overlay as it is resolved for each path, and what it declares rel to be.
Overlay == [look : [Docs -> LookDef \cup {None}], form : SUBSET Docs,
            rel : {"relation", "untyped", "text"}]

ASSUME DependenciesAssumption ==
  /\ Docs \subseteq Nat /\ MaxDepth \in Nat \ {0} /\ MaxEdits \in Nat /\ MaxRuns \in Nat
  /\ Overlays \subseteq Overlay /\ Scopes \subseteq SUBSET Docs
  /\ \A r \in Relations : r.as \in {"none", "one", "many", "bad"} /\ r.to \in Seq(Docs)
  /\ First \subseteq [Docs -> [base : Bases, rel : Relations] \cup {None}]

VARIABLES
  disk,      \* the documents
  doc,       \* the documents as the index knows them
  ov,        \* the overlay
  formula,   \* the form's entry: the inputs it was computed from, and its outcome
  entry,     \* the look's entry: definition, fingerprint of the inputs, outcome
  events,    \* documents the watcher has still to be told of
  notice,    \* whether it has still to be told of the overlay
  last,      \* history: the last run, "none" if something changed since
  edits, runs

world == <<disk, ov>>
index == <<doc, formula, entry>>
vars == <<world, index, events, notice, last, edits, runs>>

Paths(x) == {d \in Docs : x.doc[d] # None}
Sorted(ds) == SetToSortSeq(ds, <)
Ok(v) == [ok |-> TRUE, v |-> v]
Fail(code) == [ok |-> FALSE, v |-> code]

-----------------------------------------------------------------------------
(* What an evaluation reads *)

\* raw_frontmatter: a failed Formula field and a look without definition are absent.
Raw(x, d, f) ==
  IF x.doc[d] = None \/ f = "look" THEN None
  ELSE IF f = "base" THEN x.doc[d].base
  ELSE IF x.formula[d] # None /\ x.formula[d].out.ok THEN x.formula[d].out.v ELSE None

\* The state of an evaluation: known outcomes, nodes being evaluated, nodes found on
\* a cycle, the tokens of each node's inputs, and all documents looked at.
Evaluator(x) == [x |-> x, out |-> [d \in Docs |-> None], stack |-> <<>>, cyc |-> {},
                 tok |-> [d \in Docs |-> <<>>], read |-> {}]

\* record_token: for every node being evaluated.
Record(s, ds, t) ==
  [s EXCEPT !.read = @ \cup ds,
            !.tok = [d \in Docs |-> IF Contains(s.stack, d) THEN Append(@[d], t) ELSE @[d]]]

\* A mutant: the value a computed field has in its document counts as an input.
SeenStored(x, d, f) ==
  IF x.doc[d] = None THEN <<"missing document">>
  ELSE IF f = "look" THEN <<"stored", IF x.entry[d] = None THEN None ELSE x.entry[d].out>>
  ELSE IF f = "rel" THEN <<"relation", x.doc[d].rel>> ELSE <<"value", Raw(x, d, f)>>

Seen(x, d, f) ==
  IF x.doc[d] = None THEN <<"missing document">>
  ELSE IF f = "look" /\ x.ov.look[d] # None THEN <<"computed">>
  ELSE IF f = "rel" THEN <<"relation", x.doc[d].rel>>
  ELSE IF f = "form" /\ x.formula[d] # None
  THEN <<"formula", Raw(x, d, f), x.formula[d].in,
         IF x.formula[d].out.ok THEN None ELSE x.formula[d].out>>
  ELSE <<"value", Raw(x, d, f)>>
RecordField(s, d, f) == Record(s, {d}, <<"field", d, f, Seen(s.x, d, f)>>)

RecordOutcome(s, d, r) == Record(s, {}, <<"computed", d, s.x.ov.look[d], r>>)

\* The hash of the definition and of all tokens, as what it is a hash of.
InputFingerprint(s, d) == <<s.x.ov.look[d], s.tok[d]>>

-----------------------------------------------------------------------------
(* Evaluation of a node *)

\* One more value after those read so far, unless one of them failed.
AndThen(a, Step(_, _), p) ==
  IF ~a.r.ok THEN a
  ELSE LET t == Step(a.s, p) IN
       IF t.r.ok THEN [s |-> t.s, r |-> Ok(Append(a.r.v, t.r.v))] ELSE t
Collect(s, Step(_, _), ps) ==
  FoldLeft(LAMBDA a, p : AndThen(a, Step, p), [s |-> s, r |-> Ok(<<>>)], ps)

\* resolve_relation for a target with one candidate.
ResolveRelation(s, d, t) ==
  LET there == s.x.doc[t] # None
      u == Record(Record(s, {}, <<"relation", d, t>>), {t}, <<"resolved", there, t>>)
  IN  [s |-> u, r |-> IF there THEN Ok(t) ELSE Fail(<<"relation_unresolved", d, t>>)]

OutgoingSelection(s, d) ==
  LET typed == RecordField(s, d, "rel")
      read == RecordField(typed, d, "rel")
      rel == s.x.doc[d].rel
  IN  IF s.x.ov.rel = "text" THEN [s |-> typed, r |-> Fail(<<"relation_field_type", d>>)]
      ELSE IF rel.as = "bad"
      THEN [s |-> read, r |-> Fail(<<IF s.x.ov.rel = "untyped" THEN "relation_field_type"
                                     ELSE "invalid_relation", d>>)]
      ELSE Collect(read, LAMBDA u, t : ResolveRelation(u, d, t), rel.to)

\* Of the sources, those whose selection holds d.
Pointing(all, sources, d) ==
  IF ~all.r.ok THEN all
  ELSE LET points(p) == Contains(all.r.v[SelectInSeq(sources, LAMBDA q : q = p)], d) IN
       [s |-> all.s, r |-> Ok(SelectSeq(sources, points))]
SelectFrom(s, d, sources) ==
  Pointing(Collect(Record(s, ToSet(sources), <<"incoming-membership", sources>>),
                   OutgoingSelection, sources), sources, d)
IncomingSelection(s, d, scope) == SelectFrom(s, d, Sorted(scope \cap Paths(s.x)))

Selection(s, d) ==
  IF s.x.ov.look[d].dir = "out" THEN OutgoingSelection(s, d)
  ELSE IncomingSelection(s, d, s.x.ov.look[d].scope)

\* evaluate_rollup: a formula over the values, here their sum.
EvaluateRollup(vs) ==
  IF \E i \in DOMAIN vs : vs[i][1] # "n" THEN Fail(<<"rollup">>)
  ELSE Ok(Num(FoldLeft(LAMBDA n, v : n + v[2], 0, vs)))

Prepared(x, d, vs) ==
  LET def == x.ov.look[d] IN
  IF def.kind = "rollup" THEN EvaluateRollup(vs)
  ELSE Ok(CASE def.dir = "in" \/ x.doc[d].rel.as = "many" -> List(vs)
            [] x.doc[d].rel.as = "none" -> Null
            [] OTHER -> vs[1])

\* A mutant: only the definition has to be the same.
HitDefinition(s, d) ==
  s.x.entry[d] # None /\ s.x.entry[d].in # None /\ s.x.entry[d].in[1] = s.x.ov.look[d]
Hit(s, d) == s.x.entry[d] # None /\ s.x.entry[d].in = InputFingerprint(s, d)

CachedOutcome(s, d, out) == IF Hit(s, d) THEN s.x.entry[d].out ELSE out

\* What a field that is no node gives: target_value over optional_field_value.
Plain(x, d, f) ==
  IF f = "form" /\ d \in x.ov.form /\ x.formula[d] # None /\ ~x.formula[d].out.ok
  THEN Fail(<<"dependency_failed", d>> \o x.formula[d].out.v)
  ELSE IF Raw(x, d, f) = None THEN Fail(<<"target_field_missing", d>>) ELSE Ok(Raw(x, d, f))

Above(d, r) == IF r.ok THEN r ELSE Fail(<<"dependency_failed", d>> \o r.v)

RECURSIVE EvaluateNode(_, _)

Computed(e, d) == [s |-> RecordOutcome(e.s, d, e.r), r |-> Above(d, e.r)]
TargetValue(s, d, f) ==
  IF f = "look" /\ s.x.ov.look[d] # None
  THEN Computed(EvaluateNode(RecordField(s, d, f), d), d)
  ELSE [s |-> RecordField(s, d, f), r |-> Plain(s.x, d, f)]

FromValues(vals, d) ==
  IF ~vals.r.ok THEN vals
  ELSE [s |-> vals.s, r |-> CachedOutcome(vals.s, d, Prepared(vals.s.x, d, vals.r.v))]
FromSelection(sel, d, f) ==
  IF ~sel.r.ok THEN sel
  ELSE FromValues(Collect(sel.s, LAMBDA u, p : TargetValue(u, p, f), sel.r.v), d)
PrepareDefinition(s, d) == FromSelection(Selection(s, d), d, s.x.ov.look[d].target)

\* The node leaves the stack with its outcome, unless it was found on a cycle.
Leave(e, d, r) == [s |-> [e.s EXCEPT !.stack = Front(@), !.out[d] = r], r |-> r]
Finish(e, d) == Leave(e, d, IF d \in e.s.cyc THEN Fail(<<"dependency_cycle", d>>) ELSE e.r)

EvaluateNode(s, d) ==
  IF s.out[d] # None THEN [s |-> s, r |-> s.out[d]]
  ELSE IF Contains(s.stack, d)
  THEN LET from == SelectInSeq(s.stack, LAMBDA n : n = d) IN
       [s |-> [s EXCEPT !.cyc = @ \cup {s.stack[i] : i \in from .. Len(s.stack)}],
        r |-> Fail(<<"dependency_cycle", d>>)]
  ELSE IF Len(s.stack) >= MaxDepth THEN [s |-> s, r |-> Fail(<<"dependency_limit", d>>)]
  ELSE Finish(PrepareDefinition([s EXCEPT !.stack = Append(@, d)], d), d)

-----------------------------------------------------------------------------
(* The two modules *)

Snapshot == [doc |-> doc, ov |-> ov, formula |-> formula, entry |-> entry]
Inputs(x, d) == <<x.doc[d].base, x.doc[d].rel>>
Failed(code) == [in |-> None, out |-> Fail(<<code>>)]   \* without provenance

\* A write is refused when the document is no longer what the index knows.
Replaced(x, d) == disk[d] # x.doc[d]

\* FormulaModule: evaluate_file, or the loss of a definition.
FormulaEntry(x, d) ==
  IF d \notin x.ov.form
  THEN IF x.formula[d] # None /\ x.formula[d].out.ok /\ Replaced(x, d)
       THEN Failed("source_changed") ELSE None
  ELSE IF Replaced(x, d) THEN Failed("source_changed")
  ELSE [in |-> Inputs(x, d),
        out |-> LET v == Formula[x.doc[d].base] IN
                IF v = None THEN Fail(<<"formula">>) ELSE Ok(v)]

NeedsRecompute(x, d) == (d \in x.ov.form) # (x.formula[d] # None)

FormulaRun(x, P) ==
  [x EXCEPT !.formula = [d \in Docs |-> IF d \in P \cap Paths(x) THEN FormulaEntry(x, d) ELSE @[d]]]

\* verify_dependencies: the documents read, and the members of the scopes, are still
\* the indexed ones.
DependencyChanged(x, s) ==
  \/ \E d \in s.read : disk[d] # x.doc[d]
  \/ \E o \in Paths(x) : /\ x.ov.look[o] # None /\ x.ov.look[o].dir = "in"
                         /\ \E d \in x.ov.look[o].scope : (disk[d] = None) # (x.doc[d] = None)

\* LookupRollupModule::build_execution and the outcome of its patches.
LookupRun(x, P) ==
  LET owners == {d \in P \cap Paths(x) : x.ov.look[d] # None}
      s == FoldLeft(LAMBDA u, d : EvaluateNode(u, d).s, Evaluator(x), Sorted(owners))
      owned(d) == x.entry[d] # None /\ x.entry[d].out.ok
      suppressed(d) == IF d \in owners \/ owned(d) THEN Failed("dependency_changed") ELSE x.entry[d]
      dropped(d) == IF owned(d) /\ Replaced(x, d) THEN Failed("source_changed") ELSE None
      computed(d) == IF Hit(s, d) THEN x.entry[d]
                     ELSE IF Replaced(x, d) THEN Failed("source_changed")
                     ELSE [in |-> InputFingerprint(s, d), out |-> s.out[d]]
      new(d) == IF DependencyChanged(x, s) THEN suppressed(d)
                ELSE IF d \in owners THEN computed(d) ELSE dropped(d)
  IN  [x EXCEPT !.entry = [d \in Docs |-> IF d \in P \cap Paths(x) THEN new(d) ELSE @[d]]]

\* Formula for the paths F, then Lookup & Rollup for the paths L.
Modules(x, F, L) == LookupRun(FormulaRun(x, F), L)

\* Documents the index is told of again: those that are gone lose their entries.
Refresh(P) ==
  LET gone == {d \in P : disk[d] = None} IN
  [doc |-> [d \in Docs |-> IF d \in P THEN disk[d] ELSE doc[d]], ov |-> ov,
   formula |-> [d \in Docs |-> IF d \in gone THEN None ELSE formula[d]],
   entry |-> [d \in Docs |-> IF d \in gone THEN None ELSE entry[d]]]

Changed == {d \in Docs : disk[d] # doc[d]}

-----------------------------------------------------------------------------
(* The plan of a manual run *)

RawTargets(x, d) ==
  IF x.ov.rel = "text" \/ x.doc[d].rel.as \in {"none", "bad"} THEN {}
  ELSE ToSet(x.doc[d].rel.to) \cap Paths(x)
Nodes(x) == {d \in Paths(x) : x.ov.look[d] # None}
Targets(x, d) ==
  IF x.ov.look[d].dir = "out" THEN RawTargets(x, d)
  ELSE {p \in x.ov.look[d].scope \cap Paths(x) : d \in RawTargets(x, p)}
ComputedEdges(x, d) ==
  IF x.ov.look[d].target = "look" THEN Targets(x, d) \cap Nodes(x) ELSE {}
FormulaEdges(x, d) ==
  IF x.ov.look[d].target = "form" THEN Targets(x, d) \cap x.ov.form ELSE {}

\* The loop that adds nodes to a set until nothing is added.
Closure(x, start, More(_)) ==
  LET grow[n \in Nat] == IF n = 0 THEN start ELSE grow[n - 1] \cup More(grow[n - 1])
  IN  grow[Cardinality(Docs)]

\* Mutants: the closure stops at the first edge.
FormulaPlanDirect(x, P) ==
  [formula |-> P \cap Paths(x), lookup |-> {d \in Nodes(x) : FormulaEdges(x, d) \cap P # {}}]
LookupPlanDirect(x, P) ==
  [formula |-> UNION {FormulaEdges(x, d) : d \in P \cap Nodes(x)}, lookup |-> P \cap Paths(x)]

\* plan_manual_dependencies
FormulaPlan(x, P) ==
  LET direct == {d \in Nodes(x) : FormulaEdges(x, d) \cap P # {}} IN
  [formula |-> P \cap Paths(x),
   lookup |-> Closure(x, direct, LAMBDA S : {d \in Nodes(x) : ComputedEdges(x, d) \cap S # {}})]
LookupPlan(x, P) ==
  LET visited == Closure(x, P \cap Nodes(x), LAMBDA S : UNION {ComputedEdges(x, d) : d \in S}) IN
  [formula |-> UNION {FormulaEdges(x, d) : d \in visited}, lookup |-> P \cap Paths(x)]
-----------------------------------------------------------------------------
(* Runs and the user *)

Run(kind, P, x) ==
  /\ runs < MaxRuns
  /\ doc' = x.doc /\ formula' = x.formula /\ entry' = x.entry
  /\ last' = [kind |-> kind, paths |-> P]
  /\ runs' = runs + 1
  /\ UNCHANGED <<world, edits>>

Recompute(x) == {d \in Paths(x) : NeedsRecompute(x, d)}

\* ingest --full
FullIngest ==
  /\ Run("full", Docs, Modules(Refresh(Docs), Docs, Docs))
  /\ UNCHANGED <<events, notice>>

\* ingest: the documents whose source has another hash than the index knows.
Ingest ==
  /\ LET x == Refresh(Docs) IN
     Run("ingest", Changed, Modules(x, Changed \cup Recompute(x), Docs))
  /\ UNCHANGED <<events, notice>>

\* The watcher takes an event; nothing is done for a source the index already knows.
WatchFile(d) ==
  /\ d \in events
  /\ events' = events \ {d}
  /\ IF disk[d] # None /\ disk[d] = doc[d]
     THEN UNCHANGED <<world, index, last, edits, runs>>
     ELSE LET x == Refresh({d}) IN
          Run("watch", {d}, Modules(x, {d} \cup Recompute(x), Docs))
  /\ UNCHANGED notice

WatchSchema ==
  /\ notice
  /\ notice' = FALSE
  /\ LET x == Refresh({}) IN Run("schema", {}, Modules(x, Recompute(x), Docs))
  /\ UNCHANGED events

\* run_dependency_aware: all sources are refreshed, outputs are those of the plan.
Manual(kind, P, Plan(_, _)) ==
  /\ LET x == Refresh(Docs) IN Run(kind, P, Modules(x, Plan(x, P).formula, Plan(x, P).lookup))
  /\ UNCHANGED <<events, notice>>
ManualFormula(P) == Manual("formula", P, FormulaPlan)
ManualLookup(P) == Manual("lookup", P, LookupPlan)

Nothing == [kind |-> "none", paths |-> {}]

Edit(d, v) ==
  /\ edits < MaxEdits /\ v # disk[d]
  /\ disk' = [disk EXCEPT ![d] = v]
  /\ events' = events \cup {d}
  /\ edits' = edits + 1 /\ last' = Nothing
  /\ UNCHANGED <<ov, index, notice, runs>>

ChangeOverlay(o) ==
  /\ edits < MaxEdits /\ o # ov
  /\ ov' = o
  /\ notice' = TRUE
  /\ edits' = edits + 1 /\ last' = Nothing
  /\ UNCHANGED <<disk, index, events, runs>>

Init ==
  /\ disk \in First /\ ov \in Overlays
  /\ doc = [d \in Docs |-> None] /\ formula = doc /\ entry = doc
  /\ events = {} /\ notice = FALSE
  /\ last = Nothing
  /\ edits = 0 /\ runs = 0

Next ==
  \/ FullIngest
  \/ Ingest
  \/ \E d \in Docs : WatchFile(d)
  \/ WatchSchema
  \/ \E P \in Scopes : ManualFormula(P)
  \/ \E P \in Scopes : ManualLookup(P)
  \/ \E d \in Docs : \E v \in [base : Bases, rel : Relations] \cup {None} : Edit(d, v)
  \/ \E o \in Overlays : ChangeOverlay(o)

Spec == Init /\ [][Next]_vars

-----------------------------------------------------------------------------
(* Properties *)

\* What the fields of a snapshot ought to be, without memo, cache, stack or order:
\* rounds in which every node is computed from what the round before knows.
Unknown == Fail(<<"unknown">>)
KnownValue(x, known, p, f) ==
  IF f = "look" /\ x.ov.look[p] # None
  THEN IF known[p] = Unknown THEN Unknown ELSE Above(p, known[p]) ELSE Plain(x, p, f)
OfValues(x, d, vals) ==
  LET failed == SelectSeq(vals, LAMBDA v : ~v.ok) IN
  IF failed # <<>> THEN Head(failed) ELSE Prepared(x, d, [i \in DOMAIN vals |-> vals[i].v])
OfSelection(x, known, d, sel) ==
  IF ~sel.ok THEN sel
  ELSE OfValues(x, d, [i \in DOMAIN sel.v |-> KnownValue(x, known, sel.v[i], x.ov.look[d].target)])
Reference(x) ==
  LET round[n \in Nat] ==
        IF n = 0 THEN [d \in Nodes(x) |-> Unknown]
        ELSE [d \in Nodes(x) |-> OfSelection(x, round[n - 1], d, Selection(Evaluator(x), d).r)]
  IN  round[Cardinality(Docs)]

\* A node the rounds never reach is on a cycle of fields, or waits for one.
Is(out, ref) ==
  IF ref = Unknown THEN ~out.ok /\ out.v[1] \in {"dependency_cycle", "dependency_failed"}
  ELSE out = ref

\* The forms as they would be if Formula had just run for every document that has one.
Fresh(x) == FormulaRun(x, x.ov.form)

\* After every run that is not a manual one, each Lookup and Rollup is what its
\* definition says of the indexed documents, in whatever order the nodes were
\* evaluated, memoised and taken from the cache -- or all are withheld because a
\* document they read has changed meanwhile.
EvaluationIsReference ==
  last.kind \in {"full", "ingest", "watch", "schema"} =>
    LET ref == Reference(Snapshot)
        is(d) == entry[d] # None /\ Is(entry[d].out, ref[d])
        stopped(d, code) == entry[d] # None /\ ~entry[d].out.ok /\ entry[d].out.v = <<code>>
    IN  \/ \A d \in Nodes(Snapshot) : is(d) \/ (Replaced(Snapshot, d) /\ stopped(d, "source_changed"))
        \/ \A d \in Nodes(Snapshot) : stopped(d, "dependency_changed")

\* A manual run of Lookup & Rollup leaves in its scope what a full run would: every
\* Formula it reads, at any distance and outside the scope too, is computed first.
ManualLookupIsFresh ==
  last.kind = "lookup" =>
    LET ref == Reference(Fresh(Snapshot)) IN
    \A d \in Nodes(Snapshot) \cap last.paths : entry[d] # None /\ Is(entry[d].out, ref[d])

\* A manual run of Formula brings the Lookups up to date that read its fields, at any
\* distance: none is left with what it was before a form in the scope changed.
ManualFormulaReaches ==
  [][ (last'.kind = "formula") =>
      LET before == Reference([Snapshot' EXCEPT !.formula =
                      [d \in Docs |-> IF d \in ov.form THEN Refresh(Docs).formula[d] ELSE @[d]]])
          after == Reference(Snapshot')
      IN  \A d \in Nodes(Snapshot') :
            before[d] # after[d] => entry'[d] # None /\ Is(entry'[d].out, after[d]) ]_last

\* Both of the manual runs leave nothing stale that they were asked for.
ManualRunsReach == []ManualLookupIsFresh /\ ManualFormulaReaches

\* A full run of what another full run has just computed changes no entry.
RunsConverge ==
  [][ (last.kind = "full" /\ last'.kind = "full") => UNCHANGED <<formula, entry>> ]_vars

\* The same of a manual run after a full one.
ManualConverges ==
  [][ (last.kind = "full" /\ last'.kind = "lookup") => UNCHANGED <<formula, entry>> ]_vars

\* A document whose form was computed from an older source is going to be noticed:
\* an event is due, or the index still has that older source.
ChangesReachFormula ==
  \A d \in Docs :
    doc[d] # None /\ formula[d] # None /\ formula[d].out.ok /\ formula[d].in # Inputs(Snapshot, d)
      => Replaced(Snapshot, d) \/ d \in events \/ notice
=============================================================================
