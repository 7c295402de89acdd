------------------------------- MODULE Schema -------------------------------
(***************************************************************************)
(* The schema of a collection: what is inferred from frontmatter, what the *)
(* overlay file declares, their merge per folder, and how the modules take *)
(* their own values out of it.  A value is <<"text", form>>, a list or the *)
(* name of another JSON type; a path is the sequence of its components.    *)
(***************************************************************************)
EXTENDS Integers, SequencesExt, FiniteSetsExt, TLC

CONSTANTS Names, SampleLimit, None

-----------------------------------------------------------------------------
(* Inference *)

IsLink(v) == v[1] = "text" /\ v[2] \in {"relation", "file"}
Kinds(items) == {IF IsLink(v) THEN v[2] ELSE None : v \in ToSet(items)}

InferList(items) ==
  IF \E v \in ToSet(items) : v[1] \in {"list", "object"} THEN "json"
  ELSE IF items = <<>> \/ None \in Kinds(items) THEN "list"
  ELSE IF Cardinality(Kinds(items)) = 1 THEN items[1][2] ELSE "mixed"

InferFieldType(v) ==
  CASE v[1] = "list" -> InferList(v[2])
    [] v[1] = "object" -> "json"
    [] v[1] = "null" -> "string"
    [] v[1] = "text" -> IF v[2] \in {"relation", "file", "date"} THEN v[2] ELSE "string"
    [] OTHER -> v[1]

\* The first of the different values, so many.
Samples(values) ==
  LET firsts == {i \in DOMAIN values : \A j \in 1 .. i - 1 : values[j] # values[i]}
  IN  {values[i] : i \in {k \in firsts : Cardinality({j \in firsts : j < k}) < SampleLimit}}

\* A field without definition.
Plain == [note |-> None, target |-> None, formula |-> None, result |-> None, relation |-> None,
          field |-> None, direction |-> None, scope |-> None]

Observed(frontmatters, name) ==
  LET having == SelectSeq(frontmatters, LAMBDA f : name \in DOMAIN f /\ f[name][1] # "null")
  IN  [i \in DOMAIN having |-> having[i][name]]

Infer(frontmatters) ==
  [name \in {n \in Names : Observed(frontmatters, n) # <<>>} |->
    LET values == Observed(frontmatters, name)
        types == {InferFieldType(v) : v \in ToSet(values)}
    IN  [type |-> IF Cardinality(types) > 1 THEN "mixed" ELSE CHOOSE t \in types : TRUE,
         count |-> Len(values), samples |-> Samples(values)] @@ Plain]

InScope(path, scope) == IsPrefix(scope, path)

-----------------------------------------------------------------------------
(* The overlay: [fields |-> name -> definition, scopes |-> folder -> name -> definition] *)

Types == {"string", "number", "boolean", "list", "date", "mixed", "json", "formula", "relation", "file",
          "lookup", "rollup"}
IsComputed(type) == type \in {"formula", "lookup", "rollup"}
Blank == {None, ""}
Results == {"number", "string"}

\* A reference that is empty once trimmed is none.
Normalize(text) == IF text \in Blank THEN None ELSE text

\* Mutant: that there is a folder, whatever it is.
DirectionGiven(ov) ==
  \/ ov.direction \in {None, "outgoing"} /\ ov.scope = None
  \/ ov.direction = "incoming" /\ ov.scope # None
ValidDirection(ov) ==
  \/ ov.direction \in {None, "outgoing"} /\ ov.scope = None
  \/ ov.direction = "incoming" /\ Normalize(ov.scope) # None

ValidateOverlayField(name, ov) ==
  /\ ov.type \in Types \cup {None}
  /\ IsComputed(ov.type) => name \notin {"title", "path"} /\ ov.target = None
  /\ IF ov.type \in {"formula", "rollup"}
     THEN ov.formula \notin Blank /\ ov.result \in Results
     ELSE ov.formula = None /\ ov.result = None
  /\ IF ov.type \in {"lookup", "rollup"}
     THEN ov.relation \notin Blank \cup {name} /\ ov.field \notin Blank
     ELSE ov.relation = None /\ ov.field = None
  /\ IF ov.type = "rollup" THEN ValidDirection(ov) ELSE ov.direction = None /\ ov.scope = None

ValidateOverlay(overlay) ==
  /\ \A name \in DOMAIN overlay.fields : ValidateOverlayField(name, overlay.fields[name])
  /\ \A s \in DOMAIN overlay.scopes : \A name \in DOMAIN overlay.scopes[s] :
       ValidateOverlayField(name, overlay.scopes[s][name])

\* Definitions of longer scopes come over those of shorter ones, and these over global ones.
ResolveOverlayForPath(overlay, path) ==
  LET matching == {s \in DOMAIN overlay.scopes : InScope(path, s)}
      of(name) == {s \in matching : name \in DOMAIN overlay.scopes[s]}
  IN  [name \in DOMAIN overlay.fields \cup UNION {DOMAIN overlay.scopes[s] : s \in matching} |->
        IF of(name) = {} THEN overlay.fields[name]
        ELSE overlay.scopes[CHOOSE s \in of(name) : \A t \in of(name) : Len(t) <= Len(s)][name]]

WithoutComputed(fields) == [n \in {m \in DOMAIN fields : ~IsComputed(fields[m].type)} |-> fields[n]]

-----------------------------------------------------------------------------
(* Merge *)

DeclaredType(ov, otherwise) ==
  IF ov.type # None THEN ov.type
  ELSE IF Normalize(ov.target) # None THEN "relation" ELSE otherwise

Direction(type, ov) ==
  CASE type = "lookup" -> "outgoing"
    [] type = "rollup" -> IF ov.direction = "incoming" THEN "incoming" ELSE "outgoing"
    [] OTHER -> None

\* A definition has the parts of its type and no others.
Definition(type, ov) ==
  [target |-> IF type = "relation" THEN Normalize(ov.target) ELSE None,
   formula |-> IF type \in {"formula", "rollup"} THEN ov.formula ELSE None,
   result |-> IF type \in {"formula", "rollup"} THEN ov.result ELSE None,
   relation |-> IF type \in {"lookup", "rollup"} THEN Normalize(ov.relation) ELSE None,
   field |-> IF type \in {"lookup", "rollup"} THEN Normalize(ov.field) ELSE None,
   direction |-> Direction(type, ov),
   scope |-> IF Direction(type, ov) = "incoming" THEN Normalize(ov.scope) ELSE None]

\* What documents hold is not what a computed field has.
MergeObserved(field, ov) ==
  LET type == DeclaredType(ov, field.type)
      hides == IsComputed(type) /\ type # field.type
  IN  [type |-> type, note |-> IF ov.note # None THEN ov.note ELSE field.note,
       count |-> IF hides THEN 0 ELSE field.count, samples |-> IF hides THEN {} ELSE field.samples]
      @@ Definition(type, ov)
MergeUnseen(ov) ==
  LET type == DeclaredType(ov, "string")
  IN  [type |-> type, note |-> ov.note, count |-> 0, samples |-> {}] @@ Definition(type, ov)

Merge(schema, fields) ==
  [name \in DOMAIN schema \cup DOMAIN fields |->
    IF name \notin DOMAIN fields THEN schema[name]
    ELSE IF name \in DOMAIN schema THEN MergeObserved(schema[name], fields[name]) ELSE MergeUnseen(fields[name])]

\* Indexes of before there were File fields.
Reclassify(schema) ==
  [name \in DOMAIN schema |->
    LET field == schema[name]
        files == field.type = "relation" /\ field.samples # {}
                   /\ \A v \in field.samples : InferFieldType(v) = "file"
    IN  [field EXCEPT !.type = IF files THEN "file" ELSE @, !.target = IF files THEN None ELSE @]]

\* MarkdownVdb::schema and schema_scoped; fields are the live overlay's.  A computed
\* definition is only the one of the last run.  Mutant: the overlay before the upgrade.
ReadUpgradedLast(stored, fields) == Reclassify(Merge(stored, WithoutComputed(fields)))
Read(stored, fields) == Merge(Reclassify(stored), WithoutComputed(fields))

-----------------------------------------------------------------------------
(* Schemas of an index: global and by scope.  A file is [values, owned]: its frontmatter *)
(* and the fields in it whose values a module wrote last                                  *)

InferFiles(files, scope) ==
  LET within == {p \in DOMAIN files : InScope(p, scope)}
  IN  Infer([i \in 1 .. Cardinality(within) |-> files[SetToSeq(within)[i]].values])

Scopes(files, overlay, shards) == {<<p[1]>> : p \in {q \in DOMAIN files : Len(q) > 1}} \cup DOMAIN overlay.scopes \cup shards

\* An ingest, a schema event: of a scope only its own definitions.
RefreshSchemas(files, overlay, shards) ==
  [global |-> Merge(InferFiles(files, <<>>), overlay.fields),
   scoped |-> [s \in Scopes(files, overlay, shards) |->
     Merge(InferFiles(files, s), IF s \in DOMAIN overlay.scopes THEN overlay.scopes[s] ELSE <<>>)]]
\* A manual run of a module: all that hold in it.
CatchUpSchemas(files, overlay, shards) ==
  [global |-> Merge(InferFiles(files, <<>>), overlay.fields),
   scoped |-> [s \in Scopes(files, overlay, shards) |->
     Merge(InferFiles(files, s), ResolveOverlayForPath(overlay, s))]]

ComputedNames(schema) == {n \in DOMAIN schema : IsComputed(schema[n].type)}
ComputedIn(fields) == {n \in DOMAIN fields : IsComputed(fields[n].type)}

\* Mutant: what the overlay computes.
CandidatesOfOverlay(schemas, files, overlay) ==
  ComputedIn(overlay.fields) \cup UNION {ComputedIn(overlay.scopes[s]) : s \in DOMAIN overlay.scopes}
Candidates(schemas, files, overlay) ==
  ComputedNames(schemas.global) \cup UNION {ComputedNames(schemas.scoped[s]) : s \in DOMAIN schemas.scoped}
    \cup UNION {files[p].owned : p \in DOMAIN files}
    \cup ComputedIn(overlay.fields) \cup UNION {ComputedIn(overlay.scopes[s]) : s \in DOMAIN overlay.scopes}

\* The values of documents that are nobody's but people's.
Ordinary(files, overlay, candidates) ==
  [p \in DOMAIN files |->
    [values |-> Restrict(files[p].values,
       (DOMAIN files[p].values \cap candidates) \ (files[p].owned \cup ComputedIn(ResolveOverlayForPath(overlay, p))))]]

ReplaceCandidates(schema, ordinary, candidates) == ordinary @@ Restrict(schema, DOMAIN schema \ candidates)

\* The last module does this after it cleaned up.
RebuildSchemas(schemas, files, overlay) ==
  LET candidates == Candidates(schemas, files, overlay)
      ordinary == Ordinary(files, overlay, candidates)
      kept == {s \in DOMAIN schemas.scoped : \E p \in DOMAIN files : InScope(p, s)}
      base(s) == IF s \in DOMAIN schemas.scoped THEN schemas.scoped[s] ELSE <<>>
  IN  [global |-> Merge(ReplaceCandidates(schemas.global, InferFiles(ordinary, <<>>), candidates), overlay.fields),
       scoped |-> [s \in Scopes(files, overlay, kept) |->
         Merge(ReplaceCandidates(base(s), InferFiles(ordinary, s), candidates), ResolveOverlayForPath(overlay, s))]]

-----------------------------------------------------------------------------
(* Properties *)

\* An overlay that is accepted defines what a run needs: a computed field has its formula
\* and type, its relation and the folder to look in, and no other field has any of them;
\* and as long as the overlay is the same, reading the schema gives what was stored.
DefinitionsAreWhole(frontmatters, fields) ==
  ValidateOverlay([fields |-> fields, scopes |-> <<>>]) =>
    LET merged == Merge(Infer(frontmatters), fields) IN
    /\ \A name \in DOMAIN fields :
         LET f == merged[name] IN
         /\ (f.formula # None /\ f.result # None) <=> f.type \in {"formula", "rollup"}
         /\ (f.relation # None /\ f.field # None) <=> f.type \in {"lookup", "rollup"}
         /\ f.target # None => f.type = "relation"
         /\ f.scope # None <=> f.direction = "incoming"
         /\ f.direction = "incoming" => f.type = "rollup"
    /\ Read(merged, fields) = merged

\* After the modules ran, a field is computed where the overlay of now says so, and else has
\* the type of the values people wrote, in every scope: nothing is left of definitions
\* that are gone, nor of the values modules wrote.
NoGhostColumns(files, before, overlay) ==
  LET rebuilt == RebuildSchemas(RefreshSchemas(files, before, {}), files, overlay)
      IsLive(schema, fields, scope) ==
        \A name \in DOMAIN schema \cup DOMAIN fields :
          LET people == [p \in {q \in DOMAIN files : InScope(q, scope)} |->
                [values |-> Restrict(files[p].values, DOMAIN files[p].values \ (files[p].owned \cup ComputedIn(ResolveOverlayForPath(overlay, p))))]]
              inferred == InferFiles(people, scope)
          IN  /\ name \in DOMAIN schema
              /\ name \notin DOMAIN fields => name \in DOMAIN inferred /\ schema[name].type = inferred[name].type
              /\ name \in DOMAIN fields /\ fields[name].type # None => schema[name].type = fields[name].type
  IN  /\ IsLive(rebuilt.global, overlay.fields, <<>>)
      /\ \A s \in DOMAIN rebuilt.scoped : IsLive(rebuilt.scoped[s], ResolveOverlayForPath(overlay, s), s)
=============================================================================
