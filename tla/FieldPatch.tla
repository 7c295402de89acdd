----------------------------- MODULE FieldPatch -----------------------------
(***************************************************************************)
(* The patch that writes computed fields into the frontmatter of a         *)
(* document.  A document is its BOM, its envelope, the pieces of its YAML  *)
(* and its body; a piece is a comment or an entry, one or more lines long, *)
(* or one of several on a line.  The crate that edits the syntax tree is   *)
(* not trusted by this code: here it may be any of several editors.        *)
(***************************************************************************)
EXTENDS Integers, SequencesExt, TLC

CONSTANTS Scalars, None

\* Entry and comment pieces: long has lines of its own, joined stands on the line of the last.
Comment(text) == [key |-> None, quoted |-> FALSE, value |-> text, long |-> FALSE, joined |-> FALSE]
Entry(key, value) == [Comment(value) EXCEPT !.key = key]

Failed == [failed |-> TRUE]
IsFailed(result) == "failed" \in DOMAIN result

Positions(ps, key) == {i \in DOMAIN ps : ps[i].key = key}
\* A key such as 123 is a text only in quotes.
Text(p) == p.quoted \/ p.key \notin Scalars
Duplicated(ps) ==
  \E i, j \in DOMAIN ps : i # j /\ ps[i].key # None /\ ps[i].key = ps[j].key /\ Text(ps[i]) = Text(ps[j])
\* The envelope is of two lines ---; it may be missing, or never closed.
Bounded(doc) == doc.envelope = "closed"
\* Mixed line ends are refused.
UniformNewlines(doc) == ~doc.mixed
\* What YAML makes of the pieces: the root is a mapping, some other value, or cannot be parsed.
Parses(doc) == doc.root # "broken" /\ ~Duplicated(doc.yaml)

\* The fields of a mapping; of two keys that only differ in quotes the last counts.
Fields(ps) == [k \in {ps[i].key : i \in DOMAIN ps} \ {None} |-> ps[Max(Positions(ps, k))].value]
\* What readers of documents see: a document that does not parse has no fields.
ExistingValues(doc) ==
  IF Bounded(doc) /\ Parses(doc) /\ doc.root = "mapping" THEN Fields(doc.yaml) ELSE <<>>

\* Reading strictly: every key a text, and errors for anything but a mapping.
StrictMap(doc) ==
  IF doc.envelope = "none" THEN <<>>
  ELSE IF ~Parses(doc) \/ doc.root = "other"
          \/ \E i \in DOMAIN doc.yaml : doc.yaml[i].key # None /\ ~Text(doc.yaml[i])
       THEN Failed ELSE Fields(doc.yaml)

SameLine(ps, i, j) == \A k \in Min({i, j}) + 1 .. Max({i, j}) : ps[k].joined

\* The first of the occurrences of a field that is set is kept, in quotes if it needs them;
\* other duplicates of touched fields go when they are one line each.
Touched(set, unset) == unset \cup DOMAIN set
KeptLast(ps, set, i) ==
  \/ Positions(ps, ps[i].key) = {i}
  \/ ps[i].key \in DOMAIN set
Kept(ps, set, i) ==
  \/ Positions(ps, ps[i].key) = {i}
  \/ ps[i].key \in DOMAIN set /\ i = Min(Positions(ps, ps[i].key))
Canonical(ps, set, unset) ==
  LET touched == {i \in DOMAIN ps : ps[i].key \in Touched(set, unset)}
      doomed == {i \in touched : ~Kept(ps, set, i)}
      quoted == [i \in DOMAIN ps |-> IF i \in touched /\ ps[i].key \in Scalars
                                     THEN [ps[i] EXCEPT !.quoted = TRUE] ELSE ps[i]]
      kept == SetToSortSeq(DOMAIN ps \ doomed, <)
  IN  IF \E i \in doomed : ps[i].long \/ \E j \in DOMAIN ps \ {i} : SameLine(ps, i, j) THEN Failed
      ELSE [yaml |-> [n \in DOMAIN kept |-> quoted[kept[n]]]]

\* The lines left when those of touched entries go; fails if such a line has another entry.
Projection(ps, touched) ==
  IF \E i, j \in DOMAIN ps : ps[i].key \in touched /\ ps[j].key \notin touched /\ SameLine(ps, i, j)
  THEN Failed ELSE [yaml |-> SelectSeq(ps, LAMBDA p : p.key \notin touched)]

\* External editors of the syntax tree.  Careful ones replace the value of an entry, or
\* append it; others append a key they did not recognise, fail to remove one, remove the
\* piece after it as well, or write a value that looks like the end of the envelope.
Editors == {"careful", "append", "miss", "spill", "fence"}
Put(ps, key, value, editor) ==
  LET at == Positions(ps, key)
      new == [Entry(key, value) EXCEPT !.quoted = key \in Scalars]
  IN  IF at = {} \/ editor = "append" THEN Append(ps, new)
      ELSE [ps EXCEPT ![Min(at)] = [new EXCEPT !.joined = ps[Min(at)].joined]]
Drop(ps, key, editor) ==
  LET at == Positions(ps, key)
      gone == {Min(at)} \cup IF editor = "spill" THEN {Min(at) + 1} ELSE {}
      kept == SetToSortSeq(DOMAIN ps \ gone, <)
  IN  IF at = {} \/ editor = "miss" THEN ps ELSE [n \in DOMAIN kept |-> ps[kept[n]]]
Edited(ps, set, unset, existing, editor) ==
  LET dropped == FoldSet(LAMBDA k, acc : Drop(acc, k, editor), ps, unset \ DOMAIN set)
      changed == {k \in DOMAIN set : k \notin DOMAIN existing \/ existing[k] # set[k]}
  IN  FoldSet(LAMBDA k, acc : Put(acc, k, set[k], editor), dropped, changed)

\* Nothing but the touched fields may differ, and those must be as asked.
VerifiedFields(doc, rendered, before, known, set, unset) ==
  /\ Bounded(rendered) /\ rendered.bom = doc.bom /\ rendered.body = doc.body
  /\ StrictMap(rendered) = set @@ [k \in DOMAIN known \ unset |-> known[k]]
Verified(doc, rendered, before, known, set, unset) ==
  LET touched == Touched(set, unset)
      old == Projection(before, touched)
      new == Projection(rendered.yaml, touched)
      stays == [k \in DOMAIN known \ unset |-> known[k]]
  IN  /\ Bounded(rendered)
      /\ rendered.bom = doc.bom
      /\ rendered.body = doc.body
      /\ Bounded(doc) => ~IsFailed(old) /\ ~IsFailed(new) /\ old = new
      /\ StrictMap(rendered) = set @@ stays

Satisfied(doc, set, unset) ==
  LET existing == ExistingValues(doc) IN
  /\ \A k \in DOMAIN set : k \in DOMAIN existing /\ existing[k] = set[k]
  /\ (unset \ DOMAIN set) \cap DOMAIN existing = {}

RenderPatch(doc, set, unset, editor) ==
  LET canonical == Canonical(doc.yaml, set, unset)
      rendered ==
        [doc EXCEPT
           !.envelope = "closed", !.root = "mapping",
           !.yaml = Edited(canonical.yaml, set, unset, ExistingValues(doc), editor),
           !.body = IF editor = "fence" THEN <<"fenced", @>> ELSE @]
      known == StrictMap([doc EXCEPT !.yaml = canonical.yaml])
  IN  IF doc.envelope = "open" THEN Failed
      ELSE IF doc.envelope = "none" /\ set = <<>> THEN doc
      ELSE IF Bounded(doc) /\ Satisfied(doc, set, unset) THEN doc
      ELSE IF Bounded(doc) /\ (~UniformNewlines(doc) \/ doc.root = "broken" \/ IsFailed(canonical)) THEN Failed
      ELSE IF IsFailed(known) \/ ~Verified(doc, rendered, canonical.yaml, known, set, unset) THEN Failed
      ELSE rendered

\* Whatever the editor does, a document that is changed keeps its BOM, its body, the other
\* entries, the comments and their order, each touched field is there once with its value or
\* not at all, and the same patch then changes nothing more, so a retry is safe.
PatchKeepsTheRest(doc, set, unset, editor) ==
  LET r == RenderPatch(doc, set, unset, editor)
      Rest(ps) == SelectSeq(ps, LAMBDA p : p.key \notin Touched(set, unset))
  IN  (~IsFailed(r) /\ r # doc) =>
        /\ r.bom = doc.bom /\ r.body = doc.body
        /\ Rest(r.yaml) = Rest(doc.yaml)
        /\ \A k \in Touched(set, unset) :
             {r.yaml[i].value : i \in Positions(r.yaml, k)} = (IF k \in DOMAIN set THEN {set[k]} ELSE {})
             /\ Cardinality(Positions(r.yaml, k)) <= 1
        /\ \A e \in Editors : RenderPatch(r, set, unset, e) = r

\* Documents without faults take every patch: fields on lines of their own, other keys all
\* texts, and no key both with and without quotes.  With both, the later value counts as
\* the existing one and the first entry is kept, so that a patch may be refused.
PatchSucceeds(doc, set, unset) ==
  (/\ doc.envelope # "open" /\ UniformNewlines(doc) /\ doc.root = "mapping"
   /\ \A i \in DOMAIN doc.yaml : ~doc.yaml[i].long /\ ~doc.yaml[i].joined
   /\ \A i, j \in DOMAIN doc.yaml : doc.yaml[i].key = doc.yaml[j].key => Text(doc.yaml[i]) = Text(doc.yaml[j])
   /\ ~IsFailed(StrictMap([doc EXCEPT !.yaml = SelectSeq(@, LAMBDA p : p.key \notin Touched(set, unset))])))
  => ~IsFailed(RenderPatch(doc, set, unset, "careful"))
=============================================================================
