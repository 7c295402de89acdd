---------------------------- MODULE ConfigLayers ----------------------------
(***************************************************************************)
(* Layers of settings: how they are merged, read and changed.              *)
(***************************************************************************)
EXTENDS Option, Naturals, SequencesExt, TLC

CONSTANT Default

-----------------------------------------------------------------------------
(* Layers: a tree is <<"leaf", value>> or <<"map", key -> tree>> *)

Leaf(v) == <<"leaf", v>>
Map(f) == <<"map", f>>
EmptyMap == Map(<<>>)

\* Mutant: an overlaid mapping replaces the one below.
MergedShallow(base, overlay) ==
  IF base[1] = "map" /\ overlay[1] = "map" THEN Map(overlay[2] @@ base[2]) ELSE overlay
RECURSIVE MergeYamlValues(_, _)
MergeYamlValues(base, overlay) ==
  IF base[1] = "map" /\ overlay[1] = "map"
  THEN Map([k \in DOMAIN base[2] \cup DOMAIN overlay[2] |->
    IF k \notin DOMAIN overlay[2] THEN base[2][k]
    ELSE IF k \notin DOMAIN base[2] THEN overlay[2][k]
    ELSE MergeYamlValues(base[2][k], overlay[2][k])])
  ELSE overlay

\* None: there is nothing at the path.
RECURSIVE YamlValueAt(_, _)
YamlValueAt(tree, path) ==
  IF path = <<>> THEN tree
  ELSE IF tree[1] = "map" /\ Head(path) \in DOMAIN tree[2] THEN YamlValueAt(tree[2][Head(path)], Tail(path))
  ELSE None

\* None: something on the way is not a mapping.
RECURSIVE SetYamlValue(_, _, _)
SetYamlValue(tree, path, value) ==
  IF path = <<>> THEN value
  ELSE IF tree[1] # "map" THEN None
  ELSE LET below == IF Head(path) \in DOMAIN tree[2] THEN tree[2][Head(path)] ELSE EmptyMap
           child == SetYamlValue(below, Tail(path), value)
       IN  IF child = None THEN None ELSE Map((Head(path) :> child) @@ tree[2])

RECURSIVE RemoveYamlValue(_, _)
RemoveYamlValue(tree, path) ==
  IF tree[1] # "map" \/ Head(path) \notin DOMAIN tree[2] THEN tree
  ELSE IF Len(path) = 1 THEN Map([k \in DOMAIN tree[2] \ {Head(path)} |-> tree[2][k]])
  ELSE Map([tree[2] EXCEPT ![Head(path)] = RemoveYamlValue(@, Tail(path))])

\* Variables of the shell come last; one that does not parse is as if not set.
ApplyEnvOverrides(settings, shell) == [k \in DOMAIN settings |-> IF k \in DOMAIN shell THEN shell[k] ELSE settings[k]]
\* What has no layer has its default.
FromYaml(tree, paths, shell) ==
  ApplyEnvOverrides([p \in paths |-> IF YamlValueAt(tree, p) = None THEN Leaf(Default) ELSE YamlValueAt(tree, p)], shell)

-----------------------------------------------------------------------------
(* Properties *)

\* A leaf of the result is a leaf of the upper layer, or one of the lower layer that the upper
\* one neither has nor replaces by or hides behind another; and setting or removing one
\* path leaves all others alone.
Leaves(tree, paths) == {p \in paths : YamlValueAt(tree, p) # None /\ YamlValueAt(tree, p)[1] = "leaf"}
Passes(tree, q, p) ==
  \/ YamlValueAt(tree, q) = None
  \/ IsStrictPrefix(q, p) /\ YamlValueAt(tree, q)[1] = "map"
Apart(p, q) == ~IsPrefix(p, q) /\ ~IsPrefix(q, p)
LayersKeepLeaves(base, overlay, paths) ==
  LET merged == MergeYamlValues(base, overlay) IN
  base[1] = "map" /\ overlay[1] = "map" =>
    \A p \in paths :
      /\ p \in Leaves(overlay, paths) => YamlValueAt(merged, p) = YamlValueAt(overlay, p)
      /\ p \in Leaves(base, paths) /\ (\A q \in paths : Apart(p, q) \/ Passes(overlay, q, p))
           => YamlValueAt(merged, p) = YamlValueAt(base, p)
      /\ p \in Leaves(merged, paths) => YamlValueAt(merged, p) \in {YamlValueAt(base, p), YamlValueAt(overlay, p)}
MutationsAreLocal(tree, paths) ==
  \A p \in paths :
    LET set == SetYamlValue(tree, p, Leaf(Default))
        removed == RemoveYamlValue(tree, p)
        others == {q \in paths : Apart(p, q)}
    IN  /\ set # None => YamlValueAt(set, p) = Leaf(Default) /\ \A q \in others : YamlValueAt(set, q) = YamlValueAt(tree, q)
        /\ YamlValueAt(removed, p) = None /\ \A q \in others : YamlValueAt(removed, q) = YamlValueAt(tree, q)
=============================================================================
