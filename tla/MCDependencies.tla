--------------------------- MODULE MCDependencies ---------------------------
(* Dependencies over three documents, with overlays whose fields form chains, *)
(* cycles and an incoming rollup.                                             *)
EXTENDS Dependencies

MCDocs == 1 .. 3
MCBases == {Num(1), Num(2)}
MCFormula == [b \in MCBases |-> IF b = Num(1) THEN Num(5) ELSE None]
Rel(as, to) == [as |-> as, to |-> to]
MCRelations == {Rel("none", <<>>), Rel("one", <<2>>), Rel("one", <<3>>), Rel("many", <<3, 1>>)}

On(target) == [kind |-> "lookup", dir |-> "out", target |-> target, scope |-> {}]
Sum(target) == [On(target) EXCEPT !.kind = "rollup"]
SumIn(target, ds) == [Sum(target) EXCEPT !.dir = "in", !.scope = ds]

\* A chain of lookups that may end in a form or in a cycle; rollups; an incoming rollup.
MCOverlays == {
  [look |-> <<On("look"), On("look"), On("form")>>, form |-> {2, 3}, rel |-> "relation"],
  [look |-> <<On("look"), Sum("look"), None>>, form |-> {1}, rel |-> "untyped"],
  [look |-> <<On("look"), On("form"), SumIn("look", {1, 2})>>, form |-> {1, 3}, rel |-> "relation"]}

Doc(b, as, to) == [base |-> Num(b), rel |-> Rel(as, to)]
MCFirst == {<<Doc(1, "one", <<2>>), Doc(1, "one", <<3>>), Doc(1, "one", <<3>>)>>}
MCScopes == {{1}, {3}}
=============================================================================
