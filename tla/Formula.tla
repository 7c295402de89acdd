------------------------------ MODULE Formula ------------------------------
(***************************************************************************)
(* The Formula engine: what an expression may be and which fields it       *)
(* depends on, how the definitions of a document are ordered and           *)
(* evaluated, and how one expression is evaluated within its budgets.      *)
(*                                                                         *)
(* An expression is a tuple that starts with its kind:                     *)
(*   <<"lit", value>>, <<"id", name>>, <<"array", es>>,                    *)
(*   <<"object", keys, es>>, <<"template", texts, es>>,                    *)
(*   <<"unary", op, e>>, <<"binary", op, e, f>>, <<"logical", op, e, f>>,  *)
(*   <<"cond", e, f, g>>, <<"member", e, key, optional>>, <<"chain", e>>,  *)
(*   <<"call", callee, es, optional>>, <<"arrow", params, e>>.             *)
(* A key is <<"name", n>> or, computed, an expression. Values and the      *)
(* built-in functions are in FormulaValues.                                *)
(***************************************************************************)
EXTENDS FormulaValues

CONSTANTS MaxSteps, MaxDepth, MaxNodes   \* limits; naturals

BuiltinRoots == {"Math", "Number", "Array", "Object", "undefined"}
StaticRoots == BuiltinRoots \ {"undefined"}
CallbackMethods == {"map", "filter", "reduce", "some", "every", "find"}

-----------------------------------------------------------------------------
(* Validation: the Accepts of an expression and its dependencies *)

IsCall(e) == e[1] = "call"
IsStaticCall(e) ==
  IsCall(e) /\ e[2][1] = "member" /\ e[2][2][1] = "id" /\ e[2][2][2] \in StaticRoots
\* A key that is a name or a literal text.
StaticKey(key) ==
  CASE key[1] = "name" -> key[2]
    [] key[1] = "lit" /\ key[2][1] = "string" -> key[2][2][1]
    [] OTHER -> "none"
MethodOf(callee) == IF callee[1] = "member" THEN StaticKey(callee[3]) ELSE "none"

Children(e) ==
  CASE e[1] = "array" -> e[2]
    [] e[1] \in {"object", "template"} -> e[3]
    [] e[1] = "unary" -> <<e[3]>>
    [] e[1] \in {"binary", "logical"} -> <<e[3], e[4]>>
    [] e[1] = "cond" -> <<e[2], e[3], e[4]>>
    [] e[1] = "member" -> IF e[3][1] = "name" THEN <<e[2]>> ELSE <<e[2], e[3]>>
    [] e[1] = "chain" -> <<e[2]>>
    [] e[1] = "call" -> <<e[2]>> \o e[3]
    [] e[1] = "arrow" -> <<e[3]>>
    [] OTHER -> <<>>

\* enforce_estree_limits
RECURSIVE Height(_), Size(_)
Height(e) == 1 + FoldLeft(LAMBDA h, c : IF Height(c) > h THEN Height(c) ELSE h, 0, Children(e))
Size(e) == 1 + FoldLeft(LAMBDA n, c : n + Size(c), 0, Children(e))

\* Arrows stand only as arguments of the callback methods, calls only on what is listed.
RECURSIVE Accepts(_, _)
Accepts(e, arrow) ==
  /\ e[1] = "arrow" => arrow /\ Len(e[2]) <= 4
  /\ IsCall(e) => IF e[2][1] = "id" THEN e[2][2] = "Number" ELSE MethodOf(e[2]) # "none"
  /\ \A i \in DOMAIN Children(e) :
       Accepts(Children(e)[i], IsCall(e) /\ i > 1 /\ MethodOf(e[2]) \in CallbackMethods)

\* The names an expression refers to that are no parameter around them, with
\* repetitions; the names that are roots of calls; the fields named as fields.x.
RECURSIVE References(_, _), CallRoots(_), NamedFields(_)
References(e, locals) ==
  IF e[1] = "id" THEN IF e[2] \in locals \cup {"fields"} THEN <<>> ELSE <<e[2]>>
  ELSE LET inner == IF e[1] = "arrow" THEN locals \cup ToSet(e[2]) ELSE locals
       IN  FoldLeft(LAMBDA r, c : r \o References(c, inner), <<>>, Children(e))
\* Mutant: only fields.x names a field.
NamedFieldsByName(e) ==
  (IF e[1] = "member" /\ e[2] = <<"id", "fields">> /\ e[3][1] = "name" THEN {e[3][2]} ELSE {})
  \cup UNION {NamedFields(Children(e)[i]) : i \in DOMAIN Children(e)}
CallRoots(e) ==
  (IF IsStaticCall(e) THEN <<e[2][2][2]>>
   ELSE IF IsCall(e) /\ e[2][1] = "id" THEN <<e[2][2]>> ELSE <<>>)
  \o FoldLeft(LAMBDA r, c : r \o CallRoots(c), <<>>, Children(e))
NamedFields(e) ==
  (IF e[1] = "member" /\ e[2] = <<"id", "fields">>
   THEN (IF e[3][1] = "id" THEN {e[3][2]} ELSE {StaticKey(e[3])} \ {"none"}) ELSE {})
  \cup UNION {NamedFields(Children(e)[i]) : i \in DOMAIN Children(e)}

Occurrences(s, x) == Cardinality({i \in DOMAIN s : s[i] = x})
\* parse_formula: a root of calls is a field where it occurs without a call.
Dependencies(e) ==
  NamedFields(e) \cup {n \in ToSet(References(e, {})) :
    n \notin BuiltinRoots \/ Occurrences(References(e, {}), n) > Occurrences(CallRoots(e), n)}

ParseFormula(e) ==
  CASE Size(e) > MaxNodes -> "ast_limit"
    [] Height(e) > MaxDepth -> "nesting_limit"
    [] ~Accepts(e, FALSE) -> "unsupported"
    [] OTHER -> "ok"

-----------------------------------------------------------------------------
(* Evaluation of one expression: a value and the steps taken so far *)

Result(v, n) == [v |-> v, n |-> n]
\* The innermost scope counts; scopes are folded into the environment.
Bind(env, params, args) ==
  [x \in DOMAIN env \cup ToSet(params) |->
     IF x \in ToSet(params)
     THEN LET i == Max({j \in DOMAIN params : params[j] = x})
          IN  IF i \in DOMAIN args THEN args[i] ELSE Undefined
     ELSE env[x]]

RECURSIVE Eval(_, _, _, _), EvalAll(_, _, _, _), CallEach(_, _, _, _, _, _), Reduce(_, _, _, _, _, _)

\* Expressions one after the other, until one fails.
EvalAll(es, env, depth, n) ==
  FoldLeft(LAMBDA r, e : IF r.failed THEN r
                         ELSE LET x == Eval(e, env, depth, r.n) IN
                              [v |-> IF Failed(x.v) THEN x.v ELSE List(Append(r.v[2], x.v)),
                               n |-> x.n, failed |-> Failed(x.v)],
           [v |-> List(<<>>), n |-> n, failed |-> FALSE], es)

\* callback_arguments and call_callback; a callback that asks for the collection pays
\* for its copy.
CallCallback(fn, positional, all, env, n) ==
  LET wanted == Len(fn[2])
      copied == wanted > Len(positional)
      steps == n + 1 + (IF copied THEN Len(all) ELSE 0)
      args == IF copied THEN Append(positional, List(all)) ELSE SubSeq(positional, 1, wanted)
  IN  IF steps > MaxSteps THEN Result(Error("evaluation_limit"), steps)
      ELSE Eval(fn[3], Bind(env, fn[2], args), 0, steps)

\* map, filter, some, every and find from element i on; out is what was kept so far.
CallEach(method, vs, fn, env, n, s) ==
  IF s.i > Len(vs)
  THEN Result(CASE method \in {"map", "filter"} -> Bounded(List(s.out))
                [] method = "find" -> Undefined
                [] OTHER -> Bool(method = "every"), n)
  ELSE LET v == vs[s.i]
           r == CallCallback(fn, <<v, Num(s.i - 1)>>, vs, env, n)
           next(out) == CallEach(method, vs, fn, env, r.n, [i |-> s.i + 1, out |-> out])
       IN  CASE Failed(r.v) -> r
             [] method = "map" ->
                  IF Len(vs) + Elements(List(Append(s.out, r.v))) - Len(s.out) - 1 > MaxElements
                  THEN Result(Error("collection_limit"), r.n) ELSE next(Append(s.out, r.v))
             [] method = "filter" -> next(IF Truthy(r.v) THEN Append(s.out, v) ELSE s.out)
             [] method = "find" /\ Truthy(r.v) -> Result(v, r.n)
             [] method = "some" /\ Truthy(r.v) -> Result(Bool(TRUE), r.n)
             [] method = "every" /\ ~Truthy(r.v) -> Result(Bool(FALSE), r.n)
             [] OTHER -> next(s.out)
Reduce(vs, fn, acc, i, env, n) ==
  IF i > Len(vs) THEN Result(acc, n)
  ELSE LET r == CallCallback(fn, <<acc, vs[i], Num(i - 1)>>, vs, env, n)
       IN  IF Failed(r.v) \/ Failed(Bounded(r.v)) THEN Result(Bounded(r.v), r.n)
           ELSE Reduce(vs, fn, r.v, i + 1, env, r.n)

CallMethod(receiver, method, args, env, n) ==
  CASE receiver[1] = "string" -> Result(StringMethod(receiver[2], method, args), n)
    [] receiver[1] # "array" ->
         Result(Error(IF IsNullish(receiver) THEN "null_access" ELSE "unsupported_call"), n)
    [] method \notin CallbackMethods -> Result(ArrayMethod(receiver[2], method, args), n)
    [] args[1][1] # "function" -> Result(Error("type_mismatch"), n)
    [] method # "reduce" -> CallEach(method, receiver[2], args[1], env, n, [i |-> 1, out |-> <<>>])
    [] Len(args) = 2 -> Reduce(receiver[2], args[1], args[2], 1, env, n)
    [] receiver[2] = <<>> -> Result(Error("empty_reduce"), n)
    [] OTHER -> Reduce(receiver[2], args[1], receiver[2][1], 2, env, n)

\* eval_call: an optional call on nothing takes no argument.
EvalCall(e, env, depth, n) ==
  LET callee == e[2] IN
  IF callee[1] = "id" \/ IsStaticCall(e)
  THEN LET args == EvalAll(e[3], env, depth + 1, n) IN
       Result(CASE args.failed -> args.v
                [] callee[1] = "id" -> Unary("+", args.v[2][1])
                [] OTHER -> CallStatic(callee[2][2], MethodOf(callee), args.v[2]), args.n)
  ELSE LET receiver == Eval(callee[2], env, depth + 1, n)
           args == EvalAll(e[3], env, depth + 1, receiver.n)
       IN  IF Failed(receiver.v) THEN receiver
           ELSE IF receiver.v = Skip \/ (IsNullish(receiver.v) /\ (callee[4] \/ e[4]))
           THEN Result(Skip, receiver.n)
           ELSE IF args.failed THEN Result(args.v, args.n)
           ELSE CallMethod(receiver.v, MethodOf(callee), args.v[2], env, args.n)

\* Mutant: an optional link that finds nothing gives undefined to the next link.
EvalMemberUndefined(e, env, depth, n) ==
  LET object == Eval(e[2], env, depth + 1, n) IN
  IF Failed(object.v) THEN object
  ELSE IF IsNullish(object.v) /\ e[4] THEN Result(Undefined, object.n)
  ELSE Result(GetProperty(object.v, <<e[3][2]>>, e[4]), object.n)
\* eval_member: the key is evaluated only when the object is there.
EvalMember(e, env, depth, n) ==
  LET object == Eval(e[2], env, depth + 1, n) IN
  IF Failed(object.v) THEN object
  ELSE IF object.v = Skip \/ (IsNullish(object.v) /\ e[4]) THEN Result(Skip, object.n)
  ELSE IF e[3][1] = "name" THEN Result(GetProperty(object.v, <<e[3][2]>>, e[4]), object.n)
  ELSE LET key == Eval(e[3], env, depth + 1, object.n)
       IN  IF Failed(key.v) THEN key
           ELSE Result(GetProperty(object.v, JsString(key.v), e[4]), key.n)

EvalLogical(e, env, depth, n) ==
  LET left == Eval(e[3], env, depth + 1, n)
      stops == CASE e[2] = "&&" -> ~Truthy(left.v)
                 [] e[2] = "||" -> Truthy(left.v)
                 [] e[2] = "??" -> ~IsNullish(left.v)
  IN  IF Failed(left.v) \/ stops THEN left ELSE Eval(e[4], env, depth + 1, left.n)

\* Kinds whose parts are all evaluated, in their order.
Combine(e, vs) ==
  CASE e[1] = "array" -> Bounded(List(vs))
    [] e[1] = "object" -> Bounded(<<"object", [k \in {<<x>> : x \in ToSet(e[2])} |->
                                     vs[Max({i \in DOMAIN e[2] : <<e[2][i]>> = k})]]>>)
    [] e[1] = "template" ->
         Str(FoldLeft(LAMBDA t, i : t \o e[2][i] \o (IF i \in DOMAIN vs THEN JsString(vs[i]) ELSE <<>>),
                      <<>>, [i \in DOMAIN e[2] |-> i]))
    [] e[1] = "unary" -> Unary(e[2], vs[1])
    [] e[1] = "binary" -> Binary(e[2], vs[1], vs[2])
    [] e[1] = "chain" -> IF vs[1] = Skip THEN Undefined ELSE vs[1]

Eval(e, env, depth, before) ==
  LET n == before + 1 IN
  CASE n > MaxSteps -> Result(Error("evaluation_limit"), n)
    [] depth > MaxDepth -> Result(Error("nesting_limit"), n)
    [] e[1] = "lit" -> Result(e[2], n)
    [] e[1] = "id" -> Result(CASE e[2] = "undefined" -> Undefined
                               [] e[2] \in DOMAIN env -> env[e[2]]
                               [] OTHER -> Error("unknown_identifier"), n)
    [] e[1] = "arrow" -> Result(<<"function", e[2], e[3]>>, n)
    [] e[1] = "logical" -> EvalLogical(e, env, depth, n)
    [] e[1] = "member" -> EvalMember(e, env, depth, n)
    [] e[1] = "call" -> EvalCall(e, env, depth, n)
    [] e[1] = "cond" ->
         LET test == Eval(e[2], env, depth + 1, n)
         IN  IF Failed(test.v) THEN test
             ELSE Eval(IF Truthy(test.v) THEN e[3] ELSE e[4], env, depth + 1, test.n)
    [] OTHER -> LET parts == EvalAll(Children(e), env, depth + 1, n)
                IN  Result(IF parts.failed THEN parts.v ELSE Combine(e, parts.v[2]), parts.n)

-----------------------------------------------------------------------------
(* A program: definitions in their order, each a name and an expression *)

First(program, name) == Min({i \in DOMAIN program : program[i].name = name})
Names(program) == {program[i].name : i \in DOMAIN program}

\* FormulaProgram::compile
Diagnostic(program, i) ==
  IF i # First(program, program[i].name) THEN "duplicate_field" ELSE ParseFormula(program[i].e)
DependsOn(program) ==
  [i \in DOMAIN program |->
     IF Diagnostic(program, i) # "ok" THEN {}
     ELSE {First(program, d) : d \in Dependencies(program[i].e) \cap Names(program)}]

RECURSIVE DependencyReaches(_, _, _, _)
DependencyReaches(g, target, current, visited) ==
  current \notin visited /\ \E d \in g[current] :
    d = target \/ DependencyReaches(g, target, d, visited \cup {current})
Cyclic(program) ==
  {i \in DOMAIN program : DependencyReaches(DependsOn(program), i, i, {})}

\* Definitions that wait for no other first, then those that this releases, in order.
RECURSIVE Release(_, _, _)
Release(g, order, queue) ==
  IF queue = <<>> THEN order
  ELSE LET i == Head(queue)
           done == Append(order, i)
           ready == {j \in DOMAIN g : i \in g[j] /\ j \notin ToSet(done) \cup ToSet(queue)
                                      /\ g[j] \subseteq ToSet(done)}
       IN  Release(g, done, Tail(queue) \o SetToSortSeq(ready, <))
\* Mutant: the order of the definitions.
EvaluationOrderAsDefined(program) == SetToSortSeq(DOMAIN program \ Cyclic(program), <)
EvaluationOrder(program) ==
  LET free == DOMAIN program \ Cyclic(program)
      g == [i \in free |-> DependsOn(program)[i] \ Cyclic(program)]
  IN  Release(g, <<>>, SetToSortSeq({i \in free : g[i] = {}}, <))

\* FormulaProgram::evaluate: values of the raw fields no definition owns, then of the
\* definitions, each in the environment of those before it.
Environment(raw, computed) ==
  LET env == [x \in DOMAIN raw \cup DOMAIN computed |->
                IF x \in DOMAIN computed THEN computed[x] ELSE raw[x]]
  IN  [x \in DOMAIN env \cup {"fields"} |->
         IF x = "fields" THEN <<"object", [k \in {<<y>> : y \in DOMAIN env} |-> env[k[1]]]>> ELSE env[x]]
ValidateResult(v) ==
  CASE v \in {Undefined, Skip} -> Error("undefined_result")
    [] v[1] = "function" -> Error("result_type")
    [] OTHER -> v
EvaluateOne(program, i, raw, s) ==
  LET name == program[i].name
      missing == (Dependencies(program[i].e) \cap Names(program)) \ DOMAIN s.values
      v == ValidateResult(Bounded(Eval(program[i].e, Environment(raw, s.values), 0, 0).v))
  IN  IF name \in DOMAIN s.errors THEN s
      ELSE IF missing # {} THEN [s EXCEPT !.errors = (name :> "dependency_failed") @@ @]
      ELSE IF Failed(v) THEN [s EXCEPT !.errors = (name :> v[2]) @@ @]
      ELSE [s EXCEPT !.values = (name :> v) @@ @]
Evaluate(program, fields) ==
  LET raw == [x \in DOMAIN fields \ Names(program) |-> fields[x]]
      refused == {i \in DOMAIN program : Diagnostic(program, i) # "ok"}
      cyclic == Cyclic(program)
      errors == [x \in {program[i].name : i \in refused \cup cyclic} |->
                   IF x \in {program[i].name : i \in cyclic} THEN "dependency_cycle"
                   ELSE Diagnostic(program, Max({i \in refused : program[i].name = x}))]
  IN  FoldLeft(LAMBDA s, i : EvaluateOne(program, i, raw, s),
               [values |-> [x \in {} |-> Null], errors |-> errors], EvaluationOrder(program))

-----------------------------------------------------------------------------
(* What evaluation promises; the runs check it on bounded inputs *)

\* Does the expression read fields its dependencies cannot name?
RECURSIVE Dynamic(_)
Dynamic(e) ==
  \/ e[1] = "member" /\ e[2] = <<"id", "fields">> /\ e[3][1] # "name" /\ e[3][1] # "lit"
  \/ e = <<"id", "fields">>
  \/ \E i \in DOMAIN Children(e) :
       /\ ~(e[1] = "member" /\ i = 1 /\ Children(e)[1] = <<"id", "fields">>)
       /\ Dynamic(Children(e)[i])

\* A formula that names its fields sees nothing but its dependencies: taking all other
\* fields away does not change its value.
SeesOnlyDependencies(e, raw) ==
  ParseFormula(e) = "ok" /\ ~Dynamic(e) =>
    LET seen == [x \in DOMAIN raw \cap Dependencies(e) |-> raw[x]]
        none == [x \in {} |-> Null]
    IN  Eval(e, Environment(raw, none), 0, 0) = Eval(e, Environment(seen, none), 0, 0)

Needs(program, x) == Dependencies(program[First(program, x)].e) \cap Names(program)
Reachable(program) ==
  LET reach[x \in Names(program), n \in 0 .. Len(program)] ==
        IF n = 0 THEN Needs(program, x)
        ELSE reach[x, n - 1] \cup UNION {Needs(program, y) : y \in reach[x, n - 1]}
  IN  [x \in Names(program) |-> reach[x, Len(program)]]
Solves(program, out, all, reach) ==
  /\ DOMAIN out.values \cap DOMAIN out.errors = {}
  /\ DOMAIN out.values \cup DOMAIN out.errors = Names(program)
  /\ \A x \in DOMAIN out.values :
       /\ Needs(program, x) \subseteq DOMAIN out.values
       /\ ~Dynamic(program[First(program, x)].e) =>
            Eval(program[First(program, x)].e, all, 0, 0).v = out.values[x]
  /\ \A x \in DOMAIN out.errors :
       out.errors[x] = "dependency_failed" => ~(Needs(program, x) \subseteq DOMAIN out.values)
  /\ (\A i \in DOMAIN program : Diagnostic(program, i) = "ok") =>
       \A x \in Names(program) :
         x \in reach[x] <=> x \in DOMAIN out.errors /\ out.errors[x] = "dependency_cycle"
SolvesWith(program, fields, out) ==
  Solves(program, out,
         Environment([x \in DOMAIN fields \ Names(program) |-> fields[x]], out.values),
         Reachable(program))
\* The values of a program solve its definitions: each is what its formula gives in
\* the document with all of them; what a definition left in the document before is
\* never read; errors are on exactly the other names, cycles on those that are on one.
IsSolution(program, fields) == SolvesWith(program, fields, Evaluate(program, fields))

\* An optional chain is undefined where JavaScript says so: links[i] is a key and
\* whether the link to it is optional.
RECURSIVE Chain(_, _)
Chain(root, links) ==
  IF links = <<>> THEN root
  ELSE <<"member", Chain(root, Front(links)), <<"name", Last(links).key>>, Last(links).optional>>
RECURSIVE Follow(_, _)
Follow(v, links) ==
  IF links = <<>> THEN v
  ELSE IF v \in {Null, Undefined}
       THEN IF Head(links).optional THEN Undefined ELSE Error("null_access")
       ELSE Follow(IF v[1] = "object" /\ <<Head(links).key>> \in DOMAIN v[2]
                   THEN v[2][<<Head(links).key>>] ELSE Undefined, Tail(links))
ChainIsJavaScript(v, links) ==
  Eval(<<"chain", Chain(<<"lit", v>>, links)>>, [x \in {} |-> Null], 0, 0).v = Follow(v, links)
=============================================================================
