--------------------------- MODULE FormulaValues ---------------------------
(***************************************************************************)
(* The values of the Formula engine, its operators and its built-in        *)
(* functions. A value is a tuple that starts with its type; a text is a    *)
(* sequence of characters, and the names of fields and properties are      *)
(* taken for characters. Numbers are whole; regular expressions, the       *)
(* parsing of numbers and JSON texts are left out.                         *)
(***************************************************************************)
EXTENDS Integers, TLC, SequencesExt, FiniteSetsExt

CONSTANT MaxElements      \* the most elements of a collection; a natural


Undefined == <<"undefined">>
Skip == <<"skip">>                 \* the rest of an optional chain is skipped
Null == <<"null">>
Num(n) == <<"number", n>>
Bool(b) == <<"boolean", b>>
Str(t) == <<"string", t>>
List(vs) == <<"array", vs>>
Error(code) == <<"error", code>>

Failed(v) == v[1] = "error"
IsNullish(v) == v \in {Null, Undefined, Skip}
Truthy(v) ==
  CASE v[1] = "boolean" -> v[2]
    [] v[1] = "number" -> v[2] # 0
    [] v[1] = "string" -> v[2] # <<>>
    [] OTHER -> ~IsNullish(v)

\* Lists and objects have no identity: they equal nothing.
StrictEqual(v, w) ==
  \/ v[1] \in {"undefined", "skip"} /\ w[1] \in {"undefined", "skip"}
  \/ v = w /\ v[1] \in {"null", "boolean", "number", "string"}

RECURSIVE JsString(_)
JsString(v) ==
  CASE v[1] = "number" -> <<ToString(v[2])>>
    [] v[1] = "boolean" -> <<ToString(v[2])>>
    [] v[1] = "string" -> v[2]
    [] v[1] = "array" ->
         FoldLeft(LAMBDA t, i : t \o (IF i > 1 THEN <<",">> ELSE <<>>)
                                  \o (IF IsNullish(v[2][i]) THEN <<>> ELSE JsString(v[2][i])),
                  <<>>, [i \in DOMAIN v[2] |-> i])
    [] v[1] = "skip" -> <<"undefined">>
    [] OTHER -> <<v[1]>>

AddValues(v, w) ==
  IF v[1] = "string" \/ w[1] = "string"
  THEN IF "function" \in {v[1], w[1]} THEN Error("type_mismatch")
       ELSE Str(JsString(v) \o JsString(w))
  ELSE IF v[1] = "number" /\ w[1] = "number" THEN Num(v[2] + w[2]) ELSE Error("type_mismatch")

Binary(op, v, w) ==
  CASE op = "+" -> AddValues(v, w)
    [] op = "===" -> Bool(StrictEqual(v, w))
    [] op = "!==" -> Bool(~StrictEqual(v, w))
    [] v[1] # "number" \/ w[1] # "number" -> Error("type_mismatch")
    [] op = "<" -> Bool(v[2] < w[2])
    [] op = "-" -> Num(v[2] - w[2])
    [] op = "*" -> Num(v[2] * w[2])
    [] op = "%" /\ w[2] = 0 -> Error("division_by_zero")
    \* The remainder has the sign of the dividend.
    [] op = "%" -> LET r == (IF v[2] < 0 THEN -v[2] ELSE v[2]) % (IF w[2] < 0 THEN -w[2] ELSE w[2])
                   IN  Num(IF v[2] < 0 THEN -r ELSE r)

Unary(op, v) ==
  CASE op = "!" -> Bool(~Truthy(v))
    [] op = "typeof" -> Str(<<CASE v[1] = "skip" -> "undefined"
                                [] v[1] \in {"null", "array"} -> "object"
                                [] OTHER -> v[1]>>)
    [] v[1] = "number" -> Num(IF op = "-" THEN -v[2] ELSE v[2])
    [] op = "-" -> Error("type_mismatch")
    [] op = "+" -> CASE v = Null \/ v \in {Str(<<>>), List(<<>>)} -> Num(0)
                     [] v[1] = "boolean" -> Num(IF v[2] THEN 1 ELSE 0)
                     [] OTHER -> Error("invalid_number")

\* The element of a sequence a key names, if it is an index.
Element(s, key) == LET is == {i \in DOMAIN s : key = <<ToString(i - 1)>>}
                   IN  IF is = {} THEN <<>> ELSE <<s[CHOOSE i \in is : TRUE]>>
GetProperty(v, key, optional) ==
  CASE v[1] = "object" -> IF key \in DOMAIN v[2] THEN v[2][key] ELSE Undefined
    [] v[1] \in {"array", "string"} /\ key = <<"length">> -> Num(Len(v[2]))
    [] v[1] = "array" -> IF Element(v[2], key) = <<>> THEN Undefined ELSE Element(v[2], key)[1]
    [] v[1] = "string" -> IF Element(v[2], key) = <<>> THEN Undefined ELSE Str(Element(v[2], key))
    [] v = Skip -> Skip
    [] IsNullish(v) -> IF optional THEN Skip ELSE Error("null_access")
    [] OTHER -> Undefined

\* runtime_value_usage: all elements of a value at any depth.
RECURSIVE Elements(_)
Elements(v) ==
  LET parts == CASE v[1] = "array" -> v[2]
                 [] v[1] = "object" -> SetToSeq({<<k, v[2][k]>> : k \in DOMAIN v[2]})
                 [] OTHER -> <<>>
  IN  Len(parts) + FoldLeft(LAMBDA n, p : n + Elements(IF v[1] = "array" THEN p ELSE p[2]), 0, parts)

\* ensure_runtime_collection and the checks after literals and callbacks.
Bounded(v) == IF Elements(v) > MaxElements THEN Error("collection_limit") ELSE v

NormalizeAtIndex(i, len) == IF i < 0 THEN len + i ELSE i
NormalizeSliceIndex(i, len) ==
  IF i < 0 THEN (IF len + i < 0 THEN 0 ELSE len + i) ELSE IF i > len THEN len ELSE i

RECURSIVE Flatten(_, _)
Flatten(vs, depth) ==
  FoldLeft(LAMBDA out, v : out \o (IF depth > 0 /\ v[1] = "array" THEN Flatten(v[2], depth - 1) ELSE <<v>>),
           <<>>, vs)

\* The array methods that take no callback; arguments are numbers where they are indices.
ArrayMethod(vs, method, args) ==
  LET len == Len(vs)
      At(i, default) == IF i \in DOMAIN args THEN NormalizeSliceIndex(args[i][2], len) ELSE default
      where(v) == {i \in DOMAIN vs : StrictEqual(vs[i], v)}
  IN  CASE method = "at" ->
             LET i == NormalizeAtIndex(args[1][2], len) + 1
             IN  IF i \in DOMAIN vs THEN vs[i] ELSE Undefined
        [] method = "includes" -> Bool(\E i \in where(args[1]) : i > At(2, 0))
        [] method = "indexOf" -> Num(IF where(args[1]) = {} THEN -1 ELSE Min(where(args[1])) - 1)
        [] method = "lastIndexOf" -> Num(IF where(args[1]) = {} THEN -1 ELSE Max(where(args[1])) - 1)
        [] method = "slice" ->
             LET lo == At(1, 0)
                 hi == At(2, len)
             IN  Bounded(List(IF hi < lo THEN <<>> ELSE SubSeq(vs, lo + 1, hi)))
        [] method = "concat" ->
             Bounded(List(FoldLeft(LAMBDA out, a : out \o (IF a[1] = "array" THEN a[2] ELSE <<a>>), vs, args)))
        [] method = "flat" ->
             LET out == Flatten(vs, IF args = <<>> THEN 1 ELSE args[1][2])
             IN  IF Len(out) > MaxElements THEN Error("collection_limit") ELSE List(out)
        [] OTHER -> Error("unsupported_call")

-----------------------------------------------------------------------------
(* Methods of texts; arguments are numbers where they are positions *)

Clamp(i, len) == IF i < 0 THEN 0 ELSE IF i > len THEN len ELSE i
\* Where in a text another one starts, from 0.
Positions(t, needle) ==
  {i \in 0 .. Len(t) - Len(needle) : SubSeq(t, i + 1, i + Len(needle)) = needle}

TextSearch(t, method, args) ==
  LET needle == JsString(args[1])
      at == Positions(t, needle)
      from(default) == Clamp(IF Len(args) > 1 THEN args[2][2] ELSE default, Len(t))
  IN  CASE method = "includes" -> Bool(needle = <<>> \/ \E i \in at : i >= from(0))
        [] method = "startsWith" -> Bool(from(0) \in at)
        [] method = "endsWith" -> Bool(from(Len(t)) - Len(needle) \in at)
        [] method = "indexOf" -> Num(IF at = {} THEN -1 ELSE Min(at))
        [] method = "lastIndexOf" -> Num(IF at = {} THEN -1 ELSE Max(at))

\* Mutant: substring without the swap of its ends.
TextPartUnswapped(t, method, args) ==
  LET at(i, default) == IF i \in DOMAIN args THEN args[i][2] ELSE default
      lo == IF method = "slice" THEN NormalizeSliceIndex(at(1, 0), Len(t)) ELSE Clamp(at(1, 0), Len(t))
      hi == IF method = "slice" THEN NormalizeSliceIndex(at(2, Len(t)), Len(t)) ELSE Clamp(at(2, Len(t)), Len(t))
  IN  Str(SubSeq(t, lo + 1, hi))
TextPart(t, method, args) ==
  LET arg(i, default) == IF i \in DOMAIN args THEN args[i][2] ELSE default
      part(from, to) == Str(SubSeq(t, from + 1, to))
      index == IF method = "at" THEN NormalizeAtIndex(arg(1, 0), Len(t)) ELSE arg(1, 0)
      ends == <<arg(1, 0), arg(2, Len(t))>>
      clamped == [i \in 1 .. 2 |-> Clamp(ends[i], Len(t))]
  IN  CASE method \in {"at", "charAt"} -> Str(Element(t, <<ToString(index)>>))
        [] method = "slice" -> part(NormalizeSliceIndex(ends[1], Len(t)), NormalizeSliceIndex(ends[2], Len(t)))
        [] method = "substring" -> part(Min(ToSet(clamped)), Max(ToSet(clamped)))

Repeat(t, n) == [i \in 1 .. n * Len(t) |-> t[((i - 1) % Len(t)) + 1]]
Pad(t, method, args) ==
  LET fill == IF Len(args) > 1 THEN JsString(args[2]) ELSE <<" ">>
      needed == args[1][2] - Len(t)
  IN  IF needed <= 0 \/ fill = <<>> THEN Str(t)
      ELSE LET padding == SubSeq(Repeat(fill, needed), 1, needed)
           IN  Str(IF method = "padStart" THEN padding \o t ELSE t \o padding)

\* Pieces between separators that do not overlap, the first from the left.
RECURSIVE Pieces(_, _)
Pieces(t, separator) ==
  IF Positions(t, separator) = {} THEN <<t>>
  ELSE LET i == Min(Positions(t, separator))
       IN  <<SubSeq(t, 1, i)>> \o Pieces(SubSeq(t, i + Len(separator) + 1, Len(t)), separator)
Split(t, args) ==
  LET limit == Min({MaxElements} \cup (IF Len(args) > 1 THEN {args[2][2]} ELSE {}))
      parts == CASE args = <<>> \/ args[1] \in {Undefined, Skip} -> <<t>>
                 [] JsString(args[1]) = <<>> -> [i \in DOMAIN t |-> <<t[i]>>]
                 [] OTHER -> Pieces(t, JsString(args[1]))
      texts == [i \in DOMAIN parts |-> Str(parts[i])]
      \* The limit takes no part of the text that is not split.
      whole == args = <<>> \/ args[1] \in {Undefined, Skip}
  IN  List(IF limit = 0 THEN <<>> ELSE IF whole \/ Len(texts) <= limit THEN texts ELSE SubSeq(texts, 1, limit))

StringMethod(t, method, args) ==
  CASE method \in {"includes", "startsWith", "endsWith", "indexOf", "lastIndexOf"} ->
         TextSearch(t, method, args)
    [] method \in {"at", "charAt", "slice", "substring"} -> TextPart(t, method, args)
    [] method = "concat" -> Str(FoldLeft(LAMBDA out, a : out \o JsString(a), t, args))
    [] method = "repeat" -> Str(IF t = <<>> THEN <<>> ELSE Repeat(t, args[1][2]))
    [] method \in {"padStart", "padEnd"} -> Pad(t, method, args)
    [] method = "split" -> Split(t, args)
    \* replacen(.., 1): the first occurrence
    [] method = "replace" ->
         LET at == Positions(t, JsString(args[1]))
         IN  Str(IF at = {} THEN t
                 ELSE SubSeq(t, 1, Min(at)) \o args[2][2]
                      \o SubSeq(t, Min(at) + Len(JsString(args[1])) + 1, Len(t)))
    [] OTHER -> Error("unsupported_call")

-----------------------------------------------------------------------------
(* Functions of the built-in roots *)

CallMath(method, args) ==
  LET n == [i \in DOMAIN args |-> args[i][2]]
  IN  CASE \E i \in DOMAIN args : args[i][1] # "number" -> Error("type_mismatch")
        [] method = "abs" -> Num(IF n[1] < 0 THEN -n[1] ELSE n[1])
        [] method = "sign" -> Num(IF n[1] < 0 THEN -1 ELSE IF n[1] = 0 THEN 0 ELSE 1)
        [] method \in {"ceil", "floor", "round", "trunc"} -> Num(n[1])
        [] method = "min" -> Num(Min(ToSet(n)))
        [] method = "max" -> Num(Max(ToSet(n)))
        [] OTHER -> Error("unsupported_call")

\* enumerable_entries; the properties of an object stand in some order.
Entries(v) ==
  CASE v[1] = "object" -> SetToSeq({<<Str(k), v[2][k]>> : k \in DOMAIN v[2]})
    [] v[1] = "array" -> [i \in DOMAIN v[2] |-> <<Str(<<ToString(i - 1)>>), v[2][i]>>]
    [] v[1] = "string" -> [i \in DOMAIN v[2] |-> <<Str(<<ToString(i - 1)>>), Str(<<v[2][i]>>)>>]
    [] OTHER -> <<>>
HasProperty(v, key) ==
  CASE v[1] = "object" -> key \in DOMAIN v[2]
    [] v[1] \in {"array", "string"} -> key = <<"length">> \/ Element(v[2], key) # <<>>
    [] OTHER -> FALSE
ObjectStatic(method, args) ==
  LET es == Entries(args[1])
  IN  CASE method = "hasOwn" -> Bool(HasProperty(args[1], JsString(args[2])))
        [] IsNullish(args[1]) -> Error("type_mismatch")
        [] method = "keys" -> Bounded(List([i \in DOMAIN es |-> es[i][1]]))
        [] method = "values" -> Bounded(List([i \in DOMAIN es |-> es[i][2]]))
        [] method = "entries" -> Bounded(List([i \in DOMAIN es |-> List(es[i])]))
        [] OTHER -> Error("unsupported_call")

CallStatic(root, method, args) ==
  CASE root = "Math" -> CallMath(method, args)
    [] root = "Object" -> ObjectStatic(method, args)
    [] root = "Array" -> IF method = "isArray" THEN Bool(args[1][1] = "array") ELSE Error("unsupported_call")
    [] root = "Number" -> IF method \in {"isFinite", "isInteger"}
                          THEN Bool(args[1][1] = "number") ELSE Error("unsupported_call")

-----------------------------------------------------------------------------
(* Civil dates, as the days from the first of January 1970 *)

IsLeapYear(y) == y % 4 = 0 /\ (y % 100 # 0 \/ y % 400 = 0)
DaysIn(y, m) == CASE m \in {1, 3, 5, 7, 8, 10, 12} -> 31
                  [] m \in {4, 6, 9, 11} -> 30
                  [] OTHER -> IF IsLeapYear(y) THEN 29 ELSE 28
ValidateDate(y, m, d) == m \in 1 .. 12 /\ d \in 1 .. DaysIn(y, m)

\* A quotient rounds to zero, as in the code, where TLA+ rounds down.
Quotient(a, b) == IF a < 0 THEN -((-a) \div b) ELSE a \div b
DaysOfEra(y, m, d, era) ==
  LET ofEra == y - era * 400
      ofYear == Quotient(153 * (m + (IF m > 2 THEN -3 ELSE 9)) + 2, 5) + d - 1
  IN  era * 146097 + ofEra * 365 + Quotient(ofEra, 4) - Quotient(ofEra, 100) + ofYear - 719468
\* Mutant: eras before the year 0 are not rounded down.
DaysFromCivilPlain(y, m, d) ==
  LET year == IF m <= 2 THEN y - 1 ELSE y
  IN  DaysOfEra(year, m, d, Quotient(year, 400))
DaysFromCivil(y, m, d) ==
  LET year == IF m <= 2 THEN y - 1 ELSE y
  IN  DaysOfEra(year, m, d, Quotient(IF year >= 0 THEN year ELSE year - 399, 400))

\* Date.UTC, in days: two digits are a year of the last century, and months and days
\* beyond their range carry over. Months count from 0.
DateUtc(y, month, day) ==
  LET year == (IF y \in 0 .. 99 THEN y + 1900 ELSE y) + month \div 12
  IN  DaysFromCivil(year, (month % 12) + 1, 1) + day - 1

-----------------------------------------------------------------------------
(* What these functions promise; the runs check it on bounded inputs *)

\* The methods of texts agree with one another: searches with positions, both ways to
\* cut with each other, splitting with joining, padding with lengths.
TextMethodsAgree(t, needle, i, j) ==
  LET call(method, args) == StringMethod(t, method, args)
      n == Str(needle)
      part(a, b) == call("slice", <<Num(a), Num(b)>>)[2]
      pieces == Split(t, <<n>>)[2]
  IN  /\ call("includes", <<n>>) = Bool(call("indexOf", <<n>>)[2] >= 0)
      /\ i \in 0 .. Len(t) =>
           /\ call("includes", <<n, Num(i)>>) = StringMethod(part(i, Len(t)), "includes", <<n>>)
           /\ call("startsWith", <<n, Num(i)>>) = StringMethod(part(i, Len(t)), "startsWith", <<n>>)
           /\ call("endsWith", <<n, Num(i)>>) = StringMethod(part(0, i), "endsWith", <<n>>)
           /\ part(0, i) \o part(i, Len(t)) = t
      /\ i < 0 => part(0, i) \o part(i, Len(t)) = t
      /\ i >= 0 /\ j >= 0 =>
           /\ call("substring", <<Num(i), Num(j)>>) = call("substring", <<Num(j), Num(i)>>)
           /\ i <= j => call("substring", <<Num(i), Num(j)>>)[2] = part(i, j)
      /\ needle # <<>> /\ Len(pieces) < MaxElements =>
           t = FoldLeft(LAMBDA out, k : out \o (IF k > 1 THEN needle ELSE <<>>) \o pieces[k][2],
                        <<>>, [k \in DOMAIN pieces |-> k])
      /\ i >= 0 => /\ Len(call("padStart", <<Num(i), n>>)[2])
                         = (IF needle = <<>> \/ i < Len(t) THEN Len(t) ELSE i)
                   /\ Len(call("repeat", <<Num(i)>>)[2]) = i * Len(t)

\* The day after a day has the next number, over the ends of months, leap years and
\* centuries, before and after the year 0; Date.UTC counts the same days.
DayAfterDay(y, m, d) ==
  LET next == CASE d < DaysIn(y, m) -> <<y, m, d + 1>>
                [] m < 12 -> <<y, m + 1, 1>>
                [] OTHER -> <<y + 1, 1, 1>>
  IN  /\ DaysFromCivil(next[1], next[2], next[3]) = DaysFromCivil(y, m, d) + 1
      /\ y \notin 0 .. 99 => DateUtc(y, m - 1, d) = DaysFromCivil(y, m, d)
      /\ y \notin -1 .. 99 => DateUtc(y + 1, m - 13, d) = DaysFromCivil(y, m, d)
=============================================================================
