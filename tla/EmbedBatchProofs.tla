-------------------------- MODULE EmbedBatchProofs --------------------------
(***************************************************************************)
(* Every chunk gets the vector of its own text: proofs about EmbedBatch    *)
(* for any files, texts, token counts, limits and number of calls.         *)
(*                                                                         *)
(* Chunks are cut into batches, batches into inputs, inputs into requests, *)
(* refused inputs into halves, and answers come in any order.  One notion  *)
(* carries the argument: a sequence of pieces cuts a sequence from one     *)
(* place to another.  Cutting by a length, packing and halving all give    *)
(* such pieces, and taking the head of them leaves pieces that go on from  *)
(* where it ended.  A batch then has, at any time, vectors of its first    *)
(* texts and pieces of the rest.                                           *)
(***************************************************************************)
EXTENDS EmbedBatch, Induction, SequenceTheorems, FunctionTheorems, FiniteSetTheorems

-----------------------------------------------------------------------------
(* Sequences *)

\* What FlattenSeq chooses a function by.
Flattening(ss, f) == f = [i \in 1 .. Len(ss) |-> IF i = 1 THEN ss[i] ELSE f[i - 1] \o ss[i]]

\* There is a function as FlattenSeq chooses one: a choice alone would say nothing.
LEMMA FlattenExists ==
  ASSUME NEW T, NEW ss \in Seq(Seq(T)), ss # <<>>
  PROVE  \E f : Flattening(ss, f)
<1> DEFINE V == Seq(T)
           F == [p \in Nat \X V |-> IF p[1] + 2 \in 1 .. Len(ss) THEN p[2] \o ss[p[1] + 2] ELSE p[2]]
<1>1. ASSUME NEW n \in Nat, NEW x \in V
      PROVE  F[<<n, x>>] = IF n + 2 \in 1 .. Len(ss) THEN x \o ss[n + 2] ELSE x
  OBVIOUS
<1>2. F \in [Nat \X V -> V] /\ ss[1] \in V
  <2>1. ASSUME NEW p \in Nat \X V PROVE (IF p[1] + 2 \in 1 .. Len(ss) THEN p[2] \o ss[p[1] + 2] ELSE p[2]) \in V
    OBVIOUS
  <2> QED BY <2>1
<1> HIDE DEF V, F
<1>3. PICK g : Iterates(g, V, ss[1], F)
  BY <1>2, NatRecursion
<1>31. g[0] = ss[1] /\ (\A n \in Nat : g[n] \in V) /\ \A n \in Nat : g[n + 1] = F[<<n, g[n]>>]
  BY <1>3 DEF Iterates
<1>4. ASSUME NEW i \in 1 .. Len(ss), i # 1 PROVE g[i - 1] = g[(i - 1) - 1] \o ss[i]
  <2>1. i - 2 \in Nat /\ (i - 2) + 1 = i - 1 /\ (i - 2) + 2 = i /\ (i - 1) - 1 = i - 2
    BY <1>4
  <2> QED BY <1>1, <1>31, <2>1
<1> DEFINE f == [i \in 1 .. Len(ss) |-> g[i - 1]]
<1>5. Flattening(ss, f)
  <2>1. ASSUME NEW i \in 1 .. Len(ss) PROVE i # 1 => i - 1 \in 1 .. Len(ss) /\ f[i - 1] = g[(i - 1) - 1]
    OBVIOUS
  <2>2. ASSUME NEW i \in 1 .. Len(ss) PROVE g[i - 1] = IF i = 1 THEN ss[i] ELSE f[i - 1] \o ss[i]
    <3> HIDE DEF f
    <3>1. CASE i = 1
      <4>1. i - 1 = 0
        BY <3>1
      <4> QED BY <1>31, <3>1, <4>1
    <3>2. CASE i # 1
      BY <1>4, <2>1, <3>2
    <3> QED BY <3>1, <3>2
  <2>3. f = [i \in 1 .. Len(ss) |-> IF i = 1 THEN ss[i] ELSE f[i - 1] \o ss[i]]
    <3> DEFINE r == [i \in 1 .. Len(ss) |-> IF i = 1 THEN ss[i] ELSE f[i - 1] \o ss[i]]
    <3>1. f = [i \in 1 .. Len(ss) |-> f[i]] /\ r = [i \in 1 .. Len(ss) |-> r[i]]
      OBVIOUS
    <3>2. ASSUME NEW i \in 1 .. Len(ss) PROVE f[i] = r[i]
      BY <2>2
    <3> HIDE DEF f, r
    <3>3. f = r
      BY <3>1, <3>2
    <3> QED BY <3>3 DEF r
  <2> HIDE DEF f
  <2> QED BY <2>3 DEF Flattening
<1> QED BY <1>5

\* Flattened sequences are sequences, of the elements of those that were flattened.
LEMMA Flattened ==
  ASSUME NEW T, NEW ss \in Seq(Seq(T))
  PROVE  /\ FlattenSeq(ss) \in Seq(T)
         /\ ToSet(FlattenSeq(ss)) = UNION {ToSet(ss[i]) : i \in 1 .. Len(ss)}
<1>1. CASE Len(ss) = 0
  BY <1>1 DEF FlattenSeq, ToSet
<1>2. CASE Len(ss) # 0
  <2> DEFINE flatten == CHOOSE f : Flattening(ss, f)
  <2>1. Flattening(ss, flatten)
    BY <1>2, FlattenExists
  <2>2. FlattenSeq(ss) = flatten[Len(ss)]
    BY <1>2 DEF FlattenSeq, Flattening
  <2> HIDE DEF flatten
  <2>3. flatten[1] = ss[1] /\ \A i \in 2 .. Len(ss) : flatten[i] = flatten[i - 1] \o ss[i]
    <3> DEFINE rhs == [i \in 1 .. Len(ss) |-> IF i = 1 THEN ss[i] ELSE flatten[i - 1] \o ss[i]]
    <3>1. ASSUME NEW i \in 1 .. Len(ss) PROVE rhs[i] = IF i = 1 THEN ss[i] ELSE flatten[i - 1] \o ss[i]
      OBVIOUS
    <3>2. flatten = rhs
      BY <2>1 DEF Flattening
    <3>3. ASSUME NEW i \in 2 .. Len(ss) PROVE i \in 1 .. Len(ss) /\ i # 1
      OBVIOUS
    <3> HIDE DEF rhs
    <3>4. 1 \in 1 .. Len(ss)
      BY <1>2
    <3>5. flatten[1] = ss[1]
      BY <3>1, <3>2, <3>4
    <3>6. ASSUME NEW i \in 2 .. Len(ss) PROVE flatten[i] = flatten[i - 1] \o ss[i]
      BY <3>1, <3>2, <3>3
    <3> QED BY <3>5, <3>6
  <2> DEFINE Elements(n) == UNION {ToSet(ss[i]) : i \in 1 .. n}
             Good(n) == flatten[n] \in Seq(T) /\ ToSet(flatten[n]) = Elements(n)
             S == {n \in Nat : n + 1 <= Len(ss) => Good(n + 1)}
  <2>4. Good(1)
    BY <1>2, <2>3
  <2>5. ASSUME NEW n \in Nat, n + 2 <= Len(ss), Good(n + 1) PROVE Good(n + 2)
    <3>1. n + 2 \in 2 .. Len(ss) /\ (n + 2) - 1 = n + 1 /\ ss[n + 2] \in Seq(T)
      <4> HIDE DEF Good
      <4> QED BY <2>5
    <3>2. flatten[n + 2] = flatten[n + 1] \o ss[n + 2]
      <4> HIDE DEF Good
      <4> QED BY <2>3, <3>1
    <3>3. flatten[n + 2] \in Seq(T) /\ ToSet(flatten[n + 2]) = Elements(n + 1) \cup ToSet(ss[n + 2])
      <4> HIDE DEF Elements
      <4> QED BY <2>5, <3>1, <3>2, ConcatElements
    <3>4. Elements(n + 2) = Elements(n + 1) \cup ToSet(ss[n + 2])
      <4>1. 1 .. n + 2 = (1 .. n + 1) \cup {n + 2}
        OBVIOUS
      <4> QED BY <4>1
    <3> HIDE DEF Elements
    <3> QED BY <3>3, <3>4
  <2> HIDE DEF Good
  <2>6. 0 \in S
    BY <2>4
  <2>7. ASSUME NEW n \in Nat, n \in S PROVE n + 1 \in S
    <3>1. (n + 1) + 1 = n + 2 /\ (n + 2 <= Len(ss) => n + 1 <= Len(ss))
      OBVIOUS
    <3> QED BY <2>5, <2>7, <3>1
  <2>8. Len(ss) - 1 \in S
    <3> HIDE DEF S
    <3>1. Nat \subseteq S
      BY <2>6, <2>7, NatSetInduction
    <3> QED BY <1>2, <3>1
  <2>9. Good(Len(ss))
    <3>1. (Len(ss) - 1) + 1 = Len(ss)
      OBVIOUS
    <3> QED BY <2>8, <3>1
  <2> QED BY <2>2, <2>9 DEF Good
<1> QED BY <1>1, <1>2

\* Two in a row.
LEMMA PairIsConcat ==
  ASSUME NEW T, NEW x \in T, NEW y \in T
  PROVE  <<x, y>> = <<x>> \o <<y>>
<1>1. <<x, y>> \in Seq(T) /\ Len(<<x, y>>) = 2 /\ <<x, y>>[1] = x /\ <<x, y>>[2] = y
  OBVIOUS
<1>2. <<x>> \o <<y>> \in Seq(T) /\ Len(<<x>> \o <<y>>) = 2 /\ (<<x>> \o <<y>>)[1] = x /\ (<<x>> \o <<y>>)[2] = y
  OBVIOUS
<1>3. \A i \in 1 .. 2 : i = 1 \/ i = 2
  OBVIOUS
<1> QED BY <1>1, <1>2, <1>3, SeqEqual

\* The elements of a piece, and a piece of a piece.
LEMMA PieceElements ==
  ASSUME NEW T, NEW s \in Seq(T), NEW a \in Nat, NEW b \in Nat, a <= b, b <= Len(s)
  PROVE  /\ SubSeq(s, a + 1, b) \in Seq(T) /\ Len(SubSeq(s, a + 1, b)) = b - a
         /\ \A i \in 1 .. b - a : SubSeq(s, a + 1, b)[i] = s[i + a]
<1>1. \A i \in a + 1 .. b : s[i] \in T
  OBVIOUS
<1>2. SubSeq(s, a + 1, b) \in Seq(T) /\ Len(SubSeq(s, a + 1, b)) = b - a
  BY <1>1, SubSeqProperties
<1>3. ASSUME NEW i \in 1 .. b - a PROVE SubSeq(s, a + 1, b)[i] = s[i + a]
  OBVIOUS
<1> QED BY <1>2, <1>3

\* A piece of a piece of a sequence is a piece of it.
LEMMA PieceOfPiece ==
  ASSUME NEW T, NEW s \in Seq(T), NEW k \in Nat, NEW n \in Nat, k + n <= Len(s),
         NEW h, h = SubSeq(s, k + 1, k + n), NEW d \in Nat, NEW e \in Nat, d <= e, e <= n
  PROVE  SubSeq(h, d + 1, e) = SubSeq(s, k + d + 1, k + e)
<1>0. k + n \in Nat /\ k <= k + n /\ (k + n) - k = n
  OBVIOUS
<1>1. h \in Seq(T) /\ Len(h) = n /\ \A i \in 1 .. n : h[i] = s[i + k]
  BY <1>0, PieceElements
<1>2. /\ SubSeq(h, d + 1, e) \in Seq(T) /\ Len(SubSeq(h, d + 1, e)) = e - d
      /\ \A i \in 1 .. e - d : SubSeq(h, d + 1, e)[i] = h[i + d]
  <2>1. h \in Seq(T) /\ e <= Len(h)
    BY <1>1
  <2> QED BY ONLY <2>1, d \in Nat, e \in Nat, d <= e, PieceElements
<1>3. /\ SubSeq(s, k + d + 1, k + e) \in Seq(T) /\ Len(SubSeq(s, k + d + 1, k + e)) = e - d
      /\ \A i \in 1 .. e - d : SubSeq(s, k + d + 1, k + e)[i] = s[i + (k + d)]
  <2>1. k + d \in Nat /\ k + e \in Nat /\ k + d <= k + e /\ k + e <= Len(s) /\ (k + e) - (k + d) = e - d
    OBVIOUS
  <2> QED BY <2>1, PieceElements
<1>4. ASSUME NEW i \in 1 .. e - d PROVE SubSeq(h, d + 1, e)[i] = SubSeq(s, k + d + 1, k + e)[i]
  <2>1. i + d \in 1 .. n /\ (i + d) + k = i + (k + d)
    OBVIOUS
  <2>2. SubSeq(h, d + 1, e)[i] = h[i + d] /\ SubSeq(s, k + d + 1, k + e)[i] = s[i + (k + d)] /\ h[i + d] = s[(i + d) + k]
    BY <1>1, <1>2, <1>3, <2>1
  <2> QED BY <2>1, <2>2
<1>5. \A u, v \in Seq(T) : Len(u) = e - d /\ Len(v) = e - d /\ (\A i \in 1 .. e - d : u[i] = v[i]) => u = v
  OBVIOUS
<1> QED BY <1>2, <1>3, <1>4, <1>5

\* An order of a finite set has all its elements.
LEMMA OrderElements ==
  ASSUME NEW S, IsFiniteSet(S), NEW order \in SetToSeqs(S)
  PROVE  order \in [1 .. Cardinality(S) -> S] /\ {order[i] : i \in 1 .. Cardinality(S)} = S
<1> DEFINE n == Cardinality(S)
<1>1. n \in Nat
  BY FS_CardinalityType
<1>2. order \in [1 .. n -> S] /\ \A i, j \in 1 .. n : i # j => order[i] # order[j]
  BY DEF SetToSeqs
<1>3. order \in Injection(1 .. n, S)
  BY <1>2 DEF Injection, IsInjective
<1>4. Cardinality(1 .. n) = n
  BY <1>1, FS_Interval
<1> HIDE DEF n
<1>5. order \in Surjection(1 .. n, S)
  BY <1>3, <1>4, FS_Injection DEF n
<1> QED BY <1>2, <1>5 DEF Surjection, n

-----------------------------------------------------------------------------
(* Cuts of a sequence *)

\* Products grow with a factor.
LEMMA MulMonotone == ASSUME NEW n \in Nat, NEW a \in Nat, NEW b \in Nat, a <= b PROVE n * a <= n * b /\ n * a \in Nat
  OBVIOUS

\* A quotient, times the divisor, is less than the divisor below the dividend.
LEMMA DivBounds ==
  ASSUME NEW a \in Nat, NEW n \in Nat \ {0}
  PROVE  /\ a \div n \in Nat
         /\ n * (a \div n) <= a /\ a < n * (a \div n) + n
  OBVIOUS

\* The number of pieces of length n of a sequence of length l.
LEMMA Ceiling ==
  ASSUME NEW l \in Nat, NEW n \in Nat \ {0}
  PROVE  LET q == (l + n - 1) \div n IN
         /\ q \in Nat /\ (l = 0 <=> q = 0)
         /\ l <= n * q
         /\ \A i \in 1 .. q : n * (i - 1) < l
<1> DEFINE q == (l + n - 1) \div n
<1>0. l + n - 1 \in Nat
  OBVIOUS
<1>1. q \in Nat /\ n * q <= l + n - 1 /\ l + n - 1 < n * q + n
  BY <1>0, DivBounds
<1> HIDE DEF q
<1>2. l <= n * q
  BY <1>1
<1>3. l = 0 => q = 0
  BY <1>1
<1>4. ASSUME NEW i \in 1 .. q PROVE n * (i - 1) < l
  <2>1. n * i <= n * q
    BY <1>1, MulMonotone
  <2>2. n * i = n * (i - 1) + n
    OBVIOUS
  <2> QED BY <1>1, <2>1, <2>2
<1>5. q = 0 => l = 0
  BY <1>2
<1>6. /\ q \in Nat /\ (l = 0 <=> q = 0)
      /\ l <= n * q
      /\ \A i \in 1 .. q : n * (i - 1) < l
  BY <1>1, <1>2, <1>3, <1>4, <1>5
<1> QED BY <1>6 DEF q

\* The pieces are s from after k up to m, cut at rising places: none is empty.
Cuts(pieces, s, k, m) ==
  \E off \in [0 .. Len(pieces) -> 0 .. Len(s)] :
    /\ off[0] = k /\ off[Len(pieces)] = m
    /\ \A i \in 1 .. Len(pieces) :
         off[i - 1] < off[i] /\ pieces[i] = SubSeq(s, off[i - 1] + 1, off[i])

\* slice::chunks cuts a sequence.
LEMMA PiecesCut ==
  ASSUME NEW T, NEW s \in Seq(T), NEW n \in Nat \ {0}
  PROVE  /\ Pieces(s, n) \in Seq(Seq(T)) /\ (Pieces(s, n) = <<>> <=> s = <<>>)
         /\ Cuts(Pieces(s, n), s, 0, Len(s))
<1> DEFINE l == Len(s)
           q == (l + n - 1) \div n
           off == [i \in 0 .. q |-> Fewer(n * i, l)]
<1>1. l \in Nat /\ q \in Nat /\ (l = 0 <=> q = 0) /\ l <= n * q /\ \A i \in 1 .. q : n * (i - 1) < l
  <2>1. l \in Nat
    OBVIOUS
  <2> HIDE DEF l
  <2> QED BY <2>1, Ceiling
<1>2. Pieces(s, n) = [i \in 1 .. q |-> SubSeq(s, n * (i - 1) + 1, Fewer(n * i, l))]
  BY DEF Pieces
<1>3. ASSUME NEW i \in 1 .. q PROVE n * i \in Nat /\ n * (i - 1) \in Nat /\ n * i = n * (i - 1) + n
  OBVIOUS
<1> HIDE DEF q
<1>4. ASSUME NEW i \in 1 .. q
      PROVE  /\ SubSeq(s, n * (i - 1) + 1, Fewer(n * i, l)) \in Seq(T)
             /\ off[i - 1] = n * (i - 1) /\ off[i] = Fewer(n * i, l) /\ off[i - 1] < off[i]
  <2>1. i - 1 \in 0 .. q /\ i \in 0 .. q /\ n * (i - 1) < l
    BY <1>1
  <2>2. off[i - 1] = n * (i - 1) /\ off[i] = Fewer(n * i, l) /\ off[i - 1] < off[i]
    BY <1>1, <1>3, <2>1 DEF Fewer
  <2>3. Fewer(n * i, l) \in 0 .. l
    BY <1>1, <1>3 DEF Fewer
  <2>4. \A a, b \in Nat : b <= Len(s) => SubSeq(s, a + 1, b) \in Seq(T)
    OBVIOUS
  <2> QED BY <1>3, <2>2, <2>3, <2>4
<1>5. Len(Pieces(s, n)) = q /\ Pieces(s, n) \in Seq(Seq(T))
  <2> HIDE DEF off, l
  <2>1. Pieces(s, n) \in [1 .. q -> Seq(T)]
    BY <1>2, <1>4
  <2> QED BY <1>1, <2>1
<1>6. off[0] = 0 /\ off[q] = l /\ off \in [0 .. q -> 0 .. l]
  <2>1. ASSUME NEW i \in 0 .. q PROVE Fewer(n * i, l) \in 0 .. l
    BY <1>1 DEF Fewer
  <2>2. n * 0 = 0 /\ Fewer(0, l) = 0 /\ Fewer(n * q, l) = l
    BY <1>1 DEF Fewer
  <2> QED BY <1>1, <2>1, <2>2
<1>7. Cuts(Pieces(s, n), s, 0, Len(s))
  <2> HIDE DEF off
  <2>1. \A i \in 1 .. q : off[i - 1] < off[i] /\ Pieces(s, n)[i] = SubSeq(s, off[i - 1] + 1, off[i])
    BY <1>2, <1>4
  <2> QED BY <1>5, <1>6, <2>1 DEF Cuts
<1>8. Pieces(s, n) = <<>> <=> s = <<>>
  BY <1>1, <1>5
<1> QED BY <1>5, <1>7, <1>8

\* The first piece, and the others.
LEMMA CutHead ==
  ASSUME NEW T, NEW s \in Seq(T), NEW pieces \in Seq(Seq(T)), NEW k, NEW m,
         Cuts(pieces, s, k, m), pieces # <<>>
  PROVE  LET e == k + Len(Head(pieces)) IN
         /\ k \in Nat /\ Head(pieces) \in Seq(T) /\ Head(pieces) # <<>> /\ e \in 0 .. Len(s)
         /\ Head(pieces) = SubSeq(s, k + 1, e)
         /\ Tail(pieces) \in Seq(Seq(T)) /\ Cuts(Tail(pieces), s, e, m)
<1> DEFINE e == k + Len(Head(pieces))
<1>1. PICK off \in [0 .. Len(pieces) -> 0 .. Len(s)] :
        /\ off[0] = k /\ off[Len(pieces)] = m
        /\ \A i \in 1 .. Len(pieces) :
             off[i - 1] < off[i] /\ pieces[i] = SubSeq(s, off[i - 1] + 1, off[i])
  BY DEF Cuts
<1>2. /\ Len(pieces) \in Nat \ {0} /\ Head(pieces) = pieces[1] /\ Head(pieces) \in Seq(T)
      /\ Tail(pieces) \in Seq(Seq(T)) /\ Len(Tail(pieces)) = Len(pieces) - 1
      /\ \A i \in 1 .. Len(pieces) - 1 : Tail(pieces)[i] = pieces[i + 1]
  OBVIOUS
<1>3. k \in Nat /\ off[1] \in 0 .. Len(s) /\ k < off[1] /\ Head(pieces) = SubSeq(s, k + 1, off[1])
  <2>1. 1 \in 1 .. Len(pieces) /\ 0 \in 0 .. Len(pieces) /\ 1 \in 0 .. Len(pieces) /\ 1 - 1 = 0
    BY <1>2
  <2>2. off[0] \in 0 .. Len(s) /\ off[1] \in 0 .. Len(s)
    BY <1>1, <2>1
  <2>3. off[1 - 1] < off[1] /\ pieces[1] = SubSeq(s, off[1 - 1] + 1, off[1])
    BY <1>1, <2>1
  <2> QED BY <1>1, <1>2, <2>1, <2>2, <2>3
<1>4. Len(Head(pieces)) = off[1] - k /\ e = off[1]
  <2>1. \A o \in 0 .. Len(s) : k < o => Len(SubSeq(s, k + 1, o)) = o - k
    BY <1>3
  <2>2. Len(SubSeq(s, k + 1, off[1])) = off[1] - k
    BY <1>3, <2>1
  <2>3. Len(Head(pieces)) = off[1] - k
    BY <1>3, <2>2
  <2>4. off[1] \in Nat
    BY <1>3
  <2> HIDE DEF e
  <2>5. k + (off[1] - k) = off[1]
    BY <1>3, <2>4
  <2> QED BY <2>3, <2>5 DEF e
<1> HIDE DEF e
<1> DEFINE rest == [i \in 0 .. Len(pieces) - 1 |-> off[i + 1]]
<1>5. Cuts(Tail(pieces), s, e, m)
  <2>1. rest \in [0 .. Len(Tail(pieces)) -> 0 .. Len(s)]
    BY <1>1, <1>2
  <2>2. rest[0] = e /\ rest[Len(Tail(pieces))] = m
    BY <1>1, <1>2, <1>4
  <2>3. ASSUME NEW i \in 1 .. Len(Tail(pieces))
        PROVE  rest[i - 1] < rest[i] /\ Tail(pieces)[i] = SubSeq(s, rest[i - 1] + 1, rest[i])
    <3>1. i + 1 \in 1 .. Len(pieces) /\ rest[i] = off[i + 1] /\ rest[i - 1] = off[(i + 1) - 1] /\ Tail(pieces)[i] = pieces[i + 1]
      BY <1>2
    <3> HIDE DEF rest
    <3> QED BY <1>1, <3>1
  <2> HIDE DEF rest
  <2> QED BY <2>1, <2>2, <2>3 DEF Cuts
<1>6. Len(Head(pieces)) # 0 
  BY <1>3, <1>4
<1> QED BY <1>2, <1>3, <1>4, <1>5, <1>6 DEF e

\* A piece more in front.
LEMMA CutCons ==
  ASSUME NEW T, NEW s \in Seq(T), NEW pieces \in Seq(Seq(T)), NEW k \in Nat, NEW e \in Nat, NEW m,
         Cuts(pieces, s, e, m), k < e
  PROVE  Cuts(<<SubSeq(s, k + 1, e)>> \o pieces, s, k, m)
<1> DEFINE longer == <<SubSeq(s, k + 1, e)>> \o pieces
<1>1. PICK off \in [0 .. Len(pieces) -> 0 .. Len(s)] :
        /\ off[0] = e /\ off[Len(pieces)] = m
        /\ \A i \in 1 .. Len(pieces) :
             off[i - 1] < off[i] /\ pieces[i] = SubSeq(s, off[i - 1] + 1, off[i])
  BY DEF Cuts
<1>2. Len(s) \in Nat /\ e <= Len(s) /\ k <= Len(s)
  BY <1>1
<1>3. /\ Len(longer) = Len(pieces) + 1 /\ longer[1] = SubSeq(s, k + 1, e)
      /\ \A i \in 2 .. Len(pieces) + 1 : longer[i] = pieces[i - 1]
  <2>1. SubSeq(s, k + 1, e) \in Seq(T)
    BY <1>2
  <2> DEFINE p == SubSeq(s, k + 1, e)
  <2> HIDE DEF p
  <2>2. p \in Seq(T)
    BY <2>1 DEF p
  <2>3. Len(<<p>> \o pieces) = Len(pieces) + 1 /\ (<<p>> \o pieces)[1] = p
        /\ \A i \in 2 .. Len(pieces) + 1 : (<<p>> \o pieces)[i] = pieces[i - 1]
    BY <2>2
  <2> QED BY <2>3 DEF p
<1> HIDE DEF longer
<1> DEFINE more == [i \in 0 .. Len(pieces) + 1 |-> IF i = 0 THEN k ELSE off[i - 1]]
<1>4. more \in [0 .. Len(longer) -> 0 .. Len(s)] /\ more[0] = k /\ more[Len(longer)] = m
  BY <1>1, <1>2, <1>3
<1>5. ASSUME NEW i \in 1 .. Len(longer)
      PROVE  more[i - 1] < more[i] /\ longer[i] = SubSeq(s, more[i - 1] + 1, more[i])
  <2>1. CASE i = 1
    BY <1>1, <1>3, <2>1
  <2>2. CASE i # 1
    <3>1. i - 1 \in 1 .. Len(pieces) /\ more[i] = off[i - 1] /\ more[i - 1] = off[(i - 1) - 1] /\ longer[i] = pieces[i - 1]
      BY <1>3, <2>2
    <3> HIDE DEF more
    <3> QED BY <1>1, <3>1
  <2> QED BY <2>1, <2>2
<1>6. Cuts(longer, s, k, m)
  <2> HIDE DEF more
  <2> QED BY <1>4, <1>5 DEF Cuts
<1> QED BY <1>6 DEF longer

\* What is cut has the elements of its pieces.
LEMMA CutElements ==
  ASSUME NEW T, NEW s \in Seq(T), NEW pieces \in Seq(Seq(T)), Cuts(pieces, s, 0, Len(s))
  PROVE  ToSet(s) = UNION {ToSet(pieces[i]) : i \in 1 .. Len(pieces)}
<1> DEFINE l == Len(pieces)
<1>1. PICK off \in [0 .. l -> 0 .. Len(s)] :
        /\ off[0] = 0 /\ off[l] = Len(s)
        /\ \A i \in 1 .. l : off[i - 1] < off[i] /\ pieces[i] = SubSeq(s, off[i - 1] + 1, off[i])
  BY DEF Cuts
<1>2. l \in Nat /\ Len(s) \in Nat
  OBVIOUS
<1> HIDE DEF l
<1>3. ASSUME NEW i \in 1 .. l
      PROVE  /\ off[i - 1] \in Nat /\ off[i] \in Nat /\ off[i - 1] < off[i] /\ off[i] <= Len(s)
             /\ Len(pieces[i]) = off[i] - off[i - 1]
             /\ \A j \in 1 .. off[i] - off[i - 1] : pieces[i][j] = s[j + off[i - 1]]
  <2>1. off[i - 1] \in 0 .. Len(s) /\ off[i] \in 0 .. Len(s) /\ off[i - 1] < off[i] /\ pieces[i] = SubSeq(s, off[i - 1] + 1, off[i])
    <3>1. i - 1 \in 0 .. l /\ i \in 0 .. l
      BY <1>2
    <3> QED BY <1>1, <3>1
  <2>2. off[i - 1] \in Nat /\ off[i] \in Nat /\ off[i - 1] <= off[i] /\ off[i] <= Len(s)
    BY <2>1
  <2> DEFINE a == off[i - 1]
             b == off[i]
  <2>3. /\ Len(SubSeq(s, a + 1, b)) = b - a
        /\ \A j \in 1 .. b - a : SubSeq(s, a + 1, b)[j] = s[j + a]
    <3> HIDE DEF a, b
    <3> SUFFICES a \in Nat /\ b \in Nat /\ a <= b /\ b <= Len(s)
      BY PieceElements
    <3> QED BY <2>2 DEF a, b
  <2>4. pieces[i] = SubSeq(s, a + 1, b)
    BY <2>1
  <2>5. a \in Nat /\ b \in Nat /\ a < b /\ b <= Len(s)
    BY <2>1, <2>2
  <2> HIDE DEF a, b
  <2>6. /\ Len(pieces[i]) = b - a
        /\ \A j \in 1 .. b - a : pieces[i][j] = s[j + a]
    BY ONLY <2>3, <2>4
  <2> QED BY <2>5, <2>6 DEF a, b
<1>4. ASSUME NEW i \in 1 .. l PROVE ToSet(pieces[i]) \subseteq ToSet(s)
  <2> SUFFICES ASSUME NEW j \in 1 .. off[i] - off[i - 1] PROVE pieces[i][j] \in ToSet(s)
    <3>1. DOMAIN pieces[i] = 1 .. Len(pieces[i])
      BY DEF l
    <3> QED BY <1>3, <3>1 DEF ToSet
  <2>1. j + off[i - 1] \in 1 .. Len(s)
    BY <1>3
  <2>2. pieces[i][j] = s[j + off[i - 1]]
    BY <1>3
  <2>3. DOMAIN s = 1 .. Len(s)
    OBVIOUS
  <2> QED BY <2>1, <2>2, <2>3 DEF ToSet
<1>5. ASSUME NEW j \in 1 .. Len(s) PROVE \E i \in 1 .. l : s[j] \in ToSet(pieces[i])
  <2> DEFINE After == {i \in 0 .. l : off[i] >= j}
  <2>1. l \in After /\ After \subseteq Nat
    BY <1>1, <1>2
  <2>2. PICK i \in After : \A k \in After : ~(k < i)
    <3> HIDE DEF After
    <3> QED BY <2>1, Least
  <2>3. i \in 1 .. l /\ i - 1 \in 0 .. l /\ i - 1 \notin After
    BY <1>1, <1>2, <2>2
  <2>4. off[i] >= j /\ off[i - 1] < j
    <3>1. off[i - 1] \in Nat
      BY <1>3, <2>3
    <3> QED BY <2>2, <2>3, <3>1
  <2>5. j - off[i - 1] \in 1 .. off[i] - off[i - 1] /\ (j - off[i - 1]) + off[i - 1] = j
    BY <1>3, <2>3, <2>4
  <2>6. pieces[i][j - off[i - 1]] = s[j] /\ j - off[i - 1] \in 1 .. Len(pieces[i])
    BY <1>3, <2>3, <2>5
  <2>7. DOMAIN pieces[i] = 1 .. Len(pieces[i])
    BY <2>3 DEF l
  <2> QED BY <2>3, <2>6, <2>7 DEF ToSet
<1>6. DOMAIN s = 1 .. Len(s)
  OBVIOUS
<1>7. ASSUME NEW x \in ToSet(s) PROVE x \in UNION {ToSet(pieces[i]) : i \in 1 .. l}
  <2>1. PICK j \in 1 .. Len(s) : x = s[j]
    BY <1>6, <1>7 DEF ToSet
  <2>2. PICK i \in 1 .. l : x \in ToSet(pieces[i])
    BY <1>5, <2>1
  <2> QED BY <2>2
<1>8. UNION {ToSet(pieces[i]) : i \in 1 .. l} \subseteq ToSet(s)
  BY <1>4
<1> QED BY <1>7, <1>8 DEF l

-----------------------------------------------------------------------------
(* Requests *)

\* One input more in the requests: it is in the last of them or in one of its own.
LEMMA PackedCut ==
  ASSUME NEW T, NEW s \in Seq(T), NEW groups \in Seq(Seq(T)), NEW n \in Nat, n < Len(s),
         Cuts(groups, s, 0, n)
  PROVE  Cuts(Packed(groups, s[n + 1]), s, 0, n + 1)
<1> DEFINE l == Len(groups)
           t == s[n + 1]
<1>0. l \in Nat /\ t \in T /\ n + 1 \in 0 .. Len(s) /\ \A i \in 1 .. l : groups[i] \in Seq(T)
  OBVIOUS
<1>1. PICK off \in [0 .. l -> 0 .. Len(s)] :
        /\ off[0] = 0 /\ off[l] = n
        /\ \A i \in 1 .. l : off[i - 1] < off[i] /\ groups[i] = SubSeq(s, off[i - 1] + 1, off[i])
  BY DEF Cuts
<1> HIDE DEF t
<1>2. CASE Packed(groups, t) = Append(groups, <<t>>)
  <2> DEFINE off2 == [i \in 0 .. l + 1 |-> IF i = l + 1 THEN n + 1 ELSE off[i]]
  <2>1. /\ Len(Append(groups, <<t>>)) = l + 1 /\ Append(groups, <<t>>)[l + 1] = <<t>>
        /\ \A i \in 1 .. l : Append(groups, <<t>>)[i] = groups[i]
    BY <1>0
  <2>2. off2 \in [0 .. l + 1 -> 0 .. Len(s)] /\ off2[0] = 0 /\ off2[l + 1] = n + 1
    BY <1>0, <1>1
  <2>3. SubSeq(s, n + 1, n + 1) = <<t>>
    <3>1. SubSeq(s, n + 1, n + 1) \in Seq(T) /\ Len(SubSeq(s, n + 1, n + 1)) = 1 /\ SubSeq(s, n + 1, n + 1)[1] = t
      BY <1>0 DEF t
    <3>2. \A u \in Seq(T) : Len(u) = 1 => u = <<u[1]>>
      OBVIOUS
    <3> QED BY <3>1, <3>2
  <2>4. ASSUME NEW i \in 1 .. l + 1
        PROVE  off2[i - 1] < off2[i] /\ Append(groups, <<t>>)[i] = SubSeq(s, off2[i - 1] + 1, off2[i])
    <3>1. CASE i = l + 1
      <4>1. off2[i - 1] = n /\ off2[i] = n + 1
        BY <1>0, <1>1, <3>1
      <4> HIDE DEF off2
      <4>2. SubSeq(s, off2[i - 1] + 1, off2[i]) = <<t>>
        BY <2>3, <4>1
      <4>3. Append(groups, <<t>>)[i] = <<t>>
        BY <2>1, <3>1
      <4>4. off2[i - 1] < off2[i]
        BY <4>1
      <4> QED BY <4>2, <4>3, <4>4
    <3>2. CASE i # l + 1
      <4>1. i \in 1 .. l /\ off2[i - 1] = off[i - 1] /\ off2[i] = off[i]
        BY <1>0, <3>2
      <4> HIDE DEF off2
      <4> QED BY <1>1, <2>1, <4>1
    <3> QED BY <3>1, <3>2
  <2> HIDE DEF off2
  <2> QED BY <1>2, <2>1, <2>2, <2>4 DEF Cuts, t
<1>3. CASE groups # <<>> /\ Packed(groups, t) = Append(Front(groups), Append(Last(groups), t))
  <2> DEFINE more == Append(Front(groups), Append(Last(groups), t))
             off2 == [i \in 0 .. l |-> IF i = l THEN n + 1 ELSE off[i]]
  <2>0. l # 0 /\ l \in 1 .. l
    BY <1>0, <1>3
  <2>1. /\ Len(more) = l /\ more[l] = Append(groups[l], t)
        /\ \A i \in 1 .. l - 1 : more[i] = groups[i]
    <3>1. /\ Front(groups) \in Seq(Seq(T)) /\ Len(Front(groups)) = l - 1
          /\ \A i \in 1 .. l - 1 : Front(groups)[i] = groups[i]
      <4>1. \A j \in Nat : j <= l => /\ SubSeq(groups, 1, j) \in Seq(Seq(T)) /\ Len(SubSeq(groups, 1, j)) = j
                                    /\ \A i \in 1 .. j : SubSeq(groups, 1, j)[i] = groups[i]
        BY <1>0
      <4>2. l - 1 \in Nat /\ l - 1 <= l
        BY <1>0, <2>0
      <4> QED BY <4>1, <4>2 DEF Front
    <3>2. Last(groups) = groups[l] /\ Append(groups[l], t) \in Seq(T)
      BY <1>0, <2>0 DEF Last
    <3> DEFINE a == Append(groups[l], t)
    <3> HIDE DEF a
    <3>3. Len(Append(Front(groups), a)) = l /\ Append(Front(groups), a)[l] = a
          /\ \A i \in 1 .. l - 1 : Append(Front(groups), a)[i] = groups[i]
      BY <2>0, <3>1, <3>2 DEF a
    <3> QED BY <3>2, <3>3 DEF a
  <2>2. off2 \in [0 .. l -> 0 .. Len(s)] /\ off2[0] = 0 /\ off2[l] = n + 1
    BY <1>0, <1>1, <2>0
  <2>3. off[l - 1] \in Nat /\ off[l - 1] < n /\ groups[l] = SubSeq(s, off[l - 1] + 1, n)
    <3>1. l - 1 \in 0 .. l
      BY <2>0
    <3>2. off[l - 1] \in 0 .. Len(s)
      BY <1>1, <3>1
    <3>3. off[l - 1] < off[l] /\ groups[l] = SubSeq(s, off[l - 1] + 1, off[l])
      BY <1>1, <2>0
    <3> QED BY <1>1, <3>2, <3>3
  <2>4. Append(groups[l], t) = SubSeq(s, off[l - 1] + 1, n + 1)
    <3>1. \A o \in Nat : o < n => SubSeq(s, o + 1, n + 1) = Append(SubSeq(s, o + 1, n), s[n + 1])
      BY <1>0
    <3> QED BY <2>3, <3>1 DEF t
  <2>5. ASSUME NEW i \in 1 .. l
        PROVE  off2[i - 1] < off2[i] /\ more[i] = SubSeq(s, off2[i - 1] + 1, off2[i])
    <3>1. CASE i = l
      <4>1. off2[i - 1] = off[l - 1] /\ off2[i] = n + 1
        BY <1>0, <2>0, <3>1
      <4> HIDE DEF off2, more
      <4>2. SubSeq(s, off2[i - 1] + 1, off2[i]) = Append(groups[l], t)
        BY <2>4, <4>1
      <4>3. more[i] = Append(groups[l], t)
        BY <2>1, <3>1
      <4>4. off2[i - 1] < off2[i]
        BY <2>3, <4>1
      <4> QED BY <4>2, <4>3, <4>4
    <3>2. CASE i # l
      <4>1. i \in 1 .. l - 1 /\ i - 1 \in 0 .. l /\ off2[i - 1] = off[i - 1] /\ off2[i] = off[i]
        BY <1>0, <3>2
      <4> HIDE DEF off2, more
      <4> QED BY <1>1, <2>1, <4>1
    <3> QED BY <3>1, <3>2
  <2>6. Cuts(more, s, 0, n + 1)
    <3> HIDE DEF off2, more
    <3> QED BY <2>1, <2>2, <2>5 DEF Cuts
  <2> QED BY <1>3, <2>6 DEF t
<1>4. \/ Packed(groups, t) = Append(groups, <<t>>)
      \/ groups # <<>> /\ Packed(groups, t) = Append(Front(groups), Append(Last(groups), t))
  BY DEF Packed
<1> QED BY <1>2, <1>3, <1>4

\* Requests with an input more are requests.
LEMMA PackedType ==
  ASSUME NEW T, NEW groups \in Seq(Seq(T)), NEW t \in T
  PROVE  Packed(groups, t) \in Seq(Seq(T))
<1>1. Append(groups, <<t>>) \in Seq(Seq(T))
  OBVIOUS
<1>2. CASE groups # <<>>
  <2>1. Front(groups) \in Seq(Seq(T)) /\ Last(groups) \in Seq(T)
    BY <1>2 DEF Front, Last
  <2>2. Append(Last(groups), t) \in Seq(T)
    BY <2>1
  <2>3. Append(Front(groups), Append(Last(groups), t)) \in Seq(Seq(T))
    BY <2>1, <2>2
  <2> QED BY <1>1, <2>3 DEF Packed
<1>3. CASE groups = <<>>
  BY <1>1, <1>3 DEF Packed
<1> QED BY <1>2, <1>3

\* plan[n] is of the first n inputs.
Planning(s, plan) == plan = [n \in 0 .. Len(s) |-> IF n = 0 THEN <<>> ELSE Packed(plan[n - 1], s[n])]

\* There is such a plan: it goes on from request to request.
LEMMA PlanExists ==
  ASSUME NEW T, NEW s \in Seq(T)
  PROVE  \E plan : Planning(s, plan)
<1> DEFINE V == Seq(Seq(T))
           F == [p \in Nat \X V |-> IF p[1] + 1 \in 1 .. Len(s) THEN Packed(p[2], s[p[1] + 1]) ELSE p[2]]
<1>1. ASSUME NEW n \in Nat, NEW x \in V
      PROVE  F[<<n, x>>] = IF n + 1 \in 1 .. Len(s) THEN Packed(x, s[n + 1]) ELSE x
  OBVIOUS
<1>2. F \in [Nat \X V -> V] /\ <<>> \in V
  <2>1. ASSUME NEW p \in Nat \X V PROVE (IF p[1] + 1 \in 1 .. Len(s) THEN Packed(p[2], s[p[1] + 1]) ELSE p[2]) \in V
    <3>1. ASSUME NEW i \in 1 .. Len(s) PROVE s[i] \in T
      OBVIOUS
    <3> QED BY <3>1, PackedType
  <2> QED BY <2>1
<1> HIDE DEF V, F
<1>3. PICK g : Iterates(g, V, <<>>, F)
  BY <1>2, NatRecursion
<1>4. g[0] = <<>> /\ (\A n \in Nat : g[n] \in V) /\ \A n \in Nat : g[n + 1] = F[<<n, g[n]>>]
  BY <1>3 DEF Iterates
<1>5. ASSUME NEW n \in 1 .. Len(s) PROVE g[n] = Packed(g[n - 1], s[n])
  <2>1. n - 1 \in Nat /\ (n - 1) + 1 = n
    OBVIOUS
  <2> QED BY <1>1, <1>4, <2>1
<1> DEFINE f == [n \in 0 .. Len(s) |-> g[n]]
           r == [n \in 0 .. Len(s) |-> IF n = 0 THEN <<>> ELSE Packed(f[n - 1], s[n])]
<1>6. ASSUME NEW n \in 0 .. Len(s) PROVE f[n] = r[n]
  <2>1. CASE n = 0
    BY <1>4, <2>1
  <2>2. CASE n # 0
    <3>1. n \in 1 .. Len(s) /\ f[n] = g[n] /\ f[n - 1] = g[n - 1]
      BY <2>2
    <3>2. r[n] = Packed(f[n - 1], s[n])
      BY <2>2
    <3> HIDE DEF f, r
    <3> QED BY <1>5, <3>1, <3>2
  <2> QED BY <2>1, <2>2
<1>7. f = [n \in 0 .. Len(s) |-> f[n]] /\ r = [n \in 0 .. Len(s) |-> r[n]]
  OBVIOUS
<1>8. f = r
  <2> HIDE DEF f, r
  <2> QED BY <1>6, <1>7
<1>9. Planning(s, f)
  <2>1. f = [n \in 0 .. Len(s) |-> IF n = 0 THEN <<>> ELSE Packed(f[n - 1], s[n])]
    <3> HIDE DEF f
    <3> QED BY <1>8 DEF r
  <2> HIDE DEF f
  <2> QED BY <2>1 DEF Planning
<1> QED BY <1>9

\* plan_requests cuts the inputs into requests.
LEMMA PlanCut ==
  ASSUME NEW T, NEW s \in Seq(T)
  PROVE  PlanRequests(s) \in Seq(Seq(T)) /\ Cuts(PlanRequests(s), s, 0, Len(s))
<1> DEFINE plan == CHOOSE p : Planning(s, p)
<1>1. Planning(s, plan)
  BY PlanExists
<1>2. PlanRequests(s) = plan[Len(s)]
  BY DEF PlanRequests, Planning
<1> HIDE DEF plan
<1>3. plan[0] = <<>> /\ \A n \in 1 .. Len(s) : plan[n] = Packed(plan[n - 1], s[n])
  <2> DEFINE r == [n \in 0 .. Len(s) |-> IF n = 0 THEN <<>> ELSE Packed(plan[n - 1], s[n])]
  <2>1. ASSUME NEW n \in 0 .. Len(s) PROVE r[n] = IF n = 0 THEN <<>> ELSE Packed(plan[n - 1], s[n])
    OBVIOUS
  <2>2. plan = r
    BY <1>1 DEF Planning
  <2>3. 0 \in 0 .. Len(s) /\ \A n \in 1 .. Len(s) : n \in 0 .. Len(s) /\ n # 0
    OBVIOUS
  <2> HIDE DEF r
  <2>4. plan[0] = <<>>
    BY <2>1, <2>2, <2>3
  <2>5. ASSUME NEW n \in 1 .. Len(s) PROVE plan[n] = Packed(plan[n - 1], s[n])
    BY <2>1, <2>2, <2>3
  <2> QED BY <2>4, <2>5
<1> DEFINE Good(n) == plan[n] \in Seq(Seq(T)) /\ Cuts(plan[n], s, 0, n)
           S == {n \in Nat : n <= Len(s) => Good(n)}
<1>4. Good(0)
  <2>1. Len(<<>>) = 0 /\ <<>> \in Seq(Seq(T))
    OBVIOUS
  <2> DEFINE off == [i \in 0 .. 0 |-> 0]
  <2>2. off \in [0 .. 0 -> 0 .. Len(s)] /\ off[0] = 0 /\ \A i \in 1 .. 0 : FALSE
    OBVIOUS
  <2> HIDE DEF off
  <2>3. Cuts(<<>>, s, 0, 0)
    BY <2>1, <2>2 DEF Cuts
  <2> QED BY <1>3, <2>1, <2>3
<1>5. ASSUME NEW n \in Nat, n < Len(s), Good(n) PROVE Good(n + 1)
  <2>1. n + 1 \in 1 .. Len(s) /\ (n + 1) - 1 = n /\ s[n + 1] \in T
    BY <1>5
  <2>2. plan[n + 1] = Packed(plan[n], s[n + 1])
    BY <1>3, <2>1
  <2> QED BY <1>5, <2>1, <2>2, PackedCut, PackedType
<1> HIDE DEF Good
<1>6. Len(s) \in S
  <2>1. 0 \in S
    BY <1>4
  <2>2. ASSUME NEW n \in Nat, n \in S PROVE n + 1 \in S
    <3>1. Len(s) \in Nat
      OBVIOUS
    <3> QED BY <1>5, <2>2, <3>1
  <2> HIDE DEF S
  <2>3. Nat \subseteq S
    BY <2>1, <2>2, NatSetInduction
  <2> QED BY <2>3
<1>7. Good(Len(s))
  BY <1>6
<1> QED BY <1>2, <1>7 DEF Good

\* What the provider makes of a text, and of texts.
Want(t) == IF server.provider = "openai" THEN Sent(t) ELSE <<"whole", t>>
Wants(s) == [i \in 1 .. Len(s) |-> Want(s[i])]

\* The requests for an input are pieces of it.
LEMMA RequestsCut ==
  ASSUME NEW T, NEW s \in Seq(T), s # <<>>
  PROVE  /\ Requests(s) \in Seq(Seq(T)) /\ Requests(s) # <<>>
         /\ Cuts(Requests(s), s, 0, Len(s))
<1>0. Cuts(Requests(s), s, 0, Len(s)) => Requests(s) # <<>>
  <2>1. Cuts(<<>>, s, 0, Len(s)) => Len(s) = 0
    BY DEF Cuts
  <2> QED BY <2>1
<1>1. CASE Requests(s) = PlanRequests(s)
  BY <1>0, <1>1, PlanCut
<1>2. CASE Requests(s) = Pieces(s, 1)
  BY <1>2, PiecesCut
<1>3. CASE Requests(s) = <<s>>
  <2>1. Len(s) \in Nat \ {0} /\ <<s>> \in Seq(Seq(T)) /\ Len(<<s>>) = 1 /\ <<s>>[1] = s
    OBVIOUS
  <2>2. SubSeq(s, 1, Len(s)) = s
    OBVIOUS
  <2> DEFINE off == [i \in 0 .. 1 |-> IF i = 0 THEN 0 ELSE Len(s)]
  <2>3. off \in [0 .. 1 -> 0 .. Len(s)] /\ off[0] = 0 /\ off[1] = Len(s)
    BY <2>1
  <2>4. ASSUME NEW i \in 1 .. 1 PROVE off[i - 1] < off[i] /\ <<s>>[i] = SubSeq(s, off[i - 1] + 1, off[i])
    <3>1. i = 1 /\ i - 1 = 0
      OBVIOUS
    <3> HIDE DEF off
    <3> QED BY <2>1, <2>2, <2>3, <3>1
  <2> HIDE DEF off
  <2>5. Cuts(<<s>>, s, 0, Len(s))
    BY <2>1, <2>3, <2>4 DEF Cuts
  <2> QED BY <1>3, <2>1, <2>5
<1>5. Requests(s) \in {PlanRequests(s), Pieces(s, 1), <<s>>}
  BY DEF Requests
<1> QED BY <1>0, <1>1, <1>2, <1>3, <1>5

\* Items come with their index, and are put in order by it.
LEMMA AnswersInOrder ==
  ASSUME NEW T, NEW s \in Seq(T), NEW data \in Answers(s)
  PROVE  InOrder(data) = Wants(s)
<1> DEFINE I == 1 .. Len(s)
<1>1. PICK p \in [I -> I] :
        /\ \A i \in I : \E j \in I : p[j] = i
        /\ data = [i \in I |-> [index |-> p[i], embedding |-> Want(s[p[i]])]]
  <2>1. DOMAIN s = I
    OBVIOUS
  <2>2. CASE server.provider = "openai"
    <3>1. PICK p \in Bijection(I, I) : data = [i \in I |-> [index |-> p[i], embedding |-> Want(s[p[i]])]]
      BY <2>1, <2>2 DEF Answers, Want
    <3>2. p \in [I -> I] /\ \A i \in I : \E j \in I : p[j] = i
      BY DEF Bijection, Surjection
    <3> QED BY <3>1, <3>2
  <2>3. CASE server.provider # "openai"
    <3>1. data = [i \in I |-> [index |-> i, embedding |-> Want(s[i])]]
      BY <2>1, <2>3 DEF Answers, Want
    <3> DEFINE p == [i \in I |-> i]
    <3>2. p \in [I -> I] /\ \A i \in I : p[i] = i
      OBVIOUS
    <3> HIDE DEF p
    <3>3. data = [i \in I |-> [index |-> p[i], embedding |-> Want(s[p[i]])]]
      BY <3>1, <3>2
    <3> QED BY <3>2, <3>3
  <2> QED BY <2>2, <2>3
<1>2. ASSUME NEW i \in I PROVE (CHOOSE d \in ToSet(data) : d.index = i).embedding = Want(s[i])
  <2>1. PICK j \in I : p[j] = i
    BY <1>1
  <2>2. data[j] \in ToSet(data) /\ data[j].index = i
    BY <1>1, <2>1 DEF ToSet
  <2> DEFINE d == CHOOSE d \in ToSet(data) : d.index = i
  <2>3. d \in ToSet(data) /\ d.index = i
    BY <2>2
  <2> HIDE DEF d
  <2>4. PICK k \in I : d = data[k]
    BY <1>1, <2>3 DEF ToSet
  <2>5. d.embedding = Want(s[i])
    BY <1>1, <2>3, <2>4
  <2> QED BY <2>5 DEF d
<1>3. DOMAIN data = I
  BY <1>1
<1> QED BY <1>2, <1>3 DEF InOrder, Wants

-----------------------------------------------------------------------------
(* A batch *)

Texts == {c[2] : c \in AllChunks}
Names == {c[1] : c \in AllChunks}
Embeddings == {"cut", "whole"} \X Texts
TextsOf(cs) == [i \in 1 .. Len(cs) |-> cs[i][2]]

\* out is what the provider made of the first of the texts.
Given(out, s) == out \in Seq(Embeddings) /\ Len(out) <= Len(s) /\ \A i \in 1 .. Len(out) : out[i] = Want(s[i])

\* The ids are of chunks cs, what was given is of the first of their texts, and the
\* inputs still queued cut the others.
Queued(ids, out, queue, cs) ==
  /\ cs \in Seq(AllChunks)
  /\ ids = [i \in 1 .. Len(cs) |-> cs[i][1]]
  /\ Given(out, TextsOf(cs))
  /\ queue \in Seq(Seq(Texts)) /\ Cuts(queue, TextsOf(cs), Len(out), Len(cs))

\* What is left of the first input is cut by the requests left for it.
Requested(b) ==
  b.queue # <<>> =>
    /\ b.requests \in Seq(Seq(Texts)) /\ b.requests # <<>> /\ Given(b.got, Head(b.queue))
    /\ Cuts(b.requests, Head(b.queue), Len(b.got), Len(Head(b.queue)))
Batches == [ids : Seq(Names), out : Seq(Embeddings), requests : Seq(Seq(Texts)),
            got : Seq(Embeddings), attempt : Nat, queue : Seq(Seq(Texts))]
Batch(b, cs) == b \in Batches /\ Queued(b.ids, b.out, b.queue, cs) /\ Requested(b)

\* The ids and the texts of chunks are as many as the chunks.
LEMMA TextsType ==
  ASSUME NEW cs \in Seq(AllChunks)
  PROVE  /\ TextsOf(cs) \in Seq(Texts) /\ Len(TextsOf(cs)) = Len(cs)
         /\ [i \in 1 .. Len(cs) |-> cs[i][1]] \in Seq(Names)
<1>1. ASSUME NEW i \in 1 .. Len(cs) PROVE cs[i][1] \in Names /\ cs[i][2] \in Texts
  <2>1. cs[i] \in AllChunks
    OBVIOUS
  <2> QED BY <2>1 DEF Names, Texts
<1>2. TextsOf(cs) \in [1 .. Len(cs) -> Texts] /\ [i \in 1 .. Len(cs) |-> cs[i][1]] \in [1 .. Len(cs) -> Names]
  BY <1>1 DEF TextsOf
<1>3. Len(cs) \in Nat
  OBVIOUS
<1> QED BY <1>2, <1>3

\* A provider makes one vector of each text.
LEMMA WantType ==
  ASSUME NEW s \in Seq(Texts)
  PROVE  /\ Wants(s) \in Seq(Embeddings) /\ Len(Wants(s)) = Len(s)
         /\ \A i \in 1 .. Len(s) : Wants(s)[i] = Want(s[i])
<1>1. ASSUME NEW t \in Texts PROVE Want(t) \in Embeddings
  BY DEF Want, Sent, Embeddings
<1>2. Len(s) \in Nat /\ \A i \in 1 .. Len(s) : s[i] \in Texts
  OBVIOUS
<1>3. Wants(s) \in [1 .. Len(s) -> Embeddings] /\ \A i \in 1 .. Len(s) : Wants(s)[i] = Want(s[i])
  BY <1>1, <1>2 DEF Wants
<1> QED BY <1>2, <1>3

\* What is given for a piece follows what was given before it.
LEMMA GivenMore ==
  ASSUME NEW s \in Seq(Texts), NEW out, Given(out, s), NEW e \in 0 .. Len(s), Len(out) <= e
  PROVE  LET piece == SubSeq(s, Len(out) + 1, e) IN
         \A w : Given(w, piece) => Given(out \o w, s) /\ Len(out \o w) = Len(out) + Len(w)
<1> DEFINE k == Len(out)
           piece == SubSeq(s, k + 1, e)
<1>1. out \in Seq(Embeddings) /\ k \in Nat /\ k <= e /\ \A i \in 1 .. k : out[i] = Want(s[i])
  BY DEF Given
<1>2. Len(piece) = e - k /\ \A i \in 1 .. e - k : piece[i] = s[i + k]
  BY <1>1
<1> HIDE DEF piece
<1>3. ASSUME NEW w, Given(w, piece) PROVE Given(out \o w, s) /\ Len(out \o w) = k + Len(w)
  <2>1. w \in Seq(Embeddings) /\ Len(w) \in Nat /\ Len(w) <= e - k /\ \A i \in 1 .. Len(w) : w[i] = Want(piece[i])
    BY <1>2, <1>3 DEF Given
  <2>2. /\ out \o w \in Seq(Embeddings) /\ Len(out \o w) = k + Len(w)
        /\ \A i \in 1 .. k : (out \o w)[i] = out[i]
        /\ \A i \in 1 .. Len(w) : (out \o w)[i + k] = w[i]
    BY <1>1, <2>1
  <2>3. ASSUME NEW i \in 1 .. k + Len(w) PROVE (out \o w)[i] = Want(s[i])
    <3>1. CASE i <= k
      BY <1>1, <2>2, <3>1
    <3>2. CASE i > k
      <4>1. i - k \in 1 .. Len(w) /\ i - k \in 1 .. e - k /\ (i - k) + k = i
        BY <1>1, <2>1, <3>2
      <4>2. (out \o w)[i] = w[i - k] /\ w[i - k] = Want(piece[i - k]) /\ piece[i - k] = s[i]
        BY <1>2, <2>1, <2>2, <4>1
      <4> QED BY <4>2
    <3> QED BY <1>1, <2>1, <3>1, <3>2
  <2>4. k + Len(w) <= Len(s)
    BY <1>1, <2>1
  <2> QED BY <2>2, <2>3, <2>4 DEF Given
<1> QED BY <1>3 DEF piece

\* All of the texts are given, or none of them.
LEMMA GivenAll ==
  ASSUME NEW s \in Seq(Texts)
  PROVE  Given(Wants(s), s) /\ Len(Wants(s)) = Len(s) /\ Given(<<>>, s)
<1>1. Given(Wants(s), s) /\ Len(Wants(s)) = Len(s)
  BY WantType DEF Given
<1>2. <<>> \in Seq(Embeddings) /\ Len(<<>>) = 0 /\ Len(s) \in Nat
  OBVIOUS
<1> QED BY <1>1, <1>2 DEF Given

\* The requests for the next input.
LEMMA AdvanceIs ==
  ASSUME NEW ids, NEW out, NEW queue, NEW cs, Queued(ids, out, queue, cs)
  PROVE  Batch(Advance(ids, out, queue), cs)
<1> DEFINE h == Head(queue)
           requests == IF queue = <<>> THEN <<>> ELSE Requests(h)
           b == [ids |-> ids, out |-> out, queue |-> queue, got |-> <<>>, attempt |-> 0, requests |-> requests]
<1>1. /\ cs \in Seq(AllChunks) /\ out \in Seq(Embeddings) /\ ids \in Seq(Names) /\ TextsOf(cs) \in Seq(Texts)
      /\ queue \in Seq(Seq(Texts)) /\ Cuts(queue, TextsOf(cs), Len(out), Len(cs))
  BY TextsType DEF Queued, Given
<1>2. ASSUME queue # <<>>
      PROVE  /\ h \in Seq(Texts) /\ requests \in Seq(Seq(Texts)) /\ requests # <<>>
             /\ Cuts(requests, h, 0, Len(h))
  <2>1. h \in Seq(Texts) /\ h # <<>>
    BY <1>1, <1>2, CutHead
  <2> HIDE DEF h
  <2> QED BY <1>2, <2>1, RequestsCut
<1>3. <<>> \in Seq(Embeddings) /\ <<>> \in Seq(Seq(Texts)) /\ Len(<<>>) = 0
  OBVIOUS
<1>4. requests \in Seq(Seq(Texts))
  BY <1>2, <1>3
<1>5. Advance(ids, out, queue) = b
  BY DEF Advance
<1> HIDE DEF requests, h
<1>6. b \in Batches
  BY <1>1, <1>3, <1>4 DEF Batches
<1>7. Requested(b)
  BY <1>2, <1>3, GivenAll DEF Requested, h
<1> QED BY <1>5, <1>6, <1>7 DEF Batch

\* A batch of inputs to begin with.
LEMMA WorkingSize ==
  ASSUME cache \in Nat \cup {None}, NEW n \in Nat
  PROVE  WorkingBatchSize(n) \in Nat \ {0}
<1>1. CASE cache = None
  BY <1>1 DEF WorkingBatchSize, Fewer, More
<1>2. CASE cache \in Nat /\ cache # None
  BY <1>2 DEF WorkingBatchSize, Fewer, More
<1> QED BY <1>1, <1>2

\* A batch of chunks, with the inputs it queues.
LEMMA NewBatchIs ==
  ASSUME cache \in Nat \cup {None}, NEW cs \in Seq(AllChunks)
  PROVE  Batch(NewBatch(cs), cs)
<1> DEFINE texts == TextsOf(cs)
           names == [i \in 1 .. Len(cs) |-> cs[i][1]]
           n == WorkingBatchSize(Len(texts))
<1>1. texts \in Seq(Texts) /\ Len(texts) = Len(cs) /\ Len(texts) \in Nat /\ names \in Seq(Names)
  BY TextsType
<1>2. n \in Nat \ {0}
  BY <1>1, WorkingSize
<1>3. NewBatch(cs) = Advance(names, <<>>, Pieces(texts, n))
  <2>1. DOMAIN cs = 1 .. Len(cs)
    OBVIOUS
  <2> QED BY <2>1 DEF NewBatch, TextsOf
<1> HIDE DEF n
<1>4. Pieces(texts, n) \in Seq(Seq(Texts)) /\ Cuts(Pieces(texts, n), texts, 0, Len(texts))
  <2> HIDE DEF texts
  <2> QED BY <1>1, <1>2, PiecesCut
<1>5. Given(<<>>, texts) /\ Len(<<>>) = 0
  BY <1>1, GivenAll
<1>6. Queued(names, <<>>, Pieces(texts, n), cs)
  BY <1>1, <1>4, <1>5 DEF Queued
<1> HIDE DEF names, texts
<1> QED BY <1>3, <1>6, AdvanceIs

\* The next request and the next input of a batch.
LEMMA BatchHead ==
  ASSUME NEW b, NEW cs, Batch(b, cs), b.queue # <<>>
  PROVE  LET s == TextsOf(cs)
             h == Head(b.queue)
             r == Head(b.requests)
         IN  /\ s \in Seq(Texts) /\ Len(s) = Len(cs) /\ Given(b.out, s) /\ Given(b.got, h)
             /\ h \in Seq(Texts) /\ Len(b.out) \in Nat /\ Len(h) \in Nat \ {0} /\ Len(b.out) + Len(h) <= Len(s)
             /\ h = SubSeq(s, Len(b.out) + 1, Len(b.out) + Len(h))
             /\ Tail(b.queue) \in Seq(Seq(Texts)) /\ Cuts(Tail(b.queue), s, Len(b.out) + Len(h), Len(s))
             /\ r \in Seq(Texts) /\ Len(b.got) \in Nat /\ Len(r) \in Nat \ {0} /\ Len(b.got) + Len(r) <= Len(h)
             /\ r = SubSeq(h, Len(b.got) + 1, Len(b.got) + Len(r))
             /\ Tail(b.requests) \in Seq(Seq(Texts)) /\ Cuts(Tail(b.requests), h, Len(b.got) + Len(r), Len(h))
<1> DEFINE s == TextsOf(cs)
           h == Head(b.queue)
           r == Head(b.requests)
<1>1. /\ b \in Batches /\ cs \in Seq(AllChunks) /\ Given(b.out, s)
      /\ b.queue \in Seq(Seq(Texts)) /\ Cuts(b.queue, s, Len(b.out), Len(cs))
      /\ b.requests \in Seq(Seq(Texts)) /\ b.requests # <<>> /\ Given(b.got, h)
      /\ Cuts(b.requests, h, Len(b.got), Len(h))
  BY DEF Batch, Queued, Requested
<1>2. s \in Seq(Texts) /\ Len(s) = Len(cs)
  BY <1>1, TextsType
<1> HIDE DEF s
<1>3. LET e == Len(b.out) + Len(h) IN
      /\ Len(b.out) \in Nat /\ h \in Seq(Texts) /\ h # <<>> /\ e \in 0 .. Len(s)
      /\ h = SubSeq(s, Len(b.out) + 1, e)
      /\ Tail(b.queue) \in Seq(Seq(Texts)) /\ Cuts(Tail(b.queue), s, e, Len(cs))
  BY <1>1, <1>2, CutHead
<1> HIDE DEF h
<1>4. LET e == Len(b.got) + Len(r) IN
      /\ Len(b.got) \in Nat /\ r \in Seq(Texts) /\ r # <<>> /\ e \in 0 .. Len(h)
      /\ r = SubSeq(h, Len(b.got) + 1, e)
      /\ Tail(b.requests) \in Seq(Seq(Texts)) /\ Cuts(Tail(b.requests), h, e, Len(h))
  BY <1>1, <1>3, CutHead
<1> HIDE DEF r
<1>5. Len(h) \in Nat \ {0} /\ Len(r) \in Nat \ {0}
  BY <1>3, <1>4
<1>6. /\ s \in Seq(Texts) /\ Len(s) = Len(cs) /\ Given(b.out, s) /\ Given(b.got, h)
      /\ h \in Seq(Texts) /\ Len(b.out) \in Nat /\ Len(h) \in Nat \ {0} /\ Len(b.out) + Len(h) <= Len(s)
      /\ h = SubSeq(s, Len(b.out) + 1, Len(b.out) + Len(h))
      /\ Tail(b.queue) \in Seq(Seq(Texts)) /\ Cuts(Tail(b.queue), s, Len(b.out) + Len(h), Len(s))
  <2>1. Len(b.out) + Len(h) <= Len(s) /\ Len(b.out) \in Nat
    BY <1>2, <1>3
  <2>2. h \in Seq(Texts) /\ h = SubSeq(s, Len(b.out) + 1, Len(b.out) + Len(h)) /\ Tail(b.queue) \in Seq(Seq(Texts))
    BY <1>3
  <2>3. Cuts(Tail(b.queue), s, Len(b.out) + Len(h), Len(s))
    BY <1>2, <1>3
  <2> QED BY <1>1, <1>2, <1>5, <2>1, <2>2, <2>3
<1>7. /\ r \in Seq(Texts) /\ Len(b.got) \in Nat /\ Len(r) \in Nat \ {0} /\ Len(b.got) + Len(r) <= Len(h)
      /\ r = SubSeq(h, Len(b.got) + 1, Len(b.got) + Len(r))
      /\ Tail(b.requests) \in Seq(Seq(Texts)) /\ Cuts(Tail(b.requests), h, Len(b.got) + Len(r), Len(h))
  <2>1. Len(b.got) + Len(r) <= Len(h) /\ Len(b.got) \in Nat
    BY <1>4, <1>5
  <2>2. r \in Seq(Texts) /\ r = SubSeq(h, Len(b.got) + 1, Len(b.got) + Len(r)) /\ Tail(b.requests) \in Seq(Seq(Texts))
    BY <1>4
  <2>3. Cuts(Tail(b.requests), h, Len(b.got) + Len(r), Len(h))
    BY <1>4
  <2> QED BY <1>5, <2>1, <2>2, <2>3
<1> QED BY <1>6, <1>7 DEF s, h, r

\* The answer to a request adds to what the input has given, or ends the input.
LEMMA ReceivedIs ==
  ASSUME NEW b, NEW cs, Batch(b, cs), b.queue # <<>>
  PROVE  Batch(Received(b, Wants(Head(b.requests))), cs)
<1> DEFINE s == TextsOf(cs)
           h == Head(b.queue)
           r == Head(b.requests)
           w == Wants(r)
           got == b.got \o w
           more == Tail(b.requests)
<1>1. /\ s \in Seq(Texts) /\ Len(s) = Len(cs) /\ Given(b.out, s) /\ Given(b.got, h)
      /\ h \in Seq(Texts) /\ Len(b.out) \in Nat /\ Len(h) \in Nat \ {0} /\ Len(b.out) + Len(h) <= Len(s)
      /\ h = SubSeq(s, Len(b.out) + 1, Len(b.out) + Len(h))
      /\ Tail(b.queue) \in Seq(Seq(Texts)) /\ Cuts(Tail(b.queue), s, Len(b.out) + Len(h), Len(s))
      /\ r \in Seq(Texts) /\ Len(b.got) \in Nat /\ Len(r) \in Nat \ {0} /\ Len(b.got) + Len(r) <= Len(h)
      /\ r = SubSeq(h, Len(b.got) + 1, Len(b.got) + Len(r))
      /\ more \in Seq(Seq(Texts)) /\ Cuts(more, h, Len(b.got) + Len(r), Len(h))
  BY BatchHead
<1>2. /\ b \in Batches /\ b.queue \in Seq(Seq(Texts)) /\ cs \in Seq(AllChunks)
      /\ b.ids = [i \in 1 .. Len(cs) |-> cs[i][1]] /\ Queued(b.ids, b.out, b.queue, cs)
  BY DEF Batch, Queued
<1> HIDE DEF s, h, r
<1>3. Given(w, r) /\ Len(w) = Len(r)
  BY <1>1, GivenAll
<1> HIDE DEF w
<1>4. Given(got, h) /\ Len(got) = Len(b.got) + Len(r)
  <2>1. Len(b.got) + Len(r) \in 0 .. Len(h) /\ Len(b.got) <= Len(b.got) + Len(r)
    BY <1>1
  <2>2. \A v : Given(v, SubSeq(h, Len(b.got) + 1, Len(b.got) + Len(r))) =>
          Given(b.got \o v, h) /\ Len(b.got \o v) = Len(b.got) + Len(v)
    BY <1>1, <2>1, GivenMore
  <2> QED BY <1>1, <1>3, <2>2
<1> HIDE DEF got, more
<1>5. CASE more # <<>>
  <2> DEFINE c == [ids |-> b.ids, out |-> b.out, queue |-> b.queue, got |-> got, attempt |-> 0, requests |-> more]
  <2>1. c \in Batches
    BY <1>1, <1>2, <1>4 DEF Batches, Given
  <2>2. Requested(c)
    BY <1>1, <1>4, <1>5 DEF Requested, h
  <2>3. Received(b, w) = c
    BY <1>5 DEF Received, got, more
  <2>4. c.ids = b.ids /\ c.out = b.out /\ c.queue = b.queue
    OBVIOUS
  <2> HIDE DEF c
  <2>5. Batch(c, cs)
    BY <1>2, <2>1, <2>2, <2>4 DEF Batch
  <2> QED BY <2>3, <2>5 DEF w, r
<1>6. CASE more = <<>>
  <2>1. Len(b.got) + Len(r) = Len(h)
    <3>1. Cuts(<<>>, h, Len(b.got) + Len(r), Len(h)) => Len(b.got) + Len(r) = Len(h)
      BY DEF Cuts
    <3> QED BY <1>1, <1>6, <3>1
  <2>2. Given(b.out \o got, s) /\ Len(b.out \o got) = Len(b.out) + Len(h)
    <3>1. Len(b.out) + Len(h) \in 0 .. Len(s) /\ Len(b.out) <= Len(b.out) + Len(h)
      BY <1>1
    <3>2. \A v : Given(v, SubSeq(s, Len(b.out) + 1, Len(b.out) + Len(h))) =>
            Given(b.out \o v, s) /\ Len(b.out \o v) = Len(b.out) + Len(v)
      BY <1>1, <3>1, GivenMore
    <3> QED BY <1>1, <1>4, <2>1, <3>2
  <2>3. Received(b, w) = Advance(b.ids, b.out \o got, Tail(b.queue))
    BY <1>6 DEF Received, got, more
  <2>4. Queued(b.ids, b.out \o got, Tail(b.queue), cs)
    BY <1>1, <1>2, <2>2 DEF Queued, s
  <2> QED BY <2>3, <2>4, AdvanceIs DEF w, r
<1> QED BY <1>5, <1>6

\* Two halves in the place of an input that is refused.
LEMMA SplitIs ==
  ASSUME NEW b, NEW cs, Batch(b, cs), b.queue # <<>>, Len(Head(b.queue)) > 1
  PROVE  Batch(Split(b), cs)
<1> DEFINE s == TextsOf(cs)
           h == Head(b.queue)
           mid == Len(h) \div 2
           k == Len(b.out)
           rest == Tail(b.queue)
<1>1. /\ s \in Seq(Texts) /\ Len(s) = Len(cs) /\ Given(b.out, s)
      /\ h \in Seq(Texts) /\ k \in Nat /\ Len(h) \in Nat \ {0} /\ k + Len(h) <= Len(s)
      /\ h = SubSeq(s, k + 1, k + Len(h))
      /\ rest \in Seq(Seq(Texts)) /\ Cuts(rest, s, k + Len(h), Len(s))
  BY BatchHead
<1>2. cs \in Seq(AllChunks) /\ b.ids = [i \in 1 .. Len(cs) |-> cs[i][1]]
  BY DEF Batch, Queued
<1>3. Len(h) > 1
  OBVIOUS
<1>4. mid \in Nat /\ 0 < mid /\ mid < Len(h)
  <2> HIDE DEF h
  <2> QED BY <1>1, <1>3
<1>5. Split(b) = Advance(b.ids, b.out, Halves(h) \o rest)
  BY DEF Split
<1>6. Halves(h) = <<SubSeq(h, 1, mid), SubSeq(h, mid + 1, Len(h))>>
  BY DEF Halves
<1> HIDE DEF mid, k, s, h, rest
<1> DEFINE left == SubSeq(s, k + 1, k + mid)
           right == SubSeq(s, k + mid + 1, k + Len(h))
<1>7. SubSeq(h, 1, mid) = left /\ SubSeq(h, mid + 1, Len(h)) = right
  <2>1. ASSUME NEW d \in Nat, NEW e \in Nat, d <= e, e <= Len(h)
        PROVE  SubSeq(h, d + 1, e) = SubSeq(s, k + d + 1, k + e)
    <3>1. Len(h) \in Nat
      BY <1>1
    <3> QED BY <1>1, <2>1, <3>1, PieceOfPiece
  <2>2. 0 \in Nat /\ 0 + 1 = 1 /\ k + 0 = k /\ Len(h) \in Nat /\ 0 <= mid /\ mid <= Len(h) /\ Len(h) <= Len(h)
    BY <1>1, <1>4
  <2>3. SubSeq(h, 0 + 1, mid) = SubSeq(s, k + 0 + 1, k + mid)
    BY <1>4, <2>1, <2>2
  <2>4. SubSeq(h, mid + 1, Len(h)) = SubSeq(s, k + mid + 1, k + Len(h))
    BY <1>4, <2>1, <2>2
  <2> QED BY <2>2, <2>3, <2>4
<1>8. left \in Seq(Texts) /\ right \in Seq(Texts)
  BY <1>1, <1>4
<1>9. Cuts(<<right>> \o rest, s, k + mid, Len(s))
  <2>1. k + mid \in Nat /\ k + Len(h) \in Nat /\ k + mid < k + Len(h)
    BY <1>1, <1>4
  <2> QED BY <1>1, <2>1, CutCons
<1>10. <<right>> \o rest \in Seq(Seq(Texts))
  <2> HIDE DEF right
  <2> QED BY <1>1, <1>8
<1>11. Cuts(<<left>> \o (<<right>> \o rest), s, k, Len(s))
  <2>1. k + mid \in Nat /\ k < k + mid
    BY <1>1, <1>4
  <2> HIDE DEF right
  <2> QED BY <1>1, <1>9, <1>10, <2>1, CutCons
<1> HIDE DEF left, right
<1>12. Halves(h) \o rest = <<left>> \o (<<right>> \o rest) /\ Halves(h) \o rest \in Seq(Seq(Texts))
  <2>1. Halves(h) = <<left, right>>
    BY <1>6, <1>7
  <2>2. <<left, right>> = <<left>> \o <<right>> /\ <<left>> \in Seq(Seq(Texts)) /\ <<right>> \in Seq(Seq(Texts))
    <3>1. <<left>> \in Seq(Seq(Texts)) /\ <<right>> \in Seq(Seq(Texts))
      BY <1>8
    <3>2. <<left, right>> = <<left>> \o <<right>>
      BY <1>8, PairIsConcat
    <3> QED BY <3>1, <3>2
  <2>3. (<<left>> \o <<right>>) \o rest = <<left>> \o (<<right>> \o rest)
    BY <1>1, <2>2, ConcatAssociative
  <2>4. <<left>> \o (<<right>> \o rest) \in Seq(Seq(Texts))
    BY <1>10, <2>2
  <2> QED BY <2>1, <2>2, <2>3, <2>4
<1>13. Queued(b.ids, b.out, Halves(h) \o rest, cs)
  BY <1>1, <1>2, <1>11, <1>12 DEF Queued, s, k
<1> QED BY <1>5, <1>13, AdvanceIs

-----------------------------------------------------------------------------
(* The invariant *)

\* A chunk with its vector.
Embedded(c) == <<c[1], Want(c[2])>>

\* While a call goes on and when it has succeeded, what there is of the result is
\* right, what is in flight or waiting is of changed files, and every chunk of those
\* has its vector or is in a batch.
JobsInv == \A b \in jobs : \E cs : Batch(b, cs) /\ ToSet(cs) \subseteq ToEmbed
WaitingInv ==
  waiting \in Seq(Seq(AllChunks)) /\ \A i \in 1 .. Len(waiting) : ToSet(waiting[i]) \subseteq ToEmbed
ResultInv == \A p \in result : \E c \in ToEmbed : p = Embedded(c)
InJob(c) == \E b \in jobs : \E cs : Batch(b, cs) /\ c \in ToSet(cs)
Waits(c) == \E i \in 1 .. Len(waiting) : c \in ToSet(waiting[i])
CoverInv == \A c \in ToEmbed : Embedded(c) \in result \/ InJob(c) \/ Waits(c)
EmbedInv ==
  /\ cache \in Nat \cup {None}
  /\ call # "running" => jobs = {}
  /\ call = "running" => JobsInv /\ WaitingInv
  /\ call \in {"running", "ok"} => ResultInv /\ CoverInv
  /\ call = "ok" => waiting = <<>>

\* The invariant says that a call that succeeded has all vectors.
LEMMA EmbedInvSafe == EmbedInv => VectorsAreOfTheirTexts
<1> SUFFICES ASSUME EmbedInv, call = "ok"
             PROVE  result = {Embedded(c) : c \in ToEmbed}
  BY DEF VectorsAreOfTheirTexts, Embedded, Want
<1>1. ResultInv /\ CoverInv /\ jobs = {} /\ waiting = <<>>
  BY DEF EmbedInv
<1>2. ~(\E i \in 1 .. Len(waiting) : TRUE)
  BY <1>1
<1>3. ASSUME NEW c \in ToEmbed PROVE Embedded(c) \in result
  BY <1>1, <1>2 DEF CoverInv, InJob, Waits
<1> QED BY <1>1, <1>3 DEF ResultInv

\* The vectors of a batch that has ended are those of its chunks.
LEMMA CollectedIs ==
  ASSUME NEW b, NEW cs, Batch(b, cs), b.queue = <<>>
  PROVE  {<<b.ids[i], b.out[i]>> : i \in 1 .. Fewer(Len(b.ids), Len(b.out))} = {Embedded(c) : c \in ToSet(cs)}
<1>1. /\ cs \in Seq(AllChunks) /\ b.ids = [i \in 1 .. Len(cs) |-> cs[i][1]]
      /\ Given(b.out, TextsOf(cs)) /\ Cuts(b.queue, TextsOf(cs), Len(b.out), Len(cs))
  BY DEF Batch, Queued
<1>2. Len(cs) \in Nat /\ Len(b.ids) = Len(cs) /\ DOMAIN cs = 1 .. Len(cs)
  BY <1>1
<1>3. Len(b.out) = Len(cs)
  BY <1>1 DEF Cuts
<1>4. Fewer(Len(b.ids), Len(b.out)) = Len(cs)
  BY <1>2, <1>3 DEF Fewer
<1>5. ASSUME NEW i \in 1 .. Len(cs) PROVE <<b.ids[i], b.out[i]>> = Embedded(cs[i])
  <2>1. b.out[i] = Want(TextsOf(cs)[i]) /\ TextsOf(cs)[i] = cs[i][2]
    BY <1>1, <1>3 DEF Given, TextsOf
  <2> QED BY <1>1, <2>1 DEF Embedded
<1> QED BY <1>2, <1>4, <1>5 DEF ToSet

\* The rewritten batch in the place of the old one.
LEMMA BecomesInv ==
  ASSUME EmbedInv, NEW b \in jobs, NEW c, Becomes(b, c), \A cs : Batch(b, cs) => Batch(c, cs),
         UNCHANGED <<server, unchanged, waiting, result>>, cache' \in Nat \cup {None}
  PROVE  EmbedInv'
<1>1. call = "running" /\ call' = call /\ jobs' = (jobs \ {b}) \cup {c}
  BY DEF EmbedInv, Becomes
<1>2. JobsInv /\ WaitingInv /\ ResultInv /\ CoverInv
  BY <1>1 DEF EmbedInv
<1>3. \A x, cs : Batch(x, cs)' <=> Batch(x, cs)
  BY DEF Batch, Queued, Requested, Given, Want
<1>4. ToEmbed' = ToEmbed /\ \A x : Embedded(x)' = Embedded(x)
  BY DEF ToEmbed, Changed, Embedded, Want
<1>5. JobsInv'
  BY <1>1, <1>2, <1>3, <1>4 DEF JobsInv
<1>6. WaitingInv' /\ ResultInv'
  BY <1>2, <1>4 DEF WaitingInv, ResultInv
<1>7. CoverInv'
  <2>1. ASSUME NEW x, InJob(x) PROVE InJob(x)'
    BY <1>1, <1>3, <2>1 DEF InJob
  <2>2. ASSUME NEW x, Waits(x) PROVE Waits(x)'
    BY <2>2 DEF Waits
  <2> QED BY <1>2, <1>4, <2>1, <2>2 DEF CoverInv
<1> QED BY <1>1, <1>5, <1>6, <1>7 DEF EmbedInv

\* A call that failed promises nothing.
LEMMA AbortInv ==
  ASSUME EmbedInv, Abort, UNCHANGED cache
  PROVE  EmbedInv'
  BY DEF EmbedInv, Abort

\* What is in flight and what waits when a call begins.
LEMMA BeginInv ==
  ASSUME EmbedInv, NEW same \in SUBSET DOMAIN Chunks,
         NEW order \in SetToSeqs(DOMAIN Chunks \ same), Begin(same, order)
  PROVE  EmbedInv'
<1> DEFINE F == DOMAIN Chunks \ same
           ss == [i \in DOMAIN order |-> Chunks[order[i]]]
           chunks == FlattenSeq(ss)
           size == WorkingBatchSize(BatchSize)
<1>1. /\ jobs' = {} /\ result' = {} /\ unchanged' = same /\ cache' = cache
      /\ waiting' = Pieces(chunks, size) /\ call' = IF chunks = <<>> THEN "ok" ELSE "running"
  BY DEF Begin
<1>2. cache \in Nat \cup {None} /\ BatchSize \in Nat /\ IsFiniteSet(F)
      /\ \A f \in DOMAIN Chunks : Chunks[f] \in Seq(AllChunks)
  BY EmbedAssumption, FS_Subset DEF EmbedInv
<1>3. order \in [1 .. Cardinality(F) -> F] /\ {order[i] : i \in 1 .. Cardinality(F)} = F /\ Cardinality(F) \in Nat
  <2> HIDE DEF F
  <2> QED BY <1>2, OrderElements, FS_CardinalityType DEF F
<1>4. size \in Nat \ {0}
  BY <1>2, WorkingSize
<1>5. /\ ss \in Seq(Seq(AllChunks)) /\ Len(ss) = Cardinality(F)
      /\ \A i \in 1 .. Cardinality(F) : ss[i] = Chunks[order[i]]
  <2>1. \A i \in 1 .. Cardinality(F) : Chunks[order[i]] \in Seq(AllChunks)
    BY <1>2, <1>3
  <2>2. DOMAIN order = 1 .. Cardinality(F)
    BY <1>3
  <2>3. Cardinality(F) \in Nat /\ ss = [i \in 1 .. Cardinality(F) |-> Chunks[order[i]]]
    BY <1>3, <2>2
  <2> HIDE DEF F, ss
  <2>4. ss \in [1 .. Cardinality(F) -> Seq(AllChunks)] /\ \A i \in 1 .. Cardinality(F) : ss[i] = Chunks[order[i]]
    BY <2>1, <2>3
  <2> QED BY <2>3, <2>4
<1> HIDE DEF F, ss, size
<1>6. chunks \in Seq(AllChunks) /\ ToSet(chunks) = UNION {ToSet(ss[i]) : i \in 1 .. Len(ss)}
  BY <1>5, Flattened
<1>7. ToEmbed' = ToSet(chunks)
  <2>1. ToEmbed' = UNION {ToSet(Chunks[f]) : f \in F}
    BY <1>1 DEF ToEmbed, Changed, F
  <2>2. ASSUME NEW f \in F PROVE \E i \in 1 .. Len(ss) : ss[i] = Chunks[f]
    BY <1>3, <1>5
  <2>3. ASSUME NEW i \in 1 .. Len(ss) PROVE \E f \in F : ss[i] = Chunks[f]
    BY <1>3, <1>5
  <2> QED BY <1>6, <2>1, <2>2, <2>3
<1> HIDE DEF chunks
<1>8. /\ waiting' \in Seq(Seq(AllChunks)) /\ (waiting' = <<>> <=> chunks = <<>>)
      /\ ToSet(chunks) = UNION {ToSet(waiting'[i]) : i \in 1 .. Len(waiting')}
  <2> DEFINE pieces == Pieces(chunks, size)
  <2>1. pieces \in Seq(Seq(AllChunks)) /\ (pieces = <<>> <=> chunks = <<>>) /\ Cuts(pieces, chunks, 0, Len(chunks))
    BY <1>4, <1>6, PiecesCut
  <2>2. waiting' = pieces
    BY <1>1
  <2> HIDE DEF pieces
  <2>3. ToSet(chunks) = UNION {ToSet(pieces[i]) : i \in 1 .. Len(pieces)}
    <3>1. chunks \in Seq(AllChunks)
      BY <1>6
    <3> QED BY ONLY <2>1, <3>1, CutElements
  <2> QED BY <2>1, <2>2, <2>3
<1>9. WaitingInv' /\ JobsInv' /\ ResultInv'
  BY <1>1, <1>7, <1>8 DEF WaitingInv, JobsInv, ResultInv
<1>10. CoverInv'
  BY <1>7, <1>8 DEF CoverInv, Waits
<1> QED BY <1>1, <1>2, <1>8, <1>9, <1>10 DEF EmbedInv

\* A batch that waited is in flight.
LEMMA StartInv ==
  ASSUME EmbedInv, Start
  PROVE  EmbedInv'
<1> DEFINE cs == Head(waiting)
           b == NewBatch(cs)
<1>1. /\ call = "running" /\ call' = "running" /\ waiting # <<>>
      /\ jobs' = jobs \cup {b} /\ waiting' = Tail(waiting)
      /\ UNCHANGED <<server, cache, unchanged, result>>
  BY DEF Start
<1>2. JobsInv /\ WaitingInv /\ ResultInv /\ CoverInv /\ cache \in Nat \cup {None}
  BY <1>1 DEF EmbedInv
<1>3. /\ cs \in Seq(AllChunks) /\ ToSet(cs) \subseteq ToEmbed /\ cs = waiting[1]
      /\ waiting' \in Seq(Seq(AllChunks)) /\ Len(waiting') = Len(waiting) - 1 /\ Len(waiting) \in Nat \ {0}
      /\ \A i \in 1 .. Len(waiting) - 1 : waiting'[i] = waiting[i + 1]
  BY <1>1, <1>2 DEF WaitingInv
<1>4. Batch(b, cs)
  <2> HIDE DEF cs
  <2> QED BY <1>2, <1>3, NewBatchIs
<1>5. \A x, xs : Batch(x, xs)' <=> Batch(x, xs)
  BY <1>1 DEF Batch, Queued, Requested, Given, Want
<1>6. ToEmbed' = ToEmbed /\ \A x : Embedded(x)' = Embedded(x)
  BY <1>1 DEF ToEmbed, Changed, Embedded, Want
<1> HIDE DEF cs, b
<1>7. JobsInv'
  BY <1>1, <1>2, <1>3, <1>4, <1>5, <1>6 DEF JobsInv
<1>8. WaitingInv'
  <2>1. ASSUME NEW i \in 1 .. Len(waiting') PROVE ToSet(waiting'[i]) \subseteq ToEmbed
    <3>1. i + 1 \in 1 .. Len(waiting) /\ waiting'[i] = waiting[i + 1]
      BY <1>3
    <3> QED BY <1>2, <3>1 DEF WaitingInv
  <2> QED BY <1>3, <1>6, <2>1 DEF WaitingInv
<1>9. ResultInv'
  BY <1>1, <1>2, <1>6 DEF ResultInv
<1>10. ASSUME NEW x \in ToEmbed, Waits(x) PROVE InJob(x)' \/ Waits(x)'
  <2>1. PICK i \in 1 .. Len(waiting) : x \in ToSet(waiting[i])
    BY <1>10 DEF Waits
  <2>2. CASE i = 1
    <3>1. x \in ToSet(cs) /\ b \in jobs'
      BY <1>1, <1>3, <2>1, <2>2
    <3> QED BY <1>4, <1>5, <3>1 DEF InJob
  <2>3. CASE i # 1
    <3>1. i - 1 \in 1 .. Len(waiting') /\ waiting'[i - 1] = waiting[i]
      BY <1>3, <2>3
    <3> QED BY <2>1, <3>1 DEF Waits
  <2> QED BY <2>2, <2>3
<1>11. ASSUME NEW x, InJob(x) PROVE InJob(x)'
  BY <1>1, <1>5, <1>11 DEF InJob
<1>12. CoverInv'
  BY <1>1, <1>2, <1>6, <1>10, <1>11 DEF CoverInv
<1> QED BY <1>1, <1>2, <1>7, <1>8, <1>9, <1>12 DEF EmbedInv

\* The ids of a batch that has ended are zipped with its vectors.
LEMMA CollectInv ==
  ASSUME EmbedInv, NEW b \in jobs, Collect(b)
  PROVE  EmbedInv'
<1> DEFINE zipped == {<<b.ids[i], b.out[i]>> : i \in 1 .. Fewer(Len(b.ids), Len(b.out))}
<1>1. /\ b.queue = <<>> /\ jobs' = jobs \ {b} /\ result' = result \cup zipped
      /\ call' = (IF jobs' = {} /\ waiting = <<>> THEN "ok" ELSE call)
      /\ UNCHANGED <<server, cache, unchanged, waiting>>
  BY DEF Collect
<1>2. /\ call = "running" /\ JobsInv /\ WaitingInv /\ ResultInv /\ CoverInv /\ cache \in Nat \cup {None}
  BY DEF EmbedInv
<1>3. \A cs : Batch(b, cs) => zipped = {Embedded(c) : c \in ToSet(cs)}
  BY <1>1, CollectedIs
<1>4. \E cs : Batch(b, cs) /\ ToSet(cs) \subseteq ToEmbed
  BY <1>2 DEF JobsInv
<1>5. \A x, cs : Batch(x, cs)' <=> Batch(x, cs)
  BY <1>1 DEF Batch, Queued, Requested, Given, Want
<1>6. ToEmbed' = ToEmbed /\ \A x : Embedded(x)' = Embedded(x)
  BY <1>1 DEF ToEmbed, Changed, Embedded, Want
<1> HIDE DEF zipped
<1>7. JobsInv' /\ WaitingInv'
  BY <1>1, <1>2, <1>5, <1>6 DEF JobsInv, WaitingInv
<1>8. ResultInv'
  BY <1>1, <1>2, <1>3, <1>4, <1>6 DEF ResultInv
<1>9. ASSUME NEW x, InJob(x) PROVE Embedded(x) \in result' \/ InJob(x)'
  <2>0. PICK y \in jobs : \E cs : Batch(y, cs) /\ x \in ToSet(cs)
    BY <1>9 DEF InJob
  <2>1. PICK cs : Batch(y, cs) /\ x \in ToSet(cs)
    BY <2>0
  <2>2. CASE y = b
    BY <1>1, <1>3, <2>1, <2>2
  <2>3. CASE y # b
    BY <1>1, <1>5, <2>1, <2>3 DEF InJob
  <2> QED BY <2>2, <2>3
<1>10. ASSUME NEW x, Waits(x) PROVE Waits(x)'
  BY <1>1, <1>10 DEF Waits
<1>11. CoverInv'
  BY <1>1, <1>2, <1>6, <1>9, <1>10 DEF CoverInv
<1> QED BY <1>1, <1>2, <1>7, <1>8, <1>11 DEF EmbedInv

\* Batches in flight are batches.
LEMMA JobIs ==
  ASSUME EmbedInv, NEW b \in jobs
  PROVE  call = "running" /\ \E cs : Batch(b, cs)
  BY DEF EmbedInv, JobsInv

\* The answer to a request, in whatever order its items come.
LEMMA SucceedInv ==
  ASSUME EmbedInv, NEW b \in jobs, Succeed(b)
  PROVE  EmbedInv'
<1>1. PICK data \in Answers(Head(b.requests)) : Becomes(b, Received(b, InOrder(data)))
  BY DEF Succeed
<1>2. b.queue # <<>> /\ UNCHANGED <<server, cache, unchanged, waiting, result>>
  BY DEF Succeed
<1>3. ASSUME NEW cs, Batch(b, cs) PROVE Batch(Received(b, InOrder(data)), cs)
  <2>1. Head(b.requests) \in Seq(Texts)
    BY <1>2, <1>3, BatchHead
  <2>2. InOrder(data) = Wants(Head(b.requests))
    BY <2>1, AnswersInOrder
  <2> QED BY <1>2, <1>3, <2>2, ReceivedIs
<1>4. cache' \in Nat \cup {None}
  BY <1>2 DEF EmbedInv
<1> QED BY <1>1, <1>2, <1>3, <1>4, BecomesInv

\* The server refuses the size: the input is halved, or the call fails.
LEMMA RefuseInv ==
  ASSUME EmbedInv, NEW b \in jobs, Refuse(b)
  PROVE  EmbedInv'
<1>1. b.queue # <<>> /\ UNCHANGED <<server, unchanged, waiting, result>>
  BY DEF Refuse
<1>2. CASE Len(Head(b.queue)) > 1
  <2>1. Becomes(b, Split(b)) /\ Remember((Len(Head(b.queue)) + 1) \div 2)
    BY <1>2 DEF Refuse
  <2>2. ASSUME NEW cs, Batch(b, cs) PROVE Batch(Split(b), cs)
    BY <1>1, <1>2, <2>2, SplitIs
  <2>3. Len(Head(b.queue)) \in Nat
    <3>1. PICK cs : Batch(b, cs)
      BY JobIs
    <3> QED BY <1>1, <3>1, BatchHead
  <2>4. (Len(Head(b.queue)) + 1) \div 2 \in Nat
    <3>1. \A n \in Nat : (n + 1) \div 2 \in Nat
      OBVIOUS
    <3> QED BY <2>3, <3>1
  <2>5. cache' \in Nat \cup {None}
    BY <2>1, <2>4 DEF EmbedInv, Remember, Fewer
  <2> QED BY <1>1, <2>1, <2>2, <2>5, BecomesInv
<1>3. CASE ~(Len(Head(b.queue)) > 1)
  BY <1>3, AbortInv DEF Refuse
<1> QED BY <1>2, <1>3

\* Another attempt at the same request.
LEMMA RetryInv ==
  ASSUME EmbedInv, NEW b \in jobs, NEW why, Retry(b, why)
  PROVE  EmbedInv'
<1> DEFINE c == [b EXCEPT !.attempt = @ + 1]
<1>1. Becomes(b, c) /\ UNCHANGED <<server, cache, unchanged, waiting, result>>
  BY DEF Retry
<1>2. ASSUME NEW cs, Batch(b, cs) PROVE Batch(c, cs)
  <2>1. /\ c \in Batches /\ c.ids = b.ids /\ c.out = b.out /\ c.queue = b.queue
        /\ c.got = b.got /\ c.requests = b.requests
    <3>1. b \in Batches /\ b.attempt \in Nat
      BY <1>2 DEF Batch, Batches
    <3>2. b.attempt + 1 \in Nat
      BY <3>1
    <3>3. \A n \in Nat : [b EXCEPT !.attempt = n] \in Batches
      BY <3>1 DEF Batches
    <3>4. c \in Batches
      BY <3>2, <3>3
    <3>5. c.ids = b.ids /\ c.out = b.out /\ c.queue = b.queue /\ c.got = b.got /\ c.requests = b.requests
      BY <3>1 DEF Batches
    <3> QED BY <3>4, <3>5
  <2> HIDE DEF c
  <2> QED BY <1>2, <2>1 DEF Batch, Requested
<1>3. cache' \in Nat \cup {None}
  BY <1>1 DEF EmbedInv
<1> HIDE DEF c
<1> QED BY <1>1, <1>2, <1>3, BecomesInv

\* Nothing is in flight at first.
LEMMA InitEmbed == Init => EmbedInv
  BY DEF Init, EmbedInv

\* The invariant is of the variables only.
LEMMA SameEmbed ==
  ASSUME EmbedInv, UNCHANGED vars
  PROVE  EmbedInv'
<1>1. \A x, cs : Batch(x, cs)' <=> Batch(x, cs)
  BY DEF vars, Batch, Queued, Requested, Given, Want
<1>2. ToEmbed' = ToEmbed /\ \A x : Embedded(x)' = Embedded(x)
  BY DEF vars, ToEmbed, Changed, Embedded, Want
<1>3. UNCHANGED <<cache, call, waiting, jobs, result>>
  BY DEF vars
<1>4. JobsInv' <=> JobsInv
  BY <1>1, <1>2, <1>3 DEF JobsInv
<1>5. (WaitingInv' <=> WaitingInv) /\ (ResultInv' <=> ResultInv)
  BY <1>2, <1>3 DEF WaitingInv, ResultInv
<1>6. CoverInv' <=> CoverInv
  BY <1>1, <1>2, <1>3 DEF CoverInv, InJob, Waits
<1> QED BY <1>3, <1>4, <1>5, <1>6 DEF EmbedInv

\* Every step keeps the invariant.
LEMMA NextEmbed ==
  ASSUME EmbedInv, [Next]_vars
  PROVE  EmbedInv'
<1>1. ASSUME NEW same \in SUBSET DOMAIN Chunks, NEW order \in SetToSeqs(DOMAIN Chunks \ same), Begin(same, order)
      PROVE  EmbedInv'
  BY <1>1, BeginInv
<1>2. CASE Start
  BY <1>2, StartInv
<1>3. ASSUME NEW b \in jobs, Succeed(b) PROVE EmbedInv'
  BY <1>3, SucceedInv
<1>4. ASSUME NEW b \in jobs, Refuse(b) PROVE EmbedInv'
  BY <1>4, RefuseInv
<1>5. ASSUME NEW b \in jobs, Collect(b) PROVE EmbedInv'
  BY <1>5, CollectInv
<1>6. ASSUME NEW b \in jobs, NEW why, Retry(b, why) PROVE EmbedInv'
  BY <1>6, RetryInv
<1>7. ASSUME NEW b \in jobs, NEW why, GiveUp(b, why) PROVE EmbedInv'
  BY <1>7, AbortInv DEF GiveUp
<1>8. CASE UNCHANGED vars
  BY <1>8, SameEmbed
<1> QED BY <1>1, <1>2, <1>3, <1>4, <1>5, <1>6, <1>7, <1>8 DEF Next, Step

\* Every chunk of the changed files has, when a call succeeds, the vector of its own text
\* (embed_chunks and embed_inputs_adaptively): for any files, sizes, limits and answers.
THEOREM VectorsAreRight == Spec => []VectorsAreOfTheirTexts
<1>1. Init => EmbedInv
  BY InitEmbed
<1>2. EmbedInv /\ [Next]_vars => EmbedInv'
  BY NextEmbed
<1>3. EmbedInv => VectorsAreOfTheirTexts
  BY EmbedInvSafe
<1> QED BY <1>1, <1>2, <1>3, PTL DEF Spec
=============================================================================
