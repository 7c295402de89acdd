----------------------------- MODULE Induction -----------------------------
(***************************************************************************)
(* Induction and recursion over the natural numbers, stated of sets and    *)
(* functions.  The library states them of operators, which the backends    *)
(* at hand cannot instantiate; what they can use is that < is well-founded.*)
(* And the elements of sequences, which several modules argue by.          *)
(***************************************************************************)
EXTENDS Naturals, SequencesExt, WellFoundedInduction, TLAPS

\* A non-empty set of natural numbers has a least element.
LEMMA Least ==
  ASSUME NEW T, T \subseteq Nat, T # {}
  PROVE  \E x \in T : \A y \in T : ~(y < x)
<1> DEFINE R == {ss \in Nat \X Nat : ss[1] < ss[2]}
<1>1. IsWellFoundedOn(R, Nat)
  BY NatLessThanWellFounded DEF OpToRel
<1> HIDE DEF R
<1>2. \E x \in T : \A y \in T : ~ (<<y, x>> \in R)
  BY <1>1, WFMin
<1> QED BY <1>2 DEF R

\* A set with 0 and with the successors of its elements has all natural numbers.
LEMMA NatSetInduction ==
  ASSUME NEW T, 0 \in T, \A n \in Nat : n \in T => n + 1 \in T
  PROVE  Nat \subseteq T
<1> SUFFICES ASSUME Nat \ T # {} PROVE FALSE
  OBVIOUS
<1>1. PICK x \in Nat \ T : \A y \in Nat \ T : ~(y < x)
  BY Least
<1>2. x # 0 /\ x - 1 \in Nat /\ x - 1 < x
  BY <1>1
<1>3. x - 1 \in T /\ (x - 1) + 1 = x
  BY <1>1, <1>2
<1> QED BY <1>1, <1>2, <1>3

\* The function that begins with v and goes on as F says.
Iterates(g, V, v, F) == g \in [Nat -> V] /\ g[0] = v /\ \A n \in Nat : g[n + 1] = F[<<n, g[n]>>]

\* It exists.
LEMMA NatRecursion ==
  ASSUME NEW V, NEW v \in V, NEW F \in [Nat \X V -> V]
  PROVE  \E g : Iterates(g, V, v, F)
<1> DEFINE Partial(n) == {h \in [0 .. n -> V] : h[0] = v /\ \A i \in 0 .. n : i < n => h[i + 1] = F[<<i, h[i]>>]}
           T == {n \in Nat : Partial(n) # {}}
           U == {n \in Nat : \A m \in Nat : n <= m =>
                  \A h \in Partial(n), k \in Partial(m) : h[n] = k[n]}
<1>1. 0 \in T
  <2>1. [i \in 0 .. 0 |-> v] \in Partial(0)
    OBVIOUS
  <2> QED BY <2>1
<1>2. ASSUME NEW n \in Nat, n \in T PROVE n + 1 \in T
  <2>1. PICK h \in Partial(n) : TRUE
    BY <1>2
  <2> DEFINE k == [i \in 0 .. n + 1 |-> IF i = n + 1 THEN F[<<n, h[n]>>] ELSE h[i]]
  <2>2. h[n] \in V /\ F[<<n, h[n]>>] \in V
    BY <2>1
  <2>3. k \in [0 .. n + 1 -> V] /\ k[0] = v
    BY <2>1, <2>2
  <2>4. ASSUME NEW i \in 0 .. n + 1, i < n + 1 PROVE k[i + 1] = F[<<i, k[i]>>]
    BY <2>1, <2>4
  <2>5. k \in Partial(n + 1)
    BY <2>3, <2>4
  <2> HIDE DEF Partial
  <2> QED BY <2>5
<1>3. Nat \subseteq T
  BY <1>1, <1>2, NatSetInduction
<1>4. 0 \in U
  OBVIOUS
<1>5. ASSUME NEW n \in Nat, n \in U PROVE n + 1 \in U
  <2>1. ASSUME NEW m \in Nat, n + 1 <= m, NEW h \in Partial(n + 1), NEW k \in Partial(m)
        PROVE  h[n + 1] = k[n + 1]
    <3> DEFINE r == [i \in 0 .. n |-> h[i]]
    <3>1. r \in Partial(n) /\ r[n] = h[n]
      BY <2>1
    <3>2. r[n] = k[n]
      <4> HIDE DEF r, Partial
      <4> QED BY <1>5, <2>1, <3>1
    <3>3. h[n + 1] = F[<<n, h[n]>>] /\ k[n + 1] = F[<<n, k[n]>>]
      BY <2>1
    <3> QED BY <3>1, <3>2, <3>3
  <2> QED BY <2>1
<1>6. Nat \subseteq U
  BY <1>4, <1>5, NatSetInduction
<1> DEFINE At(n) == CHOOSE h \in Partial(n) : TRUE
           g == [n \in Nat |-> At(n)[n]]
<1>7. ASSUME NEW n \in Nat PROVE At(n) \in Partial(n)
  <2>1. \E h \in Partial(n) : TRUE
    BY <1>3
  <2> HIDE DEF Partial
  <2> QED BY <2>1
<1>8. g \in [Nat -> V]
  <2>1. ASSUME NEW n \in Nat PROVE At(n)[n] \in V
    <3> HIDE DEF At
    <3> QED BY <1>7
  <2> HIDE DEF At
  <2> QED BY <2>1
<1>9. g[0] = v
  <2> HIDE DEF At
  <2> QED BY <1>7
<1>10. ASSUME NEW n \in Nat PROVE g[n + 1] = F[<<n, g[n]>>]
  <2> HIDE DEF At
  <2>1. At(n) \in Partial(n) /\ At(n + 1) \in Partial(n + 1) /\ g[n + 1] = At(n + 1)[n + 1] /\ g[n] = At(n)[n]
    BY <1>7
  <2>2. At(n + 1)[n + 1] = F[<<n, At(n + 1)[n]>>]
    BY <2>1
  <2>3. At(n)[n] = At(n + 1)[n]
    <3> HIDE DEF Partial
    <3> QED BY <1>6, <2>1
  <2> QED BY <2>1, <2>2, <2>3
<1> HIDE DEF g
<1> QED BY <1>8, <1>9, <1>10 DEF Iterates

\* The function that begins with v and goes on with F exists, in the form in which
\* recursive functions are defined.
LEMMA StepsExist ==
  ASSUME NEW V, NEW v \in V, NEW F \in [V -> V]
  PROVE  \E g \in [Nat -> V] : g = [n \in Nat |-> IF n = 0 THEN v ELSE F[g[n - 1]]]
<1> DEFINE H == [p \in Nat \X V |-> F[p[2]]]
<1>1. H \in [Nat \X V -> V] /\ \A n \in Nat, x \in V : H[<<n, x>>] = F[x]
  OBVIOUS
<1> HIDE DEF H
<1>2. PICK g : Iterates(g, V, v, H)
  BY <1>1, NatRecursion
<1>3. g \in [Nat -> V] /\ g[0] = v /\ \A n \in Nat : g[n + 1] = F[g[n]]
  BY <1>1, <1>2 DEF Iterates
<1> DEFINE r == [n \in Nat |-> IF n = 0 THEN v ELSE F[g[n - 1]]]
<1>4. ASSUME NEW n \in Nat PROVE g[n] = r[n]
  <2>1. CASE n = 0
    BY <1>3, <2>1
  <2>2. CASE n # 0
    <3>1. n - 1 \in Nat /\ (n - 1) + 1 = n
      BY <2>2
    <3> QED BY <1>3, <2>2, <3>1
  <2> QED BY <2>1, <2>2
<1>5. g = [n \in Nat |-> g[n]] /\ r = [n \in Nat |-> r[n]]
  BY <1>3
<1>6. g = r
  <2> HIDE DEF r
  <2> QED BY <1>4, <1>5
<1> QED BY <1>3, <1>6

-----------------------------------------------------------------------------
(* Sequences *)

\* The elements of two sequences in a row.
LEMMA ConcatElements ==
  ASSUME NEW T, NEW s \in Seq(T), NEW t \in Seq(T)
  PROVE  ToSet(s \o t) = ToSet(s) \cup ToSet(t)
<1>1. s \o t \in Seq(T) /\ Len(s \o t) = Len(s) + Len(t)
  OBVIOUS
<1>2. ASSUME NEW i \in 1 .. Len(s) PROVE (s \o t)[i] = s[i] /\ i \in 1 .. Len(s \o t)
  OBVIOUS
<1>3. ASSUME NEW i \in 1 .. Len(t) PROVE (s \o t)[i + Len(s)] = t[i] /\ i + Len(s) \in 1 .. Len(s \o t)
  OBVIOUS
<1>4. ASSUME NEW x \in ToSet(s \o t) PROVE x \in ToSet(s) \cup ToSet(t)
  <2>1. PICK i \in 1 .. Len(s) + Len(t) : x = (s \o t)[i]
    BY <1>1, <1>4 DEF ToSet
  <2>2. CASE i <= Len(s)
    BY <1>2, <2>1, <2>2 DEF ToSet
  <2>3. CASE i > Len(s)
    <3>1. i - Len(s) \in 1 .. Len(t) /\ (i - Len(s)) + Len(s) = i
      BY <2>1, <2>3
    <3> QED BY <1>3, <2>1, <3>1 DEF ToSet
  <2> QED BY <2>1, <2>2, <2>3
<1>5. DOMAIN (s \o t) = 1 .. Len(s \o t) /\ DOMAIN s = 1 .. Len(s) /\ DOMAIN t = 1 .. Len(t)
  BY <1>1
<1>6. ASSUME NEW x \in ToSet(s) PROVE x \in ToSet(s \o t)
  BY <1>2, <1>5, <1>6 DEF ToSet
<1>7. ASSUME NEW x \in ToSet(t) PROVE x \in ToSet(s \o t)
  BY <1>3, <1>5, <1>7 DEF ToSet
<1> QED BY <1>4, <1>6, <1>7
=============================================================================
