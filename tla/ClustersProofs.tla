--------------------------- MODULE ClustersProofs ---------------------------
(***************************************************************************)
(* Clusters, their ids and topics stay in step with the documents: proofs  *)
(* about Clusters for any documents, vectors, definitions and thresholds,  *)
(* whatever groupings the algorithms answer.                               *)
(*                                                                         *)
(* A state of clusters is in order if its groups and parents list their    *)
(* members as they should and have ids of their own below the counter.     *)
(* Each operation of the code takes a state that is in order to another,   *)
(* whose new ids are not below the counter of the first.                   *)
(***************************************************************************)
EXTENDS Clusters, Induction, FiniteSetTheorems

\* Members: a document is listed once, and a parent lists the members of its children.
Listed(s) ==
  /\ \A i, j \in DOMAIN s.groups : i # j => s.groups[i].members \cap s.groups[j].members = {}
  /\ \A i \in DOMAIN s.groups : s.groups[i].members \cap s.unclustered = {}
  /\ \A p \in DOMAIN s.parents : \A e :
       e \in s.parents[p].members
         <=> \E i \in DOMAIN s.groups : s.groups[i].parent = s.parents[p].id /\ e \in s.groups[i].members

\* Ids: all different, and below the counter.
Numbered(s) ==
  /\ \A i, j \in DOMAIN s.groups : s.groups[i].id = s.groups[j].id => i = j
  /\ \A p, q \in DOMAIN s.parents : s.parents[p].id = s.parents[q].id => p = q
  /\ \A i \in DOMAIN s.groups, p \in DOMAIN s.parents : s.groups[i].id # s.parents[p].id
  /\ \A i \in DOMAIN s.groups : s.groups[i].id < s.next
  /\ \A p \in DOMAIN s.parents : s.parents[p].id < s.next

InOrder(s) == s \in ClusterState /\ Listed(s) /\ Numbered(s)

\* The ids of t are those of s or new ones.
Continues(t, s) ==
  /\ s.next <= t.next
  /\ \A id \in IdsOf(t.groups) \cup IdsOf(t.parents) :
       id \in IdsOf(s.groups) \cup IdsOf(s.parents) \/ s.next <= id

\* Nothing but members differs.
SameNumbers(t, s) ==
  /\ DOMAIN t.groups = DOMAIN s.groups /\ DOMAIN t.parents = DOMAIN s.parents /\ t.next = s.next
  /\ \A i \in DOMAIN s.groups : t.groups[i].id = s.groups[i].id /\ t.groups[i].parent = s.groups[i].parent
  /\ \A p \in DOMAIN s.parents : t.parents[p].id = s.parents[p].id

-----------------------------------------------------------------------------
(* One document *)

\* A state with the same numbers is numbered as well, and continues the other.
LEMMA NumbersStay ==
  ASSUME NEW s \in ClusterState, NEW t \in ClusterState, Numbered(s), SameNumbers(t, s)
  PROVE  Numbered(t) /\ Continues(t, s)
<1>1. s.next \in Nat /\ t.next = s.next
  BY DEF ClusterState, SameNumbers
<1>2. IdsOf(t.groups) = IdsOf(s.groups) /\ IdsOf(t.parents) = IdsOf(s.parents)
  BY DEF SameNumbers, IdsOf
<1>3. Numbered(t)
  BY DEF Numbered, SameNumbers
<1> QED BY <1>1, <1>2, <1>3 DEF Continues

\* remove_document: the document is listed nowhere afterwards.
LEMMA RemovalInOrder ==
  ASSUME NEW s, InOrder(s), NEW d
  PROVE  LET r == RemoveDocument(s, d)
         IN  /\ InOrder(r) /\ SameNumbers(r, s)
             /\ d \notin r.unclustered
             /\ \A i \in DOMAIN r.groups : d \notin r.groups[i].members
<1> DEFINE r == RemoveDocument(s, d)
<1>1. s \in ClusterState /\ s.groups \in Seq(ClusterInfo) /\ s.parents \in Seq(ParentInfo)
  BY DEF InOrder, ClusterState
<1>2. ASSUME NEW i \in DOMAIN s.groups
      PROVE  LET g == [s.groups[i] EXCEPT !.members = @ \ {d}]
             IN  g \in ClusterInfo /\ g.id = s.groups[i].id /\ g.parent = s.groups[i].parent
                 /\ g.members = s.groups[i].members \ {d}
  <2>1. s.groups[i] \in ClusterInfo
    BY <1>1
  <2> QED BY <2>1 DEF ClusterInfo
<1>3. ASSUME NEW i \in DOMAIN s.parents
      PROVE  LET g == [s.parents[i] EXCEPT !.members = @ \ {d}]
             IN  g \in ParentInfo /\ g.id = s.parents[i].id /\ g.members = s.parents[i].members \ {d}
  <2>1. s.parents[i] \in ParentInfo
    BY <1>1
  <2> QED BY <2>1 DEF ParentInfo
<1> DEFINE gs == WithoutMember(s.groups, d)
           ps == WithoutMember(s.parents, d)
<1>4. /\ gs \in Seq(ClusterInfo) /\ DOMAIN gs = DOMAIN s.groups
      /\ \A i \in DOMAIN s.groups : gs[i].id = s.groups[i].id /\ gs[i].parent = s.groups[i].parent
                                   /\ gs[i].members = s.groups[i].members \ {d}
  BY <1>1, <1>2 DEF WithoutMember
<1>5. /\ ps \in Seq(ParentInfo) /\ DOMAIN ps = DOMAIN s.parents
      /\ \A i \in DOMAIN s.parents : ps[i].id = s.parents[i].id /\ ps[i].members = s.parents[i].members \ {d}
  <2>1. ps = [i \in DOMAIN s.parents |-> [s.parents[i] EXCEPT !.members = @ \ {d}]]
    BY DEF WithoutMember
  <2>2. DOMAIN s.parents = 1 .. Len(s.parents) /\ Len(s.parents) \in Nat
    BY <1>1
  <2>3. ps \in [1 .. Len(s.parents) -> ParentInfo]
    BY <1>3, <2>1, <2>2
  <2> QED BY <1>3, <2>1, <2>2, <2>3
<1> HIDE DEF gs, ps
<1>6. r = [s EXCEPT !.groups = gs, !.parents = ps, !.unclustered = s.unclustered \ {d}]
  BY DEF RemoveDocument, gs, ps
<1> HIDE DEF r
<1>10. /\ r \in ClusterState /\ r.groups = gs /\ r.parents = ps /\ r.next = s.next
       /\ r.unclustered = s.unclustered \ {d}
  BY <1>1, <1>4, <1>5, <1>6 DEF ClusterState
<1>7. SameNumbers(r, s)
  BY <1>4, <1>5, <1>10 DEF SameNumbers
<1>8. Listed(r)
  <2>1. Listed(s)
    BY DEF InOrder
  <2>2. ASSUME NEW p \in DOMAIN r.parents, NEW e
        PROVE  e \in r.parents[p].members
                 <=> \E i \in DOMAIN r.groups : r.groups[i].parent = r.parents[p].id /\ e \in r.groups[i].members
    <3>1. p \in DOMAIN s.parents /\ r.parents[p].id = s.parents[p].id
          /\ (e \in r.parents[p].members <=> e \in s.parents[p].members /\ e # d)
      BY <1>5, <1>10
    <3>2. e \in s.parents[p].members
            <=> \E i \in DOMAIN s.groups : s.groups[i].parent = s.parents[p].id /\ e \in s.groups[i].members
      BY <2>1, <3>1 DEF Listed
    <3> QED BY <1>4, <1>10, <3>1, <3>2
  <2> QED BY <1>4, <1>10, <2>1, <2>2 DEF Listed
<1>9. Numbered(r)
  BY <1>1, <1>10, <1>7, NumbersStay DEF InOrder
<1>11. d \notin r.unclustered /\ \A i \in DOMAIN r.groups : d \notin r.groups[i].members
  BY <1>4, <1>10
<1> QED BY <1>7, <1>8, <1>9, <1>10, <1>11 DEF InOrder, r

\* The document is put into one group, and into the group's parent.
LEMMA PlacingInOrder ==
  ASSUME NEW r, InOrder(r), NEW d \in Docs, NEW i \in DOMAIN r.groups, NEW n \in Nat,
         d \notin r.unclustered, \A j \in DOMAIN r.groups : d \notin r.groups[j].members
  PROVE  LET t == [r EXCEPT
                    !.groups = [r.groups EXCEPT ![i] = WithMember(r.groups[i], d)],
                    !.parents = [p \in DOMAIN r.parents |-> IF r.parents[p].id = r.groups[i].parent
                                                           THEN WithMember(r.parents[p], d) ELSE r.parents[p]],
                    !.since = n]
         IN  InOrder(t) /\ SameNumbers(t, r)
<1>1. r \in ClusterState /\ r.groups \in Seq(ClusterInfo) /\ r.parents \in Seq(ParentInfo)
  BY DEF InOrder, ClusterState
<1>2. r.groups[i] \in ClusterInfo
  BY <1>1
<1> DEFINE g == WithMember(r.groups[i], d)
           gs == [r.groups EXCEPT ![i] = g]
           Parent(p) == IF r.parents[p].id = r.groups[i].parent
                        THEN WithMember(r.parents[p], d) ELSE r.parents[p]
           ps == [p \in DOMAIN r.parents |-> Parent(p)]
           t == [r EXCEPT !.groups = gs, !.parents = ps, !.since = n]
<1>3. g \in ClusterInfo /\ g.id = r.groups[i].id /\ g.parent = r.groups[i].parent
      /\ g.members = r.groups[i].members \cup {d}
  BY <1>2 DEF ClusterInfo, WithMember
<1> HIDE DEF g
<1>4. /\ gs \in Seq(ClusterInfo) /\ DOMAIN gs = DOMAIN r.groups
      /\ \A j \in DOMAIN r.groups : gs[j].id = r.groups[j].id /\ gs[j].parent = r.groups[j].parent
                                   /\ gs[j].members = r.groups[j].members \cup (IF j = i THEN {d} ELSE {})
  BY <1>1, <1>3
<1>5. ASSUME NEW p \in DOMAIN r.parents
      PROVE  Parent(p) \in ParentInfo /\ Parent(p).id = r.parents[p].id
             /\ Parent(p).members = r.parents[p].members
                                      \cup (IF r.parents[p].id = r.groups[i].parent THEN {d} ELSE {})
  <2>1. r.parents[p] \in ParentInfo
    BY <1>1
  <2> QED BY <2>1 DEF ParentInfo, WithMember
<1> HIDE DEF Parent
<1>6. /\ ps \in Seq(ParentInfo) /\ DOMAIN ps = DOMAIN r.parents
      /\ \A p \in DOMAIN r.parents : /\ ps[p].id = r.parents[p].id
                                     /\ ps[p].members = r.parents[p].members
                                          \cup (IF r.parents[p].id = r.groups[i].parent THEN {d} ELSE {})
  <2>1. DOMAIN r.parents = 1 .. Len(r.parents) /\ Len(r.parents) \in Nat
    BY <1>1
  <2>2. ps \in [1 .. Len(r.parents) -> ParentInfo]
    BY <1>5, <2>1
  <2> QED BY <1>5, <2>1, <2>2
<1> HIDE DEF gs, ps
<1>8. /\ t \in ClusterState /\ t.groups = gs /\ t.parents = ps /\ t.next = r.next
      /\ t.unclustered = r.unclustered
  BY <1>1, <1>4, <1>6 DEF ClusterState
<1> HIDE DEF t
<1>9. SameNumbers(t, r)
  BY <1>4, <1>6, <1>8 DEF SameNumbers
<1>10. Listed(t)
  <2>1. Listed(r)
    BY DEF InOrder
  <2>2. ASSUME NEW p \in DOMAIN t.parents, NEW e
        PROVE  e \in t.parents[p].members
                 <=> \E j \in DOMAIN t.groups : t.groups[j].parent = t.parents[p].id /\ e \in t.groups[j].members
    <3>1. p \in DOMAIN r.parents /\ t.parents[p].id = r.parents[p].id
          /\ (e \in t.parents[p].members
               <=> e \in r.parents[p].members \/ (r.parents[p].id = r.groups[i].parent /\ e = d))
      BY <1>6, <1>8
    <3>2. e \in r.parents[p].members
            <=> \E j \in DOMAIN r.groups : r.groups[j].parent = r.parents[p].id /\ e \in r.groups[j].members
      BY <2>1, <3>1 DEF Listed
    <3> QED BY <1>4, <1>8, <3>1, <3>2
  <2>3. ASSUME NEW j \in DOMAIN t.groups, NEW k \in DOMAIN t.groups, j # k
        PROVE  t.groups[j].members \cap t.groups[k].members = {}
    BY <1>4, <1>8, <2>1, <2>3 DEF Listed
  <2>4. ASSUME NEW j \in DOMAIN t.groups
        PROVE  t.groups[j].members \cap t.unclustered = {}
    BY <1>4, <1>8, <2>1 DEF Listed
  <2> QED BY <2>2, <2>3, <2>4 DEF Listed
<1>11. Numbered(t)
  BY <1>1, <1>8, <1>9, NumbersStay DEF InOrder
<1> QED BY <1>8, <1>9, <1>10, <1>11 DEF InOrder, t, gs, ps, g, Parent

\* assign_incremental, whichever group is chosen.
LEMMA AssignmentInOrder ==
  ASSUME NEW s, InOrder(s), NEW d \in Docs, NEW vs, NEW t \in AssignIncremental(s, vs, d)
  PROVE  InOrder(t) /\ SameNumbers(t, s)
<1> DEFINE r == RemoveDocument(s, d)
<1>1. /\ InOrder(r) /\ SameNumbers(r, s)
      /\ d \notin r.unclustered /\ \A i \in DOMAIN r.groups : d \notin r.groups[i].members
  BY RemovalInOrder
<1> HIDE DEF r
<1>2. r \in ClusterState
  BY <1>1 DEF InOrder
<1>3. CASE IsZero(vs[d])
  <2>1. t = [r EXCEPT !.unclustered = @ \cup {d}]
    BY <1>3 DEF AssignIncremental, r
  <2>2. /\ t \in ClusterState /\ t.groups = r.groups /\ t.parents = r.parents /\ t.next = r.next
        /\ t.unclustered = r.unclustered \cup {d}
    BY <1>2, <2>1 DEF ClusterState
  <2>3. Listed(t)
    BY <1>1, <2>2 DEF Listed, InOrder
  <2>4. Numbered(t)
    BY <1>1, <2>2 DEF Numbered, InOrder
  <2>5. SameNumbers(t, s)
    BY <1>1, <2>2 DEF SameNumbers
  <2> QED BY <2>2, <2>3, <2>4, <2>5 DEF InOrder
<1>4. CASE ~IsZero(vs[d])
  <2> DEFINE n == IF IsMember(s, d) THEN r.since ELSE r.since + 1
             Place(i) == [r EXCEPT
               !.groups = [r.groups EXCEPT ![i] = WithMember(r.groups[i], d)],
               !.parents = [p \in DOMAIN r.parents |-> IF r.parents[p].id = r.groups[i].parent
                                                      THEN WithMember(r.parents[p], d) ELSE r.parents[p]],
               !.since = n]
  <2>1. PICK i \in Destinations(r, vs, d) : t = Place(i)
    BY <1>4 DEF AssignIncremental, r
  <2>2. i \in DOMAIN r.groups
    BY <2>1 DEF Destinations, NeighborVote
  <2>3. n \in Nat
    BY <1>2 DEF ClusterState
  <2> HIDE DEF n
  <2>4. InOrder(t) /\ SameNumbers(t, r)
    BY <1>1, <2>1, <2>2, <2>3, PlacingInOrder
  <2> QED BY <1>1, <2>4 DEF SameNumbers
<1> QED BY <1>3, <1>4
-----------------------------------------------------------------------------
(* Identity *)

\* No group is in two pairs.
OneToOne(pairs) == \A x, y \in pairs : x[1] = y[1] \/ x[2] = y[2] => x = y

\* match_to_previous pairs groups one to one, whatever they share.
LEMMA MatchesOneToOne ==
  ASSUME NEW groups, Len(groups) \in Nat, NEW prev
  PROVE  Matches(groups, prev) \subseteq (DOMAIN prev.groups) \X (DOMAIN groups) /\ OneToOne(Matches(groups, prev))
<1> DEFINE all == (DOMAIN prev.groups) \X (DOMAIN groups)
           shared == [x \in all |-> Cardinality(prev.groups[x[1]].members \cap groups[x[2]])]
           either == [x \in all |-> Cardinality(prev.groups[x[1]].members \cup groups[x[2]])]
           pairs == {x \in DOMAIN shared : shared[x] > 0 /\ 10 * shared[x] >= 3 * either[x]}
           Before(x, y) == \/ shared[x] * either[y] > shared[y] * either[x]
                           \/ /\ shared[x] * either[y] = shared[y] * either[x]
                              /\ \/ prev.groups[x[1]].id < prev.groups[y[1]].id
                                 \/ prev.groups[x[1]].id = prev.groups[y[1]].id /\ x[2] < y[2]
           Free(taken) == {x \in pairs : \A y \in taken : x[1] # y[1] /\ x[2] # y[2]}
           Best(some) == {x \in some : \A y \in some \ {x} : Before(x, y)}
           Take(taken) == IF Best(Free(taken)) = {} THEN taken
                          ELSE taken \cup {CHOOSE x \in Best(Free(taken)) : TRUE}
           Matching(m) == m = [n \in Nat |-> IF n = 0 THEN {} ELSE Take(m[n - 1])]
           m == CHOOSE f : Matching(f)
           V == {T \in SUBSET pairs : OneToOne(T)}
           F == [T \in V |-> Take(T)]
<1>1. Matches(groups, prev) = m[Len(groups)]
  BY DEF Matches
<1>2. pairs \subseteq all
  OBVIOUS
<1> HIDE DEF pairs, Before
<1>3. ASSUME NEW T \in V PROVE Take(T) \in V
  <2>1. CASE Best(Free(T)) = {}
    BY <2>1
  <2>2. CASE Best(Free(T)) # {}
    <3> DEFINE x == CHOOSE x \in Best(Free(T)) : TRUE
    <3>1. x \in Best(Free(T))
      BY <2>2
    <3>2. x \in pairs /\ \A y \in T : x[1] # y[1] /\ x[2] # y[2]
      BY <3>1
    <3>3. Take(T) = T \cup {x}
      BY <2>2
    <3> HIDE DEF x, Take
    <3> QED BY <3>2, <3>3 DEF OneToOne
  <2> QED BY <2>1, <2>2
<1>4. {} \in V
  BY DEF OneToOne
<1> HIDE DEF Take, V
<1>5. F \in [V -> V]
  BY <1>3
<1> HIDE DEF F
<1>6. PICK g \in [Nat -> V] : g = [n \in Nat |-> IF n = 0 THEN {} ELSE F[g[n - 1]]]
  BY <1>4, <1>5, StepsExist
<1>7. Matching(g)
  <2>1. ASSUME NEW n \in Nat, n # 0 PROVE F[g[n - 1]] = Take(g[n - 1])
    <3>1. n - 1 \in Nat
      BY <2>1
    <3> QED BY <3>1 DEF F
  <2> QED BY <1>6, <2>1
<1>8. Matching(m)
  BY <1>7
<1> HIDE DEF m
<1>9. m[0] = {} /\ \A n \in Nat : m[n + 1] = Take(m[n])
  <2>1. \A n \in Nat : m[n] = IF n = 0 THEN {} ELSE Take(m[n - 1])
    BY <1>8
  <2>2. ASSUME NEW n \in Nat PROVE n + 1 \in Nat /\ n + 1 # 0 /\ (n + 1) - 1 = n
    OBVIOUS
  <2>3. ASSUME NEW n \in Nat PROVE m[n + 1] = Take(m[n])
    BY <2>1, <2>2
  <2> QED BY <2>1, <2>3
<1> DEFINE S == {n \in Nat : m[n] \in V}
<1>10. 0 \in S /\ \A n \in Nat : n \in S => n + 1 \in S
  <2>1. 0 \in S
    BY <1>4, <1>9
  <2>2. ASSUME NEW n \in Nat, n \in S PROVE n + 1 \in S
    <3>1. m[n] \in V /\ n + 1 \in Nat
      BY <2>2
    <3>2. m[n + 1] = Take(m[n])
      BY <1>9
    <3>3. m[n + 1] \in V
      BY <1>3, <3>1, <3>2
    <3> QED BY <3>1, <3>3
  <2> QED BY <2>1, <2>2
<1>11. Nat \subseteq S
  <2> HIDE DEF S
  <2> QED BY <1>10, NatSetInduction
<1>12. m[Len(groups)] \in V
  BY <1>11
<1> QED BY <1>1, <1>2, <1>12 DEF V

\* The counter of a state that is in order is above all of its ids.
LEMMA FloorIsNext ==
  ASSUME NEW s, InOrder(s)
  PROVE  NextIdFloor(s) = s.next /\ s.next \in Nat
<1> DEFINE used == {s.next} \cup {id + 1 : id \in IdsOf(s.groups) \cup IdsOf(s.parents)}
<1>1. s \in ClusterState /\ Numbered(s) /\ s.next \in Nat
  BY DEF InOrder, ClusterState
<1>2. ASSUME NEW id \in IdsOf(s.groups) \cup IdsOf(s.parents) PROVE id \in Nat /\ id < s.next
  <2>1. \A i \in DOMAIN s.groups : s.groups[i] \in ClusterInfo
    BY <1>1 DEF ClusterState
  <2>2. \A i \in DOMAIN s.parents : s.parents[i] \in ParentInfo
    BY <1>1 DEF ClusterState
  <2> QED BY <1>1, <2>1, <2>2 DEF IdsOf, Numbered, ClusterInfo, ParentInfo
<1>3. \A n \in used : n \in Nat /\ n <= s.next
  BY <1>1, <1>2
<1>4. s.next \in used
  OBVIOUS
<1> DEFINE top == CHOOSE n \in used : \A k \in used : k <= n
<1>5. NextIdFloor(s) = top
  BY DEF NextIdFloor
<1> HIDE DEF used
<1>6. top \in used /\ \A k \in used : k <= top
  BY <1>3, <1>4
<1> QED BY <1>1, <1>3, <1>4, <1>5, <1>6

\* A set has less elements than one that has more.
LEMMA Smaller ==
  ASSUME NEW S, IsFiniteSet(S), NEW T \in SUBSET S, NEW x \in S, x \notin T
  PROVE  Cardinality(T) \in Nat /\ Cardinality(S) \in Nat /\ Cardinality(T) < Cardinality(S)
<1>1. IsFiniteSet(T) /\ Cardinality(T) <= Cardinality(S) /\ (Cardinality(S) = Cardinality(T) => S = T)
  BY FS_Subset
<1>2. Cardinality(T) \in Nat /\ Cardinality(S) \in Nat
  BY <1>1, FS_CardinalityType
<1> QED BY <1>1, <1>2

\* match_to_previous gives the groups ids that are all different: those of previous groups,
\* and new ones.
LEMMA MatchedIds ==
  ASSUME NEW groups, NEW n \in Nat, DOMAIN groups = 1 .. n, Len(groups) = n, NEW prev, InOrder(prev)
  PROVE  LET match == MatchToPrevious(groups, prev)
         IN  /\ match.next \in Nat /\ prev.next <= match.next
             /\ \A i \in DOMAIN groups :
                  /\ match.ids[i] \in Nat /\ match.ids[i] < match.next
                  /\ match.ids[i] \in IdsOf(prev.groups) \/ prev.next <= match.ids[i]
             /\ \A i, j \in DOMAIN groups : match.ids[i] = match.ids[j] => i = j
<1> DEFINE matches == Matches(groups, prev)
           fresh == {k \in DOMAIN groups : \A x \in matches : x[2] # k}
           Below(i) == {k \in fresh : k < i}
           New(i) == NextIdFloor(prev) + Cardinality(Below(i))
           Old(i) == CHOOSE p \in DOMAIN prev.groups : <<p, i>> \in matches
           match == MatchToPrevious(groups, prev)
<1>1. /\ match.ids = [i \in DOMAIN groups |-> IF i \in fresh THEN New(i) ELSE prev.groups[Old(i)].id]
      /\ match.next = NextIdFloor(prev) + Cardinality(fresh)
  BY DEF MatchToPrevious
<1>2. NextIdFloor(prev) = prev.next /\ prev.next \in Nat
  BY FloorIsNext
<1>3. matches \subseteq (DOMAIN prev.groups) \X (DOMAIN groups) /\ OneToOne(matches)
  BY MatchesOneToOne
<1> HIDE DEF matches
<1>4. IsFiniteSet(fresh) /\ Cardinality(fresh) \in Nat /\ fresh \subseteq 1 .. n
  <2>1. IsFiniteSet(1 .. n)
    BY FS_Interval
  <2>2. fresh \in SUBSET (1 .. n)
    OBVIOUS
  <2> HIDE DEF fresh
  <2>3. IsFiniteSet(fresh)
    BY <2>1, <2>2, FS_Subset
  <2> QED BY <2>2, <2>3, FS_CardinalityType
<1>5. ASSUME NEW i \in DOMAIN groups, i \notin fresh
      PROVE  Old(i) \in DOMAIN prev.groups /\ <<Old(i), i>> \in matches
  <2>1. PICK x \in matches : x[2] = i
    BY <1>5
  <2>2. x = <<x[1], i>> /\ x[1] \in DOMAIN prev.groups
    BY <1>3, <2>1
  <2>3. \E p \in DOMAIN prev.groups : <<p, i>> \in matches
    BY <2>1, <2>2
  <2> QED BY <2>3
<1> HIDE DEF fresh, Old
<1>6. \A i \in DOMAIN prev.groups : prev.groups[i].id \in Nat /\ prev.groups[i].id < prev.next
  <2>1. \A i \in DOMAIN prev.groups : prev.groups[i] \in ClusterInfo
    BY DEF InOrder, ClusterState
  <2> QED BY <2>1 DEF ClusterInfo, InOrder, Numbered
<1>7. ASSUME NEW i \in fresh
      PROVE  New(i) \in Nat /\ prev.next <= New(i) /\ New(i) < match.next
  <2>1. Below(i) \in SUBSET fresh /\ i \notin Below(i)
    BY <1>4
  <2> HIDE DEF Below
  <2>2. Cardinality(Below(i)) \in Nat /\ Cardinality(Below(i)) < Cardinality(fresh)
    BY <1>4, <2>1, Smaller
  <2> QED BY <1>1, <1>2, <1>4, <2>2
<1>8. ASSUME NEW i \in fresh, NEW j \in fresh, i < j PROVE New(i) < New(j)
  <2>0. fresh \subseteq Nat /\ i \in Nat /\ j \in Nat
    BY <1>4
  <2>1. Below(i) \in SUBSET Below(j) /\ i \in Below(j) /\ i \notin Below(i) /\ Below(j) \in SUBSET fresh
    <3>1. ASSUME NEW k \in fresh, k < i PROVE k < j
      BY <1>8, <2>0, <3>1
    <3>2. Below(i) \subseteq Below(j)
      BY <3>1
    <3>3. i \in Below(j) /\ i \notin Below(i)
      BY <1>8, <2>0
    <3> QED BY <3>2, <3>3
  <2> HIDE DEF Below
  <2>2. IsFiniteSet(Below(j))
    BY <1>4, <2>1, FS_Subset
  <2>3. /\ Cardinality(Below(i)) \in Nat /\ Cardinality(Below(j)) \in Nat
        /\ Cardinality(Below(i)) < Cardinality(Below(j))
    BY <2>1, <2>2, Smaller
  <2> QED BY <1>2, <2>3
<1> HIDE DEF New, match
<1>9. ASSUME NEW i \in DOMAIN groups
      PROVE  /\ match.ids[i] \in Nat /\ match.ids[i] < match.next
             /\ match.ids[i] \in IdsOf(prev.groups) \/ prev.next <= match.ids[i]
             /\ i \notin fresh => match.ids[i] = prev.groups[Old(i)].id
             /\ i \in fresh => match.ids[i] = New(i)
  <2>1. CASE i \in fresh
    BY <1>1, <1>7, <2>1
  <2>2. CASE i \notin fresh
    <3>1. match.ids[i] = prev.groups[Old(i)].id /\ Old(i) \in DOMAIN prev.groups
      BY <1>1, <1>5, <2>2
    <3>2. match.ids[i] \in IdsOf(prev.groups)
      BY <3>1 DEF IdsOf
    <3>3. match.ids[i] \in Nat /\ match.ids[i] < prev.next
      BY <1>6, <3>1
    <3> QED BY <1>1, <1>2, <1>4, <2>2, <3>1, <3>2, <3>3
  <2> QED BY <2>1, <2>2
<1>10. ASSUME NEW i \in DOMAIN groups, NEW j \in DOMAIN groups, match.ids[i] = match.ids[j]
       PROVE  i = j
  <2>1. CASE i \in fresh /\ j \in fresh
    <3>1. New(i) = New(j) /\ New(i) \in Nat /\ New(j) \in Nat
      BY <1>7, <1>9, <1>10, <2>1
    <3>2. ~(i < j) /\ ~(j < i)
      BY <1>8, <2>1, <3>1
    <3> QED BY <3>2
  <2>2. CASE i \in fresh /\ j \notin fresh
    <3>1. match.ids[i] = New(i) /\ match.ids[j] = prev.groups[Old(j)].id /\ Old(j) \in DOMAIN prev.groups
      BY <1>5, <1>9, <2>2
    <3>2. New(i) \in Nat /\ prev.next <= New(i) /\ prev.groups[Old(j)].id \in Nat
          /\ prev.groups[Old(j)].id < prev.next
      BY <1>6, <1>7, <2>2, <3>1
    <3>3. New(i) = prev.groups[Old(j)].id
      BY <1>10, <3>1
    <3> QED BY <1>2, <3>2, <3>3
  <2>3. CASE i \notin fresh /\ j \in fresh
    <3>1. match.ids[j] = New(j) /\ match.ids[i] = prev.groups[Old(i)].id /\ Old(i) \in DOMAIN prev.groups
      BY <1>5, <1>9, <2>3
    <3>2. New(j) \in Nat /\ prev.next <= New(j) /\ prev.groups[Old(i)].id \in Nat
          /\ prev.groups[Old(i)].id < prev.next
      BY <1>6, <1>7, <2>3, <3>1
    <3>3. New(j) = prev.groups[Old(i)].id
      BY <1>10, <3>1
    <3> QED BY <1>2, <3>2, <3>3
  <2>4. CASE i \notin fresh /\ j \notin fresh
    <3>1. prev.groups[Old(i)].id = prev.groups[Old(j)].id
      BY <1>9, <1>10, <2>4
    <3>2. Old(i) = Old(j)
      BY <1>5, <2>4, <3>1 DEF InOrder, Numbered
    <3>3. <<Old(i), i>> = <<Old(j), j>>
      BY <1>3, <1>5, <2>4, <3>2 DEF OneToOne
    <3> QED BY <3>3
  <2> QED BY <2>1, <2>2, <2>3, <2>4
<1>11. match.next \in Nat /\ prev.next <= match.next
  BY <1>1, <1>2, <1>4
<1> QED BY <1>9, <1>10, <1>11 DEF match

-----------------------------------------------------------------------------
(* A full clustering *)

LEMMA EmptyInOrder ==
  ASSUME NEW prev, prev # None => InOrder(prev), NEW zeros \in SUBSET Docs, algorithm \in {"leiden", "kmeans"}
  PROVE  LET t == Empty(prev, zeros)
         IN  InOrder(t) /\ t.unclustered = zeros /\ (prev # None => Continues(t, prev))
<1> DEFINE next == IF prev = None THEN 0 ELSE NextIdFloor(prev)
           t == Empty(prev, zeros)
<1>1. next \in Nat /\ (prev # None => next = prev.next)
  BY FloorIsNext
<1> HIDE DEF next
<1>2. t = [groups |-> <<>>, parents |-> <<>>, since |-> 0, next |-> next, algorithm |-> algorithm,
           unclustered |-> zeros]
  BY DEF Empty, next
<1> HIDE DEF t
<1>3. /\ t \in ClusterState /\ t.groups = <<>> /\ t.parents = <<>> /\ t.next = next
      /\ t.unclustered = zeros
  BY <1>1, <1>2 DEF ClusterState
<1>4. DOMAIN t.groups = {} /\ DOMAIN t.parents = {}
  BY <1>3
<1>5. Listed(t) /\ Numbered(t)
  BY <1>4 DEF Listed, Numbered
<1>6. IdsOf(t.groups) = {} /\ IdsOf(t.parents) = {}
  BY <1>4 DEF IdsOf
<1> QED BY <1>1, <1>3, <1>5, <1>6 DEF InOrder, Continues, t

\* The labels that a function on a finite set uses are finitely many.
LEMMA LabelsFinite ==
  ASSUME NEW m, IsFiniteSet(DOMAIN m), m \in [DOMAIN m -> Labels(m)]
  PROVE  Cardinality(Labels(m)) \in Nat
<1>1. m \in Surjection(DOMAIN m, Labels(m))
  BY DEF Surjection, Labels
<1> QED BY <1>1, FS_Surjection, FS_CardinalityType

\* The clusters of a membership, without the level above.
LEMMA FlatInOrder ==
  ASSUME NEW prev, prev # None => InOrder(prev), NEW vs, DOMAIN vs \subseteq Docs,
         algorithm \in {"leiden", "kmeans"}, NEW m \in Memberships(Normalized(vs))
  PROVE  LET t == FlatState(m, vs, prev)
         IN  InOrder(t) /\ t.parents = <<>> /\ (prev # None => Continues(t, prev))
<1> DEFINE zeros == DOMAIN vs \ Normalized(vs)
           groups == ClustersFromMembership(m)
           match == IF prev = None THEN [ids |-> [n \in DOMAIN groups |-> n - 1], next |-> Len(groups)]
                    ELSE MatchToPrevious(groups, prev)
           count == Cardinality(Labels(m))
           gs == [n \in DOMAIN groups |-> [id |-> match.ids[n], members |-> groups[n], parent |-> None]]
           e == Empty(prev, zeros)
           t == FlatState(m, vs, prev)
<1>1. /\ zeros \in SUBSET Docs /\ Normalized(vs) \subseteq Docs /\ zeros \cap Normalized(vs) = {}
      /\ IsFiniteSet(Normalized(vs)) /\ m \in [Normalized(vs) -> 1 .. Cardinality(Normalized(vs))]
  <2>1. Normalized(vs) \in SUBSET Docs /\ IsFiniteSet(Docs)
    BY ClustersAssumption DEF Normalized
  <2>2. IsFiniteSet(Normalized(vs))
    BY <2>1, FS_Subset
  <2> QED BY <2>1, <2>2 DEF Memberships
<1>2. count \in Nat
  BY <1>1, LabelsFinite DEF Labels
<1>3. /\ DOMAIN groups = 1 .. count /\ Len(groups) = count
      /\ \A i \in 1 .. count : groups[i] = {d \in Normalized(vs) : m[d] = i}
  BY <1>1, <1>2 DEF ClustersFromMembership, CommunityMembers
<1> HIDE DEF groups, count, zeros
<1>4. /\ match.next \in Nat
      /\ \A i \in 1 .. count : match.ids[i] \in Nat /\ match.ids[i] < match.next
      /\ \A i, j \in 1 .. count : match.ids[i] = match.ids[j] => i = j
      /\ prev # None => /\ prev.next <= match.next
                        /\ \A i \in 1 .. count : match.ids[i] \in IdsOf(prev.groups) \/ prev.next <= match.ids[i]
  <2>1. CASE prev = None
    <3>1. match.next = count /\ \A i \in 1 .. count : match.ids[i] = i - 1
      BY <1>3, <2>1
    <3> HIDE DEF match
    <3> QED BY <1>2, <2>1, <3>1
  <2>2. CASE prev # None
    <3>1. match = MatchToPrevious(groups, prev)
      BY <2>2
    <3> HIDE DEF match
    <3> QED BY <1>2, <1>3, <2>2, <3>1, MatchedIds
  <2> QED BY <2>1, <2>2
<1> HIDE DEF match
<1>5. e \in ClusterState /\ e.parents = <<>> /\ e.unclustered = zeros
  BY <1>1, EmptyInOrder DEF InOrder, Empty
<1>6. ASSUME NEW i \in 1 .. count
      PROVE  /\ gs[i] \in ClusterInfo /\ gs[i].id = match.ids[i]
             /\ gs[i].members = {d \in Normalized(vs) : m[d] = i}
  <2>1. gs[i] = [id |-> match.ids[i], members |-> groups[i], parent |-> None]
    BY <1>3
  <2> QED BY <1>1, <1>3, <1>4, <2>1 DEF ClusterInfo
<1>7. gs \in Seq(ClusterInfo) /\ DOMAIN gs = 1 .. count
  <2>1. DOMAIN gs = 1 .. count /\ gs = [n \in 1 .. count |-> gs[n]]
    BY <1>3
  <2> HIDE DEF gs
  <2> QED BY <1>2, <1>6, <2>1
<1>8. t = [e EXCEPT !.next = match.next, !.groups = gs]
  BY DEF FlatState, groups, match, zeros
<1> HIDE DEF gs, e, t
<1>9. /\ t \in ClusterState /\ t.groups = gs /\ t.parents = <<>> /\ t.next = match.next
      /\ t.unclustered = zeros
  BY <1>4, <1>5, <1>7, <1>8 DEF ClusterState
<1>10. DOMAIN t.parents = {}
  BY <1>9
<1>11. Listed(t)
  <2>1. ASSUME NEW i \in DOMAIN t.groups, NEW j \in DOMAIN t.groups, i # j
        PROVE  t.groups[i].members \cap t.groups[j].members = {}
    BY <1>6, <1>7, <1>9, <2>1
  <2>2. ASSUME NEW i \in DOMAIN t.groups PROVE t.groups[i].members \cap t.unclustered = {}
    BY <1>1, <1>6, <1>7, <1>9
  <2> QED BY <1>10, <2>1, <2>2 DEF Listed
<1>12. Numbered(t)
  BY <1>4, <1>6, <1>7, <1>9, <1>10 DEF Numbered
<1>13. ASSUME prev # None PROVE Continues(t, prev)
  <2>1. IdsOf(t.parents) = {}
    BY <1>10 DEF IdsOf
  <2>2. \A id \in IdsOf(t.groups) : id \in IdsOf(prev.groups) \/ prev.next <= id
    BY <1>4, <1>6, <1>7, <1>9, <1>13 DEF IdsOf
  <2> QED BY <1>4, <1>9, <1>13, <2>1, <2>2 DEF Continues
<1> QED BY <1>9, <1>11, <1>12, <1>13 DEF InOrder, t

\* build_parent_level: each parent lists the members of its children and has a new id.
LEMMA ParentsInOrder ==
  ASSUME NEW s, InOrder(s), s.parents = <<>>, NEW pm \in Memberships(DOMAIN s.groups)
  PROVE  LET t == BuildParentLevel(s, pm) IN InOrder(t) /\ Continues(t, s)
<1> DEFINE n == Cardinality(Labels(pm))
           Children(g) == {i \in DOMAIN pm : pm[i] = g}
           Parent(g) == [id |-> s.next + g - 1, members |-> UNION {s.groups[i].members : i \in Children(g)}]
           ps == [g \in 1 .. n |-> Parent(g)]
           gs == [i \in DOMAIN s.groups |-> InParent(s.groups[i], s.next + pm[i] - 1)]
           t == BuildParentLevel(s, pm)
<1>1. /\ s \in ClusterState /\ s.groups \in Seq(ClusterInfo) /\ s.next \in Nat
      /\ DOMAIN s.groups = 1 .. Len(s.groups) /\ Len(s.groups) \in Nat
  BY DEF InOrder, ClusterState
<1>2. DOMAIN pm = DOMAIN s.groups /\ (\A i \in DOMAIN s.groups : pm[i] \in Nat /\ 1 <= pm[i]) /\ n \in Nat
  <2>1. IsFiniteSet(DOMAIN s.groups) /\ Cardinality(DOMAIN s.groups) \in Nat
    <3>1. IsFiniteSet(1 .. Len(s.groups))
      BY <1>1, FS_Interval
    <3> QED BY <1>1, <3>1, FS_CardinalityType
  <2>2. pm \in [DOMAIN s.groups -> 1 .. Cardinality(DOMAIN s.groups)]
    BY DEF Memberships
  <2>3. pm \in [DOMAIN pm -> Labels(pm)] /\ DOMAIN pm = DOMAIN s.groups
    BY <2>2 DEF Labels
  <2>4. n \in Nat
    BY <2>1, <2>3, LabelsFinite
  <2> QED BY <2>1, <2>2, <2>4
<1>3. CASE n <= 1 \/ n >= Len(s.groups)
  <2>1. t = s
    BY <1>3 DEF BuildParentLevel
  <2> QED BY <1>1, <2>1 DEF Continues
<1>4. CASE ~(n <= 1 \/ n >= Len(s.groups))
  <2>0. \A i \in DOMAIN s.groups : s.groups[i] \in ClusterInfo
    BY <1>1
  <2>1. ASSUME NEW g \in 1 .. n
        PROVE  /\ Parent(g) \in ParentInfo /\ Parent(g).id = s.next + g - 1
               /\ \A e : e \in Parent(g).members <=> \E i \in DOMAIN s.groups : pm[i] = g /\ e \in s.groups[i].members
    <3>1. s.next + g - 1 \in Nat
      BY <1>1, <1>2
    <3>2. Parent(g).members \in SUBSET Docs
      BY <1>2, <2>0 DEF ClusterInfo
    <3>3. \A e : e \in Parent(g).members <=> \E i \in DOMAIN s.groups : pm[i] = g /\ e \in s.groups[i].members
      BY <1>2
    <3> QED BY <3>1, <3>2, <3>3 DEF ParentInfo
  <2> HIDE DEF Parent
  <2>2. ps \in Seq(ParentInfo) /\ DOMAIN ps = 1 .. n /\ \A g \in 1 .. n : ps[g] = Parent(g)
    BY <1>2, <2>1
  <2>3. ASSUME NEW i \in DOMAIN s.groups
        PROVE  /\ gs[i] \in ClusterInfo /\ gs[i].id = s.groups[i].id /\ gs[i].members = s.groups[i].members
               /\ gs[i].parent = s.next + pm[i] - 1
    <3>1. s.next + pm[i] - 1 \in Nat
      BY <1>1, <1>2
    <3>2. gs[i] = [s.groups[i] EXCEPT !.parent = s.next + pm[i] - 1] /\ s.groups[i] \in ClusterInfo
      BY <2>0 DEF InParent
    <3> HIDE DEF gs
    <3> QED BY <3>1, <3>2 DEF ClusterInfo
  <2>4. gs \in Seq(ClusterInfo) /\ DOMAIN gs = DOMAIN s.groups
    <3>1. DOMAIN gs = 1 .. Len(s.groups) /\ gs = [i \in 1 .. Len(s.groups) |-> gs[i]]
      BY <1>1
    <3>2. DOMAIN gs = DOMAIN s.groups
      BY <1>1, <3>1
    <3> HIDE DEF gs
    <3>3. gs \in [1 .. Len(s.groups) -> ClusterInfo]
      BY <2>3, <3>1, <3>2
    <3> QED BY <1>1, <3>2, <3>3
  <2>5. t = [s EXCEPT !.parents = ps, !.groups = gs, !.next = s.next + n]
    BY <1>4 DEF BuildParentLevel, Parent
  <2>51. s.next + n \in Nat /\ s.next <= s.next + n
    BY <1>1, <1>2
  <2> HIDE DEF ps, gs, t, n
  <2>6. /\ t \in ClusterState /\ t.groups = gs /\ t.parents = ps /\ t.next = s.next + n
        /\ t.unclustered = s.unclustered
    BY <1>1, <2>2, <2>4, <2>5, <2>51 DEF ClusterState
  <2>7. Listed(s) /\ Numbered(s)
    BY DEF InOrder
  <2>8. Listed(t)
    <3>1. ASSUME NEW g \in DOMAIN t.parents, NEW e
          PROVE  e \in t.parents[g].members
                   <=> \E i \in DOMAIN t.groups : t.groups[i].parent = t.parents[g].id /\ e \in t.groups[i].members
      <4>1. g \in 1 .. n /\ t.parents[g] = Parent(g) /\ t.parents[g].id = s.next + g - 1
        BY <2>1, <2>2, <2>6
      <4>2. \A i \in DOMAIN s.groups : s.next + pm[i] - 1 = s.next + g - 1 <=> pm[i] = g
        BY <1>1, <1>2, <4>1
      <4> QED BY <2>1, <2>3, <2>4, <2>6, <4>1, <4>2
    <3>2. ASSUME NEW i \in DOMAIN t.groups, NEW j \in DOMAIN t.groups, i # j
          PROVE  t.groups[i].members \cap t.groups[j].members = {}
      BY <2>3, <2>4, <2>6, <2>7, <3>2 DEF Listed
    <3>3. ASSUME NEW i \in DOMAIN t.groups PROVE t.groups[i].members \cap t.unclustered = {}
      BY <2>3, <2>4, <2>6, <2>7 DEF Listed
    <3> QED BY <3>1, <3>2, <3>3 DEF Listed
  <2>9. \A i \in DOMAIN s.groups : s.groups[i].id \in Nat /\ s.groups[i].id < s.next
    BY <2>0, <2>7 DEF ClusterInfo, Numbered
  <2>10. \A g \in 1 .. n : ps[g].id = s.next + g - 1
    BY <2>1, <2>2
  <2>11. Numbered(t)
    <3>1. ASSUME NEW i \in DOMAIN t.groups, NEW j \in DOMAIN t.groups, t.groups[i].id = t.groups[j].id PROVE i = j
      BY <2>3, <2>4, <2>6, <2>7, <3>1 DEF Numbered
    <3>2. ASSUME NEW g \in DOMAIN t.parents, NEW h \in DOMAIN t.parents, t.parents[g].id = t.parents[h].id PROVE g = h
      BY <1>1, <1>2, <2>2, <2>6, <2>10, <3>2
    <3>3. ASSUME NEW i \in DOMAIN t.groups
          PROVE  t.groups[i].id < t.next /\ \A g \in DOMAIN t.parents : t.groups[i].id # t.parents[g].id
      <4>1. t.groups[i].id \in Nat /\ t.groups[i].id < s.next
        BY <2>3, <2>4, <2>6, <2>9
      <4>2. ASSUME NEW g \in DOMAIN t.parents PROVE t.groups[i].id # t.parents[g].id
        <5>1. g \in 1 .. n /\ t.parents[g].id = s.next + g - 1
          BY <2>2, <2>6, <2>10
        <5> QED BY <1>1, <1>2, <4>1, <5>1
      <4>3. t.groups[i].id < t.next
        BY <1>1, <2>51, <2>6, <4>1
      <4> QED BY <4>2, <4>3
    <3>4. ASSUME NEW g \in DOMAIN t.parents PROVE t.parents[g].id < t.next
      BY <1>1, <1>2, <2>2, <2>6, <2>10
    <3> QED BY <3>1, <3>2, <3>3, <3>4 DEF Numbered
  <2>12. Continues(t, s)
    <3>1. \A id \in IdsOf(t.groups) : id \in IdsOf(s.groups)
      BY <2>3, <2>4, <2>6 DEF IdsOf
    <3>2. \A id \in IdsOf(t.parents) : s.next <= id
      BY <1>1, <1>2, <2>2, <2>6, <2>10 DEF IdsOf
    <3> QED BY <2>51, <2>6, <3>1, <3>2 DEF Continues
  <2> QED BY <2>6, <2>8, <2>11, <2>12 DEF InOrder, t
<1> HIDE DEF t
<1> QED BY <1>3, <1>4 DEF t

\* One state continues another through a third.
LEMMA ContinuesOn ==
  ASSUME NEW s, InOrder(s), NEW t, InOrder(t), NEW u, InOrder(u), Continues(t, s), Continues(u, t)
  PROVE  Continues(u, s)
<1>1. s.next \in Nat /\ t.next \in Nat /\ u.next \in Nat
  BY DEF InOrder, ClusterState
<1>2. ASSUME NEW id \in IdsOf(u.groups) \cup IdsOf(u.parents)
      PROVE  id \in Nat
  <2>1. \A i \in DOMAIN u.groups : u.groups[i] \in ClusterInfo
    BY DEF InOrder, ClusterState
  <2>2. \A i \in DOMAIN u.parents : u.parents[i] \in ParentInfo
    BY DEF InOrder, ClusterState
  <2> QED BY <2>1, <2>2 DEF IdsOf, ClusterInfo, ParentInfo
<1>3. ASSUME NEW id \in IdsOf(u.groups) \cup IdsOf(u.parents)
      PROVE  id \in IdsOf(s.groups) \cup IdsOf(s.parents) \/ s.next <= id
  BY <1>1, <1>2 DEF Continues
<1> QED BY <1>1, <1>3 DEF Continues

\* cluster_all, whatever the algorithms answer.
LEMMA ClusteringInOrder ==
  ASSUME NEW prev, prev # None => InOrder(prev), NEW vs, DOMAIN vs \subseteq Docs,
         algorithm \in {"leiden", "kmeans"}, NEW t \in ClusterAll(vs, prev)
  PROVE  InOrder(t) /\ (prev # None => Continues(t, prev))
<1>1. CASE Normalized(vs) = {}
  <2>1. t = Empty(prev, DOMAIN vs)
    BY <1>1 DEF ClusterAll
  <2> QED BY <2>1, EmptyInOrder
<1>2. CASE Normalized(vs) # {}
  <2> DEFINE Above(s) == IF algorithm = "leiden" /\ Len(s.groups) >= HierarchyMin
                         THEN {BuildParentLevel(s, pm) : pm \in Memberships(DOMAIN s.groups)} ELSE {s}
  <2>1. PICK m \in Memberships(Normalized(vs)) : t \in Above(FlatState(m, vs, prev))
    BY <1>2 DEF ClusterAll
  <2> DEFINE s == FlatState(m, vs, prev)
  <2>2. InOrder(s) /\ s.parents = <<>> /\ (prev # None => Continues(s, prev))
    BY FlatInOrder
  <2> HIDE DEF s
  <2>3. t \in Above(s)
    BY <2>1 DEF s
  <2>4. CASE t = s
    BY <2>2, <2>4
  <2>5. CASE \E pm \in Memberships(DOMAIN s.groups) : t = BuildParentLevel(s, pm)
    <3>1. InOrder(t) /\ Continues(t, s)
      BY <2>2, <2>5, ParentsInOrder
    <3> QED BY <2>2, <3>1, ContinuesOn
  <2> QED BY <2>3, <2>4, <2>5
<1> QED BY <1>1, <1>2

-----------------------------------------------------------------------------
(* Events and ingests *)

\* What may become of clusters.
Follows(t, s) == t # None => InOrder(t) /\ (s # None => Continues(t, s))

\* An event for a document, with the rebalance that may be due.
LEMMA EventInOrder ==
  ASSUME NEW s, s # None => InOrder(s), NEW d \in Docs, NEW vs, DOMAIN vs \subseteq Docs,
         algorithm \in {"leiden", "kmeans"}, NEW t \in UpdateClustersForFile(s, vs, d)
  PROVE  Follows(t, s)
<1>0. ASSUME s # None PROVE Continues(s, s)
  <2>1. s.next \in Nat
    BY <1>0 DEF InOrder, ClusterState
  <2> QED BY <2>1 DEF Continues
<1>1. CASE t = s
  BY <1>0, <1>1 DEF Follows
<1>2. CASE t # s
  <2>1. s # None /\ t \in AssignAndRebalance(s, vs, d)
    BY <1>2 DEF UpdateClustersForFile, SameAlgorithm
  <2>2. PICK u \in AssignIncremental(s, vs, d) : t = u \/ t \in ClusterAll(vs, u)
    BY <2>1 DEF AssignAndRebalance
  <2>3. InOrder(s) /\ s \in ClusterState
    BY <2>1 DEF InOrder
  <2>4. InOrder(u) /\ Continues(u, s)
    <3>1. InOrder(u) /\ SameNumbers(u, s)
      BY <2>2, <2>3, AssignmentInOrder
    <3> QED BY <2>3, <3>1, NumbersStay DEF InOrder
  <2>5. CASE t = u
    BY <2>4, <2>5 DEF Follows
  <2>6. CASE t # u
    <3>1. t \in ClusterAll(vs, u)
      BY <2>2, <2>6
    <3>2. InOrder(t) /\ (u # None => Continues(t, u))
      BY <2>4, <3>1, ClusteringInOrder
    <3>3. u # None
      BY <2>4, ClustersAssumption DEF InOrder
    <3> QED BY <2>3, <2>4, <3>2, <3>3, ContinuesOn DEF Follows
  <2> QED BY <2>5, <2>6
<1> QED BY <1>1, <1>2

\* An ingest, of one file or of all, with a full clustering that may fail.
LEMMA IngestInOrder ==
  ASSUME NEW s, s # None => InOrder(s), NEW d \in Docs, NEW vs, DOMAIN vs \subseteq Docs, NEW single,
         algorithm \in {"leiden", "kmeans"}, NEW t \in IngestClusters(s, vs, d, single)
  PROVE  Follows(t, s)
<1>1. CASE t \in UpdateClustersForFile(s, vs, d)
  BY <1>1, EventInOrder
<1>2. CASE t = s
  <2>1. s \in UpdateClustersForFile(s, vs, d) \/ Follows(s, s)
    <3>1. ASSUME s # None PROVE Continues(s, s)
      <4>1. s.next \in Nat
        BY <3>1 DEF InOrder, ClusterState
      <4> QED BY <4>1 DEF Continues
    <3> QED BY <3>1 DEF Follows
  <2> QED BY <1>2, <2>1, EventInOrder
<1>3. CASE t \in ClusterAll(vs, s)
  BY <1>3, ClusteringInOrder DEF Follows
<1> QED BY <1>1, <1>2, <1>3 DEF IngestClusters

\* The inductive invariant of the clusters.
ClustersInv ==
  /\ algorithm \in {"leiden", "kmeans"} /\ DOMAIN vectors \subseteq Docs
  /\ clusters # None => InOrder(clusters)

\* Only documents have vectors.
LEMMA IndexedDocs ==
  ASSUME DOMAIN vectors \subseteq Docs, NEW d \in Docs, NEW v, Indexed(d, v)
  PROVE  DOMAIN vectors' \subseteq Docs
<1>1. CASE v = None
  BY <1>1 DEF Indexed, Others
<1>2. CASE v # None
  BY <1>2 DEF Indexed
<1> QED BY <1>1, <1>2

\* An index from before clustering was enabled, or after an ingest.
LEMMA ClustersInitially == ClustersInit => ClustersInv
<1> SUFFICES ASSUME ClustersInit PROVE ClustersInv
  OBVIOUS
<1>1. algorithm \in {"leiden", "kmeans"} /\ DOMAIN vectors \subseteq Docs
  BY ClustersAssumption DEF ClustersInit
<1>2. ASSUME clusters # None PROVE InOrder(clusters)
  <2>1. clusters \in ClusterAll(vectors, None)
    BY <1>2 DEF ClustersInit
  <2> QED BY <1>1, <2>1, ClusteringInOrder
<1> QED BY <1>1, <1>2 DEF ClustersInv

\* Each step of the watcher and of an ingest.
LEMMA ClustersStep ==
  ASSUME ClustersInv, [ClustersNext]_clusterVars
  PROVE  ClustersInv' /\ (clusters' # clusters => Follows(clusters', clusters))
<1> SUFFICES /\ algorithm' \in {"leiden", "kmeans"} /\ DOMAIN vectors' \subseteq Docs
             /\ clusters' = clusters \/ Follows(clusters', clusters)
  BY DEF ClustersInv, Follows
<1>1. /\ algorithm \in {"leiden", "kmeans"} /\ DOMAIN vectors \subseteq Docs
      /\ clusters # None => InOrder(clusters)
  BY DEF ClustersInv
<1>2. ASSUME NEW d \in Docs, NEW v \in Points \cup {None}, WatchFile(d, v)
      PROVE  /\ algorithm' \in {"leiden", "kmeans"} /\ DOMAIN vectors' \subseteq Docs
             /\ clusters' = clusters \/ Follows(clusters', clusters)
  <2>1. algorithm' = algorithm /\ Indexed(d, v) /\ clusters' \in UpdateClustersForFile(clusters, vectors', d)
    BY <1>2 DEF WatchFile
  <2>2. DOMAIN vectors' \subseteq Docs
    BY <1>1, <2>1, IndexedDocs
  <2> QED BY <1>1, <2>1, <2>2, EventInOrder
<1>3. ASSUME NEW d \in Docs, NEW v \in Points \cup {None}, NEW single \in BOOLEAN, IngestDocument(d, v, single)
      PROVE  /\ algorithm' \in {"leiden", "kmeans"} /\ DOMAIN vectors' \subseteq Docs
             /\ clusters' = clusters \/ Follows(clusters', clusters)
  <2>1. algorithm' = algorithm /\ Indexed(d, v) /\ clusters' \in IngestClusters(clusters, vectors', d, single)
    BY <1>3 DEF IngestDocument
  <2>2. DOMAIN vectors' \subseteq Docs
    BY <1>1, <2>1, IndexedDocs
  <2> QED BY <1>1, <2>1, <2>2, IngestInOrder
<1>4. ASSUME NEW d \in Docs, WatchRemoval(d)
      PROVE  /\ algorithm' \in {"leiden", "kmeans"} /\ DOMAIN vectors' \subseteq Docs
             /\ clusters' = clusters \/ Follows(clusters', clusters)
  <2>1. /\ algorithm' = algorithm /\ Indexed(d, None)
        /\ clusters' = IF clusters = None THEN None ELSE RemoveDocument(clusters, d)
    BY <1>4 DEF WatchRemoval
  <2>2. DOMAIN vectors' \subseteq Docs
    BY <1>1, <2>1, IndexedDocs
  <2>3. CASE clusters # None
    <3>1. InOrder(clusters') /\ SameNumbers(clusters', clusters)
      BY <1>1, <2>1, <2>3, RemovalInOrder
    <3>2. Continues(clusters', clusters)
      BY <1>1, <2>3, <3>1, NumbersStay DEF InOrder
    <3> QED BY <1>1, <2>1, <2>2, <3>1, <3>2 DEF Follows
  <2> QED BY <1>1, <2>1, <2>2, <2>3
<1>5. CASE Configure
  BY <1>1, <1>5 DEF Configure
<1>6. CASE UNCHANGED clusterVars
  BY <1>1, <1>6 DEF clusterVars
<1> QED BY <1>2, <1>3, <1>4, <1>5, <1>6 DEF ClustersNext

\* Clusters are in order in every state.
LEMMA ClustersStayInOrder == ClustersSpec => []ClustersInv
<1>1. ClustersInv /\ [ClustersNext]_clusterVars => ClustersInv'
  BY ClustersStep
<1> QED BY <1>1, ClustersInitially, PTL DEF ClustersSpec

\* Whatever mix of assignments, removals, rebalances, ingests and changes of the algorithm
\* came before, a document is in at most one cluster or among those that cannot be
\* clustered, and a parent has exactly the members of its children.
THEOREM DocumentsStayOnce == ClustersSpec => []DocumentsAreOnce
<1>1. ClustersInv => DocumentsAreOnce
  <2> SUFFICES ASSUME ClustersInv, clusters # None PROVE DocumentsAreOnce
    BY DEF DocumentsAreOnce
  <2>1. Listed(clusters)
    BY DEF ClustersInv, InOrder
  <2>2. ASSUME NEW p \in DOMAIN clusters.parents
        PROVE  clusters.parents[p].members =
                 UNION {clusters.groups[i].members :
                        i \in {j \in DOMAIN clusters.groups : clusters.groups[j].parent = clusters.parents[p].id}}
    BY <2>1 DEF Listed
  <2> QED BY <2>1, <2>2 DEF DocumentsAreOnce, Listed
<1> QED BY <1>1, ClustersStayInOrder, PTL

\* The ids of clusters and parents are all different, and a new group has an id that no
\* group ever had: no step takes the counter back.
THEOREM IdsStayStable == ClustersSpec => IdsAreStable
<1> DEFINE Ids(s) == IF s = None THEN {} ELSE IdsOf(s.groups) \cup IdsOf(s.parents)
           Stable(t, s) ==
             t # None =>
               /\ DistinctIds(t.groups) /\ DistinctIds(t.parents) /\ IdsOf(t.groups) \cap IdsOf(t.parents) = {}
               /\ s # None => \A id \in (IdsOf(t.groups) \cup IdsOf(t.parents)) \ Ids(s) : id >= s.next
               /\ \A id \in IdsOf(t.groups) \cup IdsOf(t.parents) : id < t.next
<1>1. ASSUME NEW s, s # None => InOrder(s), NEW t, Follows(t, s) PROVE Stable(t, s)
  <2> SUFFICES ASSUME t # None PROVE Stable(t, s)
    OBVIOUS
  <2>1. InOrder(t) /\ Numbered(t) /\ (s # None => Continues(t, s))
    BY <1>1 DEF Follows, InOrder
  <2>2. DistinctIds(t.groups) /\ DistinctIds(t.parents) /\ IdsOf(t.groups) \cap IdsOf(t.parents) = {}
    BY <2>1 DEF Numbered, DistinctIds, IdsOf
  <2>3. \A id \in IdsOf(t.groups) \cup IdsOf(t.parents) : id < t.next
    BY <2>1 DEF Numbered, IdsOf
  <2>4. ASSUME s # None, NEW id \in (IdsOf(t.groups) \cup IdsOf(t.parents)) \ Ids(s) PROVE id >= s.next
    <3>1. s.next <= id
      BY <2>1, <2>4 DEF Continues
    <3> QED BY <3>1
  <2> QED BY <2>2, <2>3, <2>4
<1>2. ClustersInv /\ [ClustersNext]_clusterVars => clusters' = clusters \/ Stable(clusters', clusters)
  <2> SUFFICES ASSUME ClustersInv, [ClustersNext]_clusterVars, clusters' # clusters
               PROVE  Stable(clusters', clusters)
    OBVIOUS
  <2>1. Follows(clusters', clusters) /\ (clusters # None => InOrder(clusters))
    BY ClustersStep DEF ClustersInv
  <2> HIDE DEF Stable
  <2> QED BY <1>1, <2>1
<1>3. ClustersInv /\ [ClustersNext]_clusterVars =>
        [clusters' # None =>
          LET now == clusters'.groups
              above == clusters'.parents
              ids == IF clusters = None THEN {} ELSE IdsOf(clusters.groups) \cup IdsOf(clusters.parents)
          IN  /\ DistinctIds(now) /\ DistinctIds(above) /\ IdsOf(now) \cap IdsOf(above) = {}
              /\ clusters # None => \A id \in (IdsOf(now) \cup IdsOf(above)) \ ids : id >= clusters.next
              /\ \A id \in IdsOf(now) \cup IdsOf(above) : id < clusters'.next]_clusters
  BY <1>2
<1> QED BY <1>3, ClustersStayInOrder, PTL DEF ClustersSpec, IdsAreStable

-----------------------------------------------------------------------------
(* Topics *)

\* A state of topics has a group for each definition.
InShape(s) ==
  /\ s = [groups |-> s.groups, unassigned |-> s.unassigned, fingerprint |-> s.fingerprint]
  /\ s.fingerprint \in Topics /\ s.fingerprint # <<>>
  /\ s.groups = [t \in DOMAIN s.fingerprint |-> s.groups[t]]

Scores(s, t, d) == {m \in s.groups[t] : m[1] = d}

\* The topics of d are those its vector belongs to.
Current(s, vs, d) ==
  LET of == MemberOf(s.fingerprint, vs, d) IN
  /\ \A t \in DOMAIN s.fingerprint :
       Scores(s, t, d) = IF t \in of THEN {<<d, Dot(vs[d], s.fingerprint[t].centroid)>>} ELSE {}
  /\ d \in s.unassigned <=> of = {}

\* Both are of the same definitions, and d has the same topics in both.
SameTopics(t, s, d) ==
  /\ t.fingerprint = s.fingerprint /\ (d \in t.unassigned <=> d \in s.unassigned)
  /\ \A i \in DOMAIN s.fingerprint : Scores(t, i, d) = Scores(s, i, d)

\* remove_document_from_topics leaves the other documents alone.
LEMMA TopicRemoval ==
  ASSUME NEW s, InShape(s), NEW d
  PROVE  LET r == RemoveDocumentFromTopics(s, d)
         IN  /\ InShape(r) /\ r.fingerprint = s.fingerprint /\ d \notin r.unassigned
             /\ \A t \in DOMAIN s.fingerprint : Scores(r, t, d) = {}
             /\ \A e : e # d => SameTopics(r, s, e)
<1> DEFINE gs == [t \in DOMAIN s.groups |-> {m \in s.groups[t] : m[1] # d}]
           r == RemoveDocumentFromTopics(s, d)
<1>1. DOMAIN s.groups = DOMAIN s.fingerprint
  BY DEF InShape
<1>2. DOMAIN gs = DOMAIN s.fingerprint /\ \A t \in DOMAIN s.fingerprint : gs[t] = {m \in s.groups[t] : m[1] # d}
  BY <1>1
<1>3. gs = [t \in DOMAIN s.fingerprint |-> gs[t]]
  BY <1>1
<1>4. r = [s EXCEPT !.groups = gs, !.unassigned = s.unassigned \ {d}]
  BY DEF RemoveDocumentFromTopics
<1> HIDE DEF gs, r
<1>5. r = [groups |-> gs, unassigned |-> s.unassigned \ {d}, fingerprint |-> s.fingerprint]
  BY <1>4 DEF InShape
<1>6. r.groups = gs /\ r.unassigned = s.unassigned \ {d} /\ r.fingerprint = s.fingerprint
  BY <1>5
<1>7. InShape(r)
  BY <1>3, <1>5, <1>6 DEF InShape
<1>8. \A t \in DOMAIN s.fingerprint : Scores(r, t, d) = {}
  BY <1>2, <1>6 DEF Scores
<1>9. ASSUME NEW e, e # d PROVE SameTopics(r, s, e)
  BY <1>2, <1>6, <1>9 DEF SameTopics, Scores
<1> QED BY <1>6, <1>7, <1>8, <1>9 DEF r

\* assign_single_to_custom: the document has the topics its vector belongs to.
LEMMA TopicAssignment ==
  ASSUME NEW s, InShape(s), NEW vs, NEW d
  PROVE  LET a == AssignSingleToCustom(s, vs, d)
         IN  InShape(a) /\ Current(a, vs, d) /\ \A e : e # d => SameTopics(a, s, e)
<1> DEFINE r == RemoveDocumentFromTopics(s, d)
           of == MemberOf(s.fingerprint, vs, d)
           Score(t) == <<d, Dot(vs[d], s.fingerprint[t].centroid)>>
           gs == [t \in DOMAIN r.groups |-> IF t \in of THEN r.groups[t] \cup {Score(t)} ELSE r.groups[t]]
           un == IF of = {} THEN r.unassigned \cup {d} ELSE r.unassigned
           a == AssignSingleToCustom(s, vs, d)
<1>1. /\ InShape(r) /\ r.fingerprint = s.fingerprint /\ d \notin r.unassigned
      /\ \A t \in DOMAIN s.fingerprint : Scores(r, t, d) = {}
      /\ \A e : e # d => SameTopics(r, s, e)
  BY TopicRemoval
<1>2. s.groups # <<>>
  <2>1. s.fingerprint \in Seq(ToSet(s.fingerprint)) /\ s.fingerprint # <<>>
    BY ClustersAssumption DEF InShape
  <2>2. DOMAIN s.fingerprint # {}
    BY <2>1
  <2>3. DOMAIN s.groups # {}
    BY <2>2 DEF InShape
  <2> QED BY <2>3
<1>3. a = [r EXCEPT !.groups = gs, !.unassigned = un]
  BY <1>2 DEF AssignSingleToCustom
<1>4. DOMAIN r.groups = DOMAIN s.fingerprint
  BY <1>1 DEF InShape
<1> HIDE DEF r, of
<1>5. /\ DOMAIN gs = DOMAIN s.fingerprint /\ gs = [t \in DOMAIN s.fingerprint |-> gs[t]]
      /\ \A t \in DOMAIN s.fingerprint :
           gs[t] = IF t \in of THEN r.groups[t] \cup {Score(t)} ELSE r.groups[t]
  BY <1>4
<1> HIDE DEF gs, un, a
<1>6. a = [groups |-> gs, unassigned |-> un, fingerprint |-> s.fingerprint]
  BY <1>1, <1>3 DEF InShape
<1>7. a.groups = gs /\ a.unassigned = un /\ a.fingerprint = s.fingerprint
  BY <1>6
<1>8. InShape(a)
  BY <1>1, <1>5, <1>6, <1>7 DEF InShape
<1>9. ASSUME NEW e, e # d PROVE SameTopics(a, s, e)
  <2>1. ASSUME NEW t \in DOMAIN s.fingerprint PROVE Scores(a, t, e) = Scores(r, t, e)
    <3>1. Score(t)[1] = d /\ a.groups[t] = IF t \in of THEN r.groups[t] \cup {Score(t)} ELSE r.groups[t]
      BY <1>5, <1>7
    <3> HIDE DEF Score
    <3> QED BY <1>9, <3>1 DEF Scores
  <2>2. e \in un <=> e \in r.unassigned
    BY <1>9 DEF un
  <2> QED BY <1>1, <1>7, <1>9, <2>1, <2>2 DEF SameTopics
<1>10. Current(a, vs, d)
  <2>1. ASSUME NEW t \in DOMAIN s.fingerprint
        PROVE  Scores(a, t, d) = IF t \in of THEN {Score(t)} ELSE {}
    <3>1. Scores(a, t, d) = Scores(r, t, d) \cup (IF t \in of THEN {Score(t)} ELSE {})
      <4>1. Score(t)[1] = d /\ a.groups[t] = IF t \in of THEN r.groups[t] \cup {Score(t)} ELSE r.groups[t]
        BY <1>5, <1>7
      <4> HIDE DEF Score
      <4> QED BY <4>1 DEF Scores
    <3> QED BY <1>1, <3>1
  <2>2. d \in un <=> of = {}
    BY <1>1 DEF un
  <2> QED BY <1>7, <2>1, <2>2 DEF Current, of
<1> QED BY <1>8, <1>9, <1>10 DEF a

\* assign_all_to_custom: so does each document.
LEMMA TopicsOfAll ==
  ASSUME NEW defs \in Topics, defs # <<>>, NEW vs
  PROVE  LET a == AssignAllToCustom(defs, vs)
         IN  InShape(a) /\ a.fingerprint = defs /\ \A d \in DOMAIN vs : Current(a, vs, d)
<1> DEFINE Of(t) == {d \in DOMAIN vs : t \in MemberOf(defs, vs, d)}
           Score(d, t) == <<d, Dot(vs[d], defs[t].centroid)>>
           gs == [t \in DOMAIN defs |-> {Score(d, t) : d \in Of(t)}]
           a == AssignAllToCustom(defs, vs)
<1>1. a = [groups |-> gs, unassigned |-> {d \in DOMAIN vs : MemberOf(defs, vs, d) = {}}, fingerprint |-> defs]
  BY DEF AssignAllToCustom
<1>2. /\ DOMAIN gs = DOMAIN defs /\ gs = [t \in DOMAIN defs |-> gs[t]]
      /\ \A t \in DOMAIN defs : gs[t] = {Score(d, t) : d \in Of(t)}
  OBVIOUS
<1> HIDE DEF gs, a
<1>3. /\ a.groups = gs /\ a.unassigned = {d \in DOMAIN vs : MemberOf(defs, vs, d) = {}}
      /\ a.fingerprint = defs
  BY <1>1
<1>4. InShape(a)
  BY <1>1, <1>2, <1>3 DEF InShape
<1>5. ASSUME NEW d \in DOMAIN vs PROVE Current(a, vs, d)
  <2>1. ASSUME NEW t \in DOMAIN defs
        PROVE  Scores(a, t, d) = IF t \in MemberOf(defs, vs, d) THEN {Score(d, t)} ELSE {}
    <3>1. Scores(a, t, d) = {m \in {Score(e, t) : e \in Of(t)} : m[1] = d}
      BY <1>2, <1>3 DEF Scores
    <3>2. \A e \in Of(t) : Score(e, t)[1] = e
      OBVIOUS
    <3>3. d \in Of(t) <=> t \in MemberOf(defs, vs, d)
      OBVIOUS
    <3> HIDE DEF Score, Of
    <3> QED BY <3>1, <3>2, <3>3
  <2>2. d \in a.unassigned <=> MemberOf(defs, vs, d) = {}
    BY <1>3
  <2> QED BY <1>3, <2>1, <2>2 DEF Current
<1> QED BY <1>3, <1>4, <1>5 DEF a

\* The inductive invariant of the topics: they are current with respect to the definitions
\* they were made of, whatever the configuration says.
TopicsInv ==
  /\ defined \in Topics
  /\ topics # None =>
       InShape(topics) /\ \A d \in (DOMAIN vectors) \ skipped : Current(topics, vectors, d)

\* A document whose vector and whose topics stay the same stays current.
LEMMA CurrentStays ==
  ASSUME NEW s, NEW t, NEW d, SameTopics(t, s, d), NEW vs, NEW ws, ws[d] = vs[d], Current(s, vs, d)
  PROVE  Current(t, ws, d)
<1>1. MemberOf(t.fingerprint, ws, d) = MemberOf(s.fingerprint, vs, d)
  BY DEF SameTopics, MemberOf, Belongs
<1> QED BY <1>1 DEF Current, SameTopics

\* What an index keeps of the vectors of other documents.
LEMMA IndexedOthers ==
  ASSUME NEW d, NEW v, Indexed(d, v), NEW e \in DOMAIN vectors', e # d
  PROVE  e \in DOMAIN vectors /\ vectors'[e] = vectors[e]
<1>1. CASE v = None
  BY <1>1 DEF Indexed, Others
<1>2. CASE v # None
  BY <1>2 DEF Indexed
<1> QED BY <1>1, <1>2

\* A removed document has no vector.
LEMMA IndexedNone ==
  ASSUME NEW d, Indexed(d, None)
  PROVE  d \notin DOMAIN vectors'
BY DEF Indexed, Others

\* What the watcher does with the topics of a document.
LEMMA TopicsOfFile ==
  ASSUME TopicsInv, NEW d, NEW v, Indexed(d, v), defined' = defined,
         topics' = UpdateTopicsForFile(vectors', d)[1], skipped' = UpdateTopicsForFile(vectors', d)[2]
  PROVE  TopicsInv'
<1> SUFFICES ASSUME topics' # None
             PROVE  InShape(topics') /\ \A e \in (DOMAIN vectors') \ skipped' : Current(topics', vectors', e)
  BY DEF TopicsInv
<1>1. CASE defined # <<>> /\ UpToDate /\ d \in DOMAIN vectors'
  <2>1. topics' = AssignSingleToCustom(topics, vectors', d) /\ skipped' = skipped \ {d}
    BY <1>1 DEF UpdateTopicsForFile
  <2>2. InShape(topics) /\ \A e \in (DOMAIN vectors) \ skipped : Current(topics, vectors, e)
    BY <1>1 DEF TopicsInv, UpToDate
  <2>3. InShape(topics') /\ Current(topics', vectors', d) /\ \A e : e # d => SameTopics(topics', topics, e)
    BY <2>1, <2>2, TopicAssignment
  <2>4. ASSUME NEW e \in (DOMAIN vectors') \ skipped', e # d PROVE Current(topics', vectors', e)
    <3>1. e \in (DOMAIN vectors) \ skipped /\ vectors'[e] = vectors[e]
      BY <2>1, <2>4, IndexedOthers
    <3> QED BY <2>2, <2>3, <2>4, <3>1, CurrentStays
  <2> QED BY <2>3, <2>4
<1>2. CASE ~(defined # <<>> /\ UpToDate /\ d \in DOMAIN vectors')
  <2>1. topics' = topics /\ skipped' = skipped \cup {d}
    BY <1>2 DEF UpdateTopicsForFile
  <2>2. InShape(topics) /\ \A e \in (DOMAIN vectors) \ skipped : Current(topics, vectors, e)
    BY <2>1 DEF TopicsInv
  <2>3. ASSUME NEW e \in (DOMAIN vectors') \ skipped' PROVE Current(topics', vectors', e)
    <3>1. e # d /\ e \in (DOMAIN vectors) \ skipped /\ vectors'[e] = vectors[e]
      BY <2>1, <2>3, IndexedOthers
    <3>2. SameTopics(topics', topics, e)
      BY <2>1 DEF SameTopics
    <3> QED BY <2>2, <3>1, <3>2, CurrentStays
  <2> QED BY <2>1, <2>2, <2>3
<1> QED BY <1>1, <1>2

\* Each step of the watcher and of an ingest.
LEMMA TopicsStep ==
  ASSUME TopicsInv, [ClustersNext]_clusterVars
  PROVE  TopicsInv'
<1>1. ASSUME NEW d \in Docs, NEW v \in Points \cup {None}, WatchFile(d, v) PROVE TopicsInv'
  <2>1. /\ Indexed(d, v) /\ defined' = defined
        /\ topics' = UpdateTopicsForFile(vectors', d)[1] /\ skipped' = UpdateTopicsForFile(vectors', d)[2]
    BY <1>1 DEF WatchFile
  <2> QED BY <2>1, TopicsOfFile
<1>2. ASSUME NEW d \in Docs, WatchRemoval(d) PROVE TopicsInv'
  <2>1. /\ Indexed(d, None) /\ defined' = defined /\ skipped' = skipped \ {d}
        /\ topics' = IF topics = None THEN None ELSE RemoveDocumentFromTopics(topics, d)
    BY <1>2 DEF WatchRemoval
  <2> SUFFICES ASSUME topics # None
               PROVE  InShape(topics') /\ \A e \in (DOMAIN vectors') \ skipped' : Current(topics', vectors', e)
    BY <2>1 DEF TopicsInv
  <2>2. InShape(topics) /\ \A e \in (DOMAIN vectors) \ skipped : Current(topics, vectors, e)
    BY DEF TopicsInv
  <2>3. InShape(topics') /\ \A e : e # d => SameTopics(topics', topics, e)
    BY <2>1, <2>2, TopicRemoval
  <2>4. ASSUME NEW e \in (DOMAIN vectors') \ skipped' PROVE Current(topics', vectors', e)
    <3>1. e # d
      BY <2>1, <2>4, IndexedNone
    <3>2. e \in (DOMAIN vectors) \ skipped /\ vectors'[e] = vectors[e]
      BY <2>1, <2>4, <3>1, IndexedOthers
    <3> QED BY <2>2, <2>3, <3>1, <3>2, CurrentStays
  <2> QED BY <2>3, <2>4
<1>3. ASSUME NEW d \in Docs, NEW v \in Points \cup {None}, NEW single \in BOOLEAN, IngestDocument(d, v, single)
      PROVE  TopicsInv'
  <2>1. Indexed(d, v) /\ defined' = defined
    BY <1>3 DEF IngestDocument
  <2>2. PICK done \in IngestTopics(vectors', d, single) : topics' = done[1] /\ skipped' = done[2]
    BY <1>3 DEF IngestDocument
  <2>3. CASE topics' = None
    BY <2>1, <2>3 DEF TopicsInv
  <2>4. CASE defined # <<>> /\ done = <<AssignAllToCustom(defined, vectors'), {}>>
    <3>1. topics' = AssignAllToCustom(defined, vectors') /\ defined \in Topics
      BY <2>2, <2>4 DEF TopicsInv
    <3>2. InShape(topics') /\ \A e \in DOMAIN vectors' : Current(topics', vectors', e)
      BY <2>4, <3>1, TopicsOfAll
    <3> QED BY <2>1, <3>1, <3>2 DEF TopicsInv
  <2>5. CASE done = UpdateTopicsForFile(vectors', d)
    BY <2>1, <2>2, <2>5, TopicsOfFile
  <2>6. CASE topics' # None /\ done = <<topics, skipped \cup {d}>>
    <3>1. topics' = topics /\ skipped' = skipped \cup {d} /\ topics # None
      BY <2>2, <2>6
    <3>2. InShape(topics) /\ \A e \in (DOMAIN vectors) \ skipped : Current(topics, vectors, e)
      BY <3>1 DEF TopicsInv
    <3>3. ASSUME NEW e \in (DOMAIN vectors') \ skipped' PROVE Current(topics', vectors', e)
      <4>1. e # d /\ e \in (DOMAIN vectors) \ skipped /\ vectors'[e] = vectors[e]
        BY <2>1, <3>1, <3>3, IndexedOthers
      <4>2. SameTopics(topics', topics, e)
        BY <3>1 DEF SameTopics
      <4> QED BY <3>2, <4>1, <4>2, CurrentStays
    <3> QED BY <2>1, <3>1, <3>2, <3>3 DEF TopicsInv
  <2>7. CASE done = <<None, {}>>
    BY <2>2, <2>3, <2>7
  <2> QED BY <2>2, <2>3, <2>4, <2>5, <2>6, <2>7 DEF IngestTopics
<1>4. CASE Configure
  BY <1>4 DEF Configure, TopicsInv
<1>5. CASE UNCHANGED clusterVars
  BY <1>5 DEF clusterVars, TopicsInv
<1> QED BY <1>1, <1>2, <1>3, <1>4, <1>5 DEF ClustersNext

\* While the topics have the fingerprint of the configuration, the topics of each document
\* with a vector are those its vector belongs to, whether it was assigned alone or with all
\* others; except documents that changed under other definitions.
THEOREM TopicsStayCurrent == ClustersSpec => []TopicsAreCurrent
<1>1. ClustersInit => TopicsInv
  <2> SUFFICES ASSUME ClustersInit, topics # None
               PROVE  InShape(topics) /\ \A d \in (DOMAIN vectors) \ skipped : Current(topics, vectors, d)
    BY DEF ClustersInit, TopicsInv
  <2>1. defined \in Topics /\ defined # <<>> /\ topics = AssignAllToCustom(defined, vectors)
    BY DEF ClustersInit
  <2> QED BY <2>1, TopicsOfAll
<1>2. TopicsInv /\ [ClustersNext]_clusterVars => TopicsInv'
  BY TopicsStep
<1>3. TopicsInv => TopicsAreCurrent
  BY DEF TopicsInv, TopicsAreCurrent, UpToDate, Current, Scores
<1> QED BY <1>1, <1>2, <1>3, PTL DEF ClustersSpec

-----------------------------------------------------------------------------
(* Groups: every document is in one, after any communities are merged and folded *)

\* The first of a set is one of it.
LEMMA FirstIsIn ==
  ASSUME NEW S, S \subseteq Nat, S # {}
  PROVE  First(S) \in S /\ \A y \in S : First(S) <= y
<1>1. PICK x \in S : \A y \in S : ~(y < x)
  BY Least
<1>2. \A y \in S : x <= y
  BY <1>1
<1> QED BY <1>2 DEF First

\* A strict order of a set, as the pairs in it.
Ordered(L, B) ==
  /\ \A a \in L : <<a, a>> \notin B
  /\ \A a, b, c \in L : <<a, b>> \in B /\ <<b, c>> \in B => <<a, c>> \in B
  /\ \A a, b \in L : a # b => <<a, b>> \in B \/ <<b, a>> \in B
Places(L, B) == {1 + Cardinality({b \in L : <<b, c>> \in B}) : c \in L}

\* Places in a strict order of a finite set are 1, 2, ... without gaps.
LEMMA PlacesAreAll ==
  ASSUME NEW L, IsFiniteSet(L), NEW B, Ordered(L, B)
  PROVE  Places(L, B) = 1 .. Cardinality(L)
<1> DEFINE less(c) == {b \in L : <<b, c>> \in B}
           n == Cardinality(L)
           place == [c \in L |-> 1 + Cardinality(less(c))]
<1>1. ASSUME NEW c \in L PROVE Cardinality(less(c)) \in Nat /\ n \in Nat /\ Cardinality(less(c)) < n
  <2>1. less(c) \in SUBSET L /\ c \notin less(c)
    BY DEF Ordered
  <2> HIDE DEF less
  <2> QED BY <2>1, Smaller
<1>2. ASSUME NEW a \in L, NEW b \in L, <<a, b>> \in B
      PROVE  Cardinality(less(a)) < Cardinality(less(b))
  <2>1. less(a) \in SUBSET less(b) /\ a \in less(b) /\ a \notin less(a) /\ less(b) \in SUBSET L
    BY <1>2 DEF Ordered
  <2> HIDE DEF less
  <2>2. IsFiniteSet(less(b))
    BY <2>1, FS_Subset
  <2> QED BY <2>1, <2>2, Smaller
<1>3. n \in Nat
  BY FS_CardinalityType
<1> HIDE DEF less, n
<1>4. place \in [L -> 1 .. n]
  BY <1>1
<1>5. ASSUME NEW a \in L, NEW b \in L, a # b PROVE place[a] # place[b]
  <2>1. <<a, b>> \in B \/ <<b, a>> \in B
    BY <1>5 DEF Ordered
  <2>2. Cardinality(less(a)) # Cardinality(less(b)) /\ Cardinality(less(a)) \in Nat /\ Cardinality(less(b)) \in Nat
    BY <1>1, <1>2, <2>1
  <2> QED BY <2>2
<1> HIDE DEF place
<1>6. place \in Injection(L, 1 .. n)
  BY <1>4, <1>5 DEF Injection, IsInjective
<1>7. IsFiniteSet(1 .. n) /\ Cardinality(1 .. n) = n
  BY <1>3, FS_Interval
<1>8. place \in Surjection(L, 1 .. n)
  BY <1>6, <1>7, FS_Injection DEF n
<1>9. {place[c] : c \in L} = 1 .. n
  BY <1>8 DEF Surjection
<1> QED BY <1>9 DEF place, less, n, Places

\* relabel_contiguous: every label is used.
LEMMA RelabelledIsAll ==
  ASSUME NEW m, IsFiniteSet(DOMAIN m), DOMAIN m \subseteq Nat
  PROVE  LET r == RelabelContiguous(m)
         IN  /\ r = [d \in DOMAIN m |-> r[d]]
             /\ Labels(r) = 1 .. Cardinality(Labels(r)) /\ Cardinality(Labels(r)) \in Nat
<1> DEFINE r == RelabelContiguous(m)
           L == Labels(m)
           Size(c) == Cardinality(CommunityMembers(m, c))
           Start(c) == First(CommunityMembers(m, c))
           Before(a, b) == Size(a) > Size(b) \/ (Size(a) = Size(b) /\ Start(a) < Start(b))
           B == {x \in L \X L : Before(x[1], x[2])}
<1>1. IsFiniteSet(L)
  <2> DEFINE f == [d \in DOMAIN m |-> m[d]]
  <2>1. f \in Surjection(DOMAIN m, L)
    BY DEF Surjection, Labels
  <2> QED BY <2>1, FS_Surjection
<1>2. ASSUME NEW c \in L PROVE Size(c) \in Nat /\ Start(c) \in Nat /\ Start(c) \in DOMAIN m /\ m[Start(c)] = c
  <2>1. CommunityMembers(m, c) \in SUBSET DOMAIN m /\ CommunityMembers(m, c) # {}
    BY DEF Labels, CommunityMembers
  <2>2. Size(c) \in Nat
    BY <2>1, FS_Subset, FS_CardinalityType
  <2>3. Start(c) \in CommunityMembers(m, c)
    BY <2>1, FirstIsIn
  <2> QED BY <2>1, <2>2, <2>3 DEF CommunityMembers
<1>3. \A a, b \in L : a # b => Start(a) # Start(b)
  BY <1>2
<1> HIDE DEF Size, Start, L
<1>4. \A a \in L : <<a, a>> \notin B
  BY <1>2
<1>5. \A a, b, c \in L : <<a, b>> \in B /\ <<b, c>> \in B => <<a, c>> \in B
  BY <1>2
<1>6. \A a, b \in L : a # b => <<a, b>> \in B \/ <<b, a>> \in B
  BY <1>2, <1>3
<1>7. \A c \in L : {b \in L : <<b, c>> \in B} = {b \in L : Before(b, c)}
  OBVIOUS
<1> HIDE DEF B, Before
<1>8. Ordered(L, B)
  BY <1>4, <1>5, <1>6 DEF Ordered
<1>13. Places(L, B) = 1 .. Cardinality(L)
  BY <1>1, <1>8, PlacesAreAll
<1>9. {1 + Cardinality({b \in L : Before(b, c)}) : c \in L} = 1 .. Cardinality(L)
  BY <1>7, <1>13 DEF Places
<1>10. r = [d \in DOMAIN m |-> 1 + Cardinality({b \in L : Before(b, m[d])})]
  BY DEF RelabelContiguous, Before, Size, Start, L
<1>11. Labels(r) = {1 + Cardinality({b \in L : Before(b, c)}) : c \in L}
  BY <1>10 DEF Labels, L
<1>12. Cardinality(L) \in Nat /\ Cardinality(1 .. Cardinality(L)) = Cardinality(L)
  BY <1>1, FS_CardinalityType, FS_Interval
<1> HIDE DEF r
<1> QED BY <1>9, <1>10, <1>11, <1>12 DEF r

\* merge_small_communities changes labels only.
LEMMA TurnKeepsDocuments ==
  ASSUME NEW m, NEW vs, NEW edges, NEW min
  PROVE  DOMAIN MergeSmallest(m, vs, edges, min) = DOMAIN m
BY DEF MergeSmallest

\* The turns of its loop, from m on.
MergeTurns(g, m, vs, edges, min) ==
  g = [n \in Nat |-> IF n = 0 THEN m ELSE MergeSmallest(g[n - 1], vs, edges, min)]
FirstTurns(h, n, m, vs, edges, min) ==
  /\ h = [i \in 0 .. n |-> h[i]] /\ h[0] = m
  /\ \A i \in 0 .. n : i < n => h[i + 1] = MergeSmallest(h[i], vs, edges, min)

\* They exist.  Labels may be anything, so that there is no set of memberships to recurse in.
LEMMA MergeTurnsExist ==
  ASSUME NEW m, NEW vs, NEW edges, NEW min
  PROVE  \E g : MergeTurns(g, m, vs, edges, min)
<1> DEFINE F(x) == MergeSmallest(x, vs, edges, min)
           Turns(h, n) == FirstTurns(h, n, m, vs, edges, min)
           T == {n \in Nat : \E h : Turns(h, n)}
           U == {n \in Nat : \A p \in Nat : n <= p => \A h, k : Turns(h, n) /\ Turns(k, p) => h[n] = k[n]}
<1>1. 0 \in T
  <2> DEFINE h == [i \in 0 .. 0 |-> m]
  <2>1. h = [i \in 0 .. 0 |-> h[i]] /\ h[0] = m
    OBVIOUS
  <2>2. Turns(h, 0)
    BY <2>1 DEF FirstTurns
  <2> QED BY <2>2
<1>2. ASSUME NEW n \in Nat, n \in T PROVE n + 1 \in T
  <2>1. PICK h : Turns(h, n)
    BY <1>2
  <2> DEFINE k == [i \in 0 .. n + 1 |-> IF i = n + 1 THEN F(h[n]) ELSE h[i]]
  <2>2. k = [i \in 0 .. n + 1 |-> k[i]] /\ k[0] = m
    BY <2>1 DEF FirstTurns
  <2>3. ASSUME NEW i \in 0 .. n + 1, i < n + 1 PROVE k[i + 1] = F(k[i])
    <3>1. CASE i = n
      BY <3>1
    <3>2. CASE i < n
      <4>1. i \in 0 .. n /\ i + 1 \in 0 .. n + 1 /\ i + 1 # n + 1 /\ i # n + 1
        BY <3>2
      <4>2. h[i + 1] = F(h[i])
        BY <2>1, <3>2, <4>1 DEF FirstTurns
      <4> QED BY <4>1, <4>2
    <3> QED BY <2>3, <3>1, <3>2
  <2> HIDE DEF k
  <2>4. Turns(k, n + 1)
    BY <2>2, <2>3 DEF FirstTurns
  <2> QED BY <2>4
<1>3. \A n \in Nat : n \in T => n + 1 \in T
  BY <1>2
<1>4. \A n \in Nat : \E h : Turns(h, n)
  <2> HIDE DEF T
  <2>1. Nat \subseteq T
    BY <1>1, <1>3, NatSetInduction
  <2> QED BY <2>1 DEF T
<1>5. 0 \in U
  BY DEF FirstTurns
<1>6. ASSUME NEW n \in Nat, n \in U PROVE n + 1 \in U
  <2>1. ASSUME NEW p \in Nat, n + 1 <= p, NEW h, NEW k, Turns(h, n + 1), Turns(k, p)
        PROVE  h[n + 1] = k[n + 1]
    <3> DEFINE b == [i \in 0 .. n |-> h[i]]
    <3>1. Turns(b, n)
      <4>1. b = [i \in 0 .. n |-> b[i]] /\ b[0] = m
        BY <2>1 DEF FirstTurns
      <4>2. ASSUME NEW i \in 0 .. n, i < n PROVE b[i + 1] = F(b[i])
        <5>1. i \in 0 .. n + 1 /\ i < n + 1 /\ i + 1 \in 0 .. n
          BY <4>2
        <5>2. h[i + 1] = F(h[i])
          BY <2>1, <5>1 DEF FirstTurns
        <5> QED BY <5>1, <5>2
      <4> HIDE DEF b
      <4> QED BY <4>1, <4>2 DEF FirstTurns
    <3>2. b[n] = k[n]
      <4> HIDE DEF b
      <4> QED BY <1>6, <2>1, <3>1
    <3>3. n \in 0 .. n + 1 /\ n < n + 1 /\ n \in 0 .. p /\ n < p
      BY <2>1
    <3>4. h[n + 1] = F(h[n])
      BY <2>1, <3>3 DEF FirstTurns
    <3>5. k[n + 1] = F(k[n])
      BY <2>1, <3>3 DEF FirstTurns
    <3> QED BY <3>2, <3>4, <3>5
  <2> QED BY <2>1
<1>7. \A n \in Nat : n \in U => n + 1 \in U
  BY <1>6
<1>8. \A n \in Nat : n \in U
  <2> HIDE DEF U
  <2> QED BY <1>5, <1>7, NatSetInduction
<1> DEFINE At(n) == CHOOSE h : Turns(h, n)
           g == [n \in Nat |-> At(n)[n]]
<1>9. \A n \in Nat : Turns(At(n), n)
  BY <1>4
<1> HIDE DEF At
<1>10. g[0] = m
  BY <1>9 DEF FirstTurns
<1>11. ASSUME NEW n \in Nat PROVE g[n + 1] = F(g[n])
  <2>1. At(n)[n] = At(n + 1)[n]
    BY <1>8, <1>9
  <2>2. n \in 0 .. n + 1 /\ n < n + 1 /\ Turns(At(n + 1), n + 1)
    BY <1>9
  <2>3. At(n + 1)[n + 1] = F(At(n + 1)[n])
    BY <2>2 DEF FirstTurns
  <2> QED BY <2>1, <2>3
<1>12. g = [n \in Nat |-> g[n]]
  OBVIOUS
<1> HIDE DEF g
<1>13. ASSUME NEW n \in Nat PROVE g[n] = IF n = 0 THEN m ELSE F(g[n - 1])
  <2>1. CASE n # 0
    <3>1. n - 1 \in Nat /\ (n - 1) + 1 = n
      BY <2>1
    <3> QED BY <1>11, <2>1, <3>1
  <2> QED BY <1>10, <2>1
<1> DEFINE r == [n \in Nat |-> IF n = 0 THEN m ELSE F(g[n - 1])]
<1>14. r = [n \in Nat |-> r[n]] /\ \A n \in Nat : r[n] = g[n]
  BY <1>13
<1>15. g = r
  <2> HIDE DEF r
  <2> QED BY <1>12, <1>14
<1> QED BY <1>15 DEF MergeTurns

\* The documents of a membership are still those of the merged one.
LEMMA MergedKeepsDocuments ==
  ASSUME NEW m, IsFiniteSet(DOMAIN m), NEW vs, NEW edges, NEW min
  PROVE  DOMAIN Merged(m, vs, edges, min) = DOMAIN m
<1> DEFINE g == CHOOSE h : MergeTurns(h, m, vs, edges, min)
           T == {n \in Nat : DOMAIN g[n] = DOMAIN m}
<1>1. MergeTurns(g, m, vs, edges, min)
  BY MergeTurnsExist
<1>2. Merged(m, vs, edges, min) = g[Cardinality(DOMAIN m)]
  BY DEF Merged, MergeTurns
<1> HIDE DEF g
<1>3. g[0] = m /\ \A n \in Nat : g[n + 1] = MergeSmallest(g[n], vs, edges, min)
  <2>1. \A n \in Nat : g[n] = IF n = 0 THEN m ELSE MergeSmallest(g[n - 1], vs, edges, min)
    BY <1>1 DEF MergeTurns
  <2>2. ASSUME NEW n \in Nat PROVE g[n + 1] = MergeSmallest(g[n], vs, edges, min)
    <3>1. n + 1 \in Nat /\ n + 1 # 0 /\ (n + 1) - 1 = n
      OBVIOUS
    <3> QED BY <2>1, <3>1
  <2> QED BY <2>1, <2>2
<1>4. 0 \in T
  BY <1>3
<1>5. \A n \in Nat : n \in T => n + 1 \in T
  BY <1>3, TurnKeepsDocuments
<1>6. Cardinality(DOMAIN m) \in T
  <2> HIDE DEF T
  <2> QED BY <1>4, <1>5, NatSetInduction, FS_CardinalityType
<1> QED BY <1>2, <1>6

\* Groups that have every document once.
Splits(groups, D) ==
  /\ groups \in Seq(SUBSET D)
  /\ \A d \in D : \E i \in DOMAIN groups : d \in groups[i]
  /\ \A i, j \in DOMAIN groups : groups[i] # {} /\ (i # j => groups[i] \cap groups[j] = {})

\* So are the groups of a membership.
LEMMA MembershipSplits ==
  ASSUME NEW m, IsFiniteSet(DOMAIN m), DOMAIN m \subseteq Nat
  PROVE  Splits(ClustersFromMembership(RelabelContiguous(m)), DOMAIN m)
<1> DEFINE r == RelabelContiguous(m)
           n == Cardinality(Labels(r))
           groups == ClustersFromMembership(r)
<1>1. r = [d \in DOMAIN m |-> r[d]] /\ Labels(r) = 1 .. n /\ n \in Nat
  BY RelabelledIsAll
<1>2. groups = [c \in 1 .. n |-> {d \in DOMAIN m : r[d] = c}]
  BY <1>1 DEF ClustersFromMembership, CommunityMembers
<1>3. {r[d] : d \in DOMAIN m} = 1 .. n
  BY <1>1 DEF Labels
<1> HIDE DEF groups, n, r
<1>4. groups \in Seq(SUBSET DOMAIN m) /\ DOMAIN groups = 1 .. n
  <2>1. groups \in [1 .. n -> SUBSET DOMAIN m]
    BY <1>2
  <2> QED BY <1>1, <2>1
<1>5. ASSUME NEW d \in DOMAIN m PROVE \E i \in DOMAIN groups : d \in groups[i]
  <2>1. r[d] \in 1 .. n
    BY <1>3
  <2> QED BY <1>2, <1>4, <2>1
<1>6. ASSUME NEW i \in DOMAIN groups PROVE groups[i] # {}
  <2>1. PICK d \in DOMAIN m : r[d] = i
    BY <1>3, <1>4
  <2> QED BY <1>2, <1>4, <2>1
<1>7. \A i, j \in DOMAIN groups : i # j => groups[i] \cap groups[j] = {}
  BY <1>2, <1>4
<1> QED BY <1>4, <1>5, <1>6, <1>7 DEF Splits, groups, r

-----------------------------------------------------------------------------
(* Sums over sets, and the order of similarity *)

\* it is the sum of w, as FoldSet takes it.
Summed(it, S, w) ==
  it = [s \in SUBSET S |-> IF s = {} THEN 0 ELSE it[s \ {CHOOSE x \in s : TRUE}] + w[CHOOSE x \in s : TRUE]]

\* The sum of numbers over a finite set exists,
LEMMA SumsExist ==
  ASSUME NEW S, IsFiniteSet(S), NEW w \in [S -> Int]
  PROVE  \E it : Summed(it, S, w)
<1> DEFINE V == [SUBSET S -> Int]
           One(s) == CHOOSE x \in s : TRUE
           zero == [s \in SUBSET S |-> 0]
           More(h) == [s \in SUBSET S |-> IF s = {} THEN 0 ELSE h[s \ {One(s)}] + w[One(s)]]
           F == [p \in Nat \X V |-> More(p[2])]
<1>1. \A s \in SUBSET S : s # {} => One(s) \in s /\ One(s) \in S /\ s \ {One(s)} \in SUBSET S
  OBVIOUS
<1> HIDE DEF One
<1>2. zero \in V
  OBVIOUS
<1>3. ASSUME NEW h \in V PROVE More(h) \in V
  <2>1. \A s \in SUBSET S : (IF s = {} THEN 0 ELSE h[s \ {One(s)}] + w[One(s)]) \in Int
    BY <1>1, <1>3
  <2> QED BY <2>1
<1>4. F \in [Nat \X V -> V] /\ \A n \in Nat, h \in V : F[<<n, h>>] = More(h)
  <2> HIDE DEF V, More
  <2> QED BY <1>3
<1> HIDE DEF F, zero, V, More
<1>5. PICK r : Iterates(r, V, zero, F)
  BY <1>2, <1>4, NatRecursion
<1>6. r[0] = zero /\ \A n \in Nat : r[n] \in V /\ r[n + 1] = More(r[n])
  BY <1>4, <1>5 DEF Iterates
<1>7. ASSUME NEW n \in Nat, n # 0 PROVE r[n] = More(r[n - 1])
  <2>1. n - 1 \in Nat /\ (n - 1) + 1 = n
    BY <1>7
  <2> QED BY <1>6, <2>1
<1>8. \A h : \A s \in SUBSET S : s # {} => More(h)[s] = h[s \ {One(s)}] + w[One(s)]
  BY DEF More
<1> DEFINE it == [s \in SUBSET S |-> r[Cardinality(s)][s]]
<1>9. ASSUME NEW s \in SUBSET S
      PROVE  it[s] = IF s = {} THEN 0 ELSE it[s \ {One(s)}] + w[One(s)]
  <2>1. IsFiniteSet(s) /\ Cardinality(s) \in Nat
    BY FS_Subset, FS_CardinalityType
  <2>2. CASE s = {}
    <3>1. it[s] = zero[s]
      BY <1>6, <2>2, FS_EmptySet
    <3> QED BY <2>2, <3>1 DEF zero
  <2>3. CASE s # {}
    <3>1. Cardinality(s) # 0 /\ Cardinality(s \ {One(s)}) = Cardinality(s) - 1
      BY <1>1, <2>1, <2>3, FS_EmptySet, FS_RemoveElement
    <3>2. it[s] = More(r[Cardinality(s) - 1])[s]
      BY <1>7, <2>1, <3>1
    <3>3. it[s] = r[Cardinality(s) - 1][s \ {One(s)}] + w[One(s)]
      <4> HIDE DEF it
      <4> QED BY <1>8, <2>3, <3>2
    <3> QED BY <1>1, <2>3, <3>1, <3>3
  <2> QED BY <2>2, <2>3
<1>10. it = [s \in SUBSET S |-> it[s]]
  OBVIOUS
<1> HIDE DEF it
<1> DEFINE e == [s \in SUBSET S |-> IF s = {} THEN 0 ELSE it[s \ {One(s)}] + w[One(s)]]
<1>11. e = [s \in SUBSET S |-> e[s]] /\ \A s \in SUBSET S : e[s] = it[s]
  BY <1>9
<1>12. it = e
  <2> HIDE DEF e
  <2> QED BY <1>10, <1>11
<1> QED BY <1>12 DEF Summed, One

\* and is a number.
LEMMA SumsAreNumbers ==
  ASSUME NEW S, IsFiniteSet(S), NEW w \in [S -> Int], NEW it, Summed(it, S, w)
  PROVE  it[S] \in Int
<1> DEFINE One(s) == CHOOSE x \in s : TRUE
           T == {n \in Nat : \A s \in SUBSET S : Cardinality(s) = n => it[s] \in Int}
<1>1. \A s \in SUBSET S : s # {} => One(s) \in s /\ One(s) \in S /\ s \ {One(s)} \in SUBSET S
  OBVIOUS
<1>2. \A s \in SUBSET S : it[s] = IF s = {} THEN 0 ELSE it[s \ {One(s)}] + w[One(s)]
  BY DEF Summed
<1> HIDE DEF One
<1>3. \A s \in SUBSET S : IsFiniteSet(s) /\ Cardinality(s) \in Nat /\ (Cardinality(s) = 0 <=> s = {})
  BY FS_Subset, FS_CardinalityType, FS_EmptySet
<1>4. 0 \in T
  <2>1. \A s \in SUBSET S : Cardinality(s) = 0 => it[s] = 0
    BY <1>2, <1>3
  <2> QED BY <2>1
<1>5. ASSUME NEW n \in Nat, n \in T PROVE n + 1 \in T
  <2>1. ASSUME NEW s \in SUBSET S, Cardinality(s) = n + 1 PROVE it[s] \in Int
    <3>1. s # {} /\ s \ {One(s)} \in SUBSET S /\ w[One(s)] \in Int
      BY <1>1, <1>3, <2>1
    <3>2. Cardinality(s \ {One(s)}) = n
      BY <1>1, <1>3, <2>1, <3>1, FS_RemoveElement
    <3>3. it[s \ {One(s)}] \in Int
      BY <1>5, <3>1, <3>2
    <3> QED BY <1>2, <3>1, <3>3
  <2> QED BY <2>1
<1>6. \A n \in Nat : n \in T => n + 1 \in T
  BY <1>5
<1>7. Cardinality(S) \in T
  <2> HIDE DEF T
  <2> QED BY <1>4, <1>6, NatSetInduction, FS_CardinalityType
<1> QED BY <1>7

\* The centroid of points is one.
LEMMA CentroidIsPoint ==
  ASSUME NEW S, IsFiniteSet(S), NEW vs, \A d \in S : vs[d][1] \in Int /\ vs[d][2] \in Int
  PROVE  ComputeCentroid(S, vs)[1] \in Int /\ ComputeCentroid(S, vs)[2] \in Int
<1> DEFINE One(s) == CHOOSE x \in s : TRUE
           w(i) == [d \in S |-> vs[d][i]]
           Sum(it, i) == it = [s \in SUBSET S |-> IF s = {} THEN 0 ELSE it[s \ {One(s)}] + vs[One(s)][i]]
<1>1. ASSUME NEW i \in {1, 2} PROVE (CHOOSE it : Sum(it, i))[S] \in Int
  <2>1. w(i) \in [S -> Int]
    BY <1>1
  <2>2. \A s \in SUBSET S : s # {} => w(i)[One(s)] = vs[One(s)][i]
    OBVIOUS
  <2> HIDE DEF w
  <2>3. ASSUME NEW it PROVE Sum(it, i) <=> Summed(it, S, w(i))
    <3> HIDE DEF One
    <3>1. [s \in SUBSET S |-> IF s = {} THEN 0 ELSE it[s \ {One(s)}] + vs[One(s)][i]]
          = [s \in SUBSET S |-> IF s = {} THEN 0 ELSE it[s \ {One(s)}] + w(i)[One(s)]]
      BY <2>2
    <3> QED BY <3>1 DEF Summed, One
  <2> HIDE DEF Sum
  <2>4. PICK it : Sum(it, i)
    BY <2>1, <2>3, SumsExist
  <2>5. Sum(CHOOSE h : Sum(h, i), i)
    BY <2>4
  <2> QED BY <2>1, <2>3, <2>5, SumsAreNumbers
<1>2. FoldSet(LAMBDA d, x : x + vs[d][1], 0, S) = (CHOOSE it : Sum(it, 1))[S]
  BY DEF FoldSet, MapThenFoldSet
<1>3. FoldSet(LAMBDA d, x : x + vs[d][2], 0, S) = (CHOOSE it : Sum(it, 2))[S]
  BY DEF FoldSet, MapThenFoldSet
<1> HIDE DEF Sum
<1>4. (CHOOSE it : Sum(it, 1))[S] \in Int /\ (CHOOSE it : Sum(it, 2))[S] \in Int
  BY <1>1
<1> QED BY <1>2, <1>3, <1>4 DEF ComputeCentroid

\* Fractions are compared by products.
LEMMA ProductsOrder ==
  ASSUME NEW a \in Nat, NEW b \in Nat, NEW c \in Nat \ {0}, a * c <= b * c
  PROVE  a <= b
<1> SUFFICES ASSUME b + 1 <= a PROVE FALSE
  OBVIOUS
<1>1. PICK e \in Nat : a = (b + 1) + e
  <2>1. a - (b + 1) \in Nat /\ a = (b + 1) + (a - (b + 1))
    OBVIOUS
  <2> QED BY <2>1
<1>2. a * c = b * c + c + e * c
  BY <1>1
<1>3. b * c \in Nat /\ e * c \in Nat
  OBVIOUS
<1> QED BY <1>2, <1>3

\* The comparison of fractions is transitive.
LEMMA FractionsOrder ==
  ASSUME NEW p \in Nat, NEW q \in Nat \ {0}, NEW r \in Nat, NEW s \in Nat \ {0},
         NEW t \in Nat, NEW u \in Nat \ {0}, p * s <= r * q, r * u <= t * s
  PROVE  p * u <= t * q
<1>1. (p * s) * u <= (r * q) * u
  <2>1. PICK e \in Nat : r * q = p * s + e
    <3>1. r * q \in Nat /\ p * s \in Nat
      OBVIOUS
    <3>2. r * q - p * s \in Nat /\ r * q = p * s + (r * q - p * s)
      BY <3>1
    <3> QED BY <3>2
  <2>2. (r * q) * u = (p * s) * u + e * u /\ e * u \in Nat
    BY <2>1
  <2> QED BY <2>2
<1>2. (r * u) * q <= (t * s) * q
  <2>1. PICK e \in Nat : t * s = r * u + e
    <3>1. t * s \in Nat /\ r * u \in Nat
      OBVIOUS
    <3>2. t * s - r * u \in Nat /\ t * s = r * u + (t * s - r * u)
      BY <3>1
    <3> QED BY <3>2
  <2>2. (t * s) * q = (r * u) * q + e * q /\ e * q \in Nat
    BY <2>1
  <2> QED BY <2>2
<1>3. (p * s) * u = (p * u) * s /\ (r * q) * u = (r * u) * q /\ (t * s) * q = (t * q) * s
  OBVIOUS
<1>4. (p * u) * s <= (t * q) * s /\ p * u \in Nat /\ t * q \in Nat
  <2>1. p * u \in Nat /\ t * q \in Nat /\ (p * u) * s \in Nat /\ (r * u) * q \in Nat /\ (t * q) * s \in Nat
    OBVIOUS
  <2> QED BY <1>1, <1>2, <1>3, <2>1
<1> QED BY <1>4, ProductsOrder

\* One of finitely many fractions is not less than any.
LEMMA GreatestFraction ==
  ASSUME NEW n \in Nat, NEW A \in SUBSET (1 .. n), A # {}, NEW p \in [A -> Nat], NEW q \in [A -> Nat \ {0}]
  PROVE  \E i \in A : \A j \in A : p[j] * q[i] <= p[i] * q[j]
<1> DEFINE Best(i, B) == \A j \in B : p[j] * q[i] <= p[i] * q[j]
           T == {k \in Nat : \A B \in SUBSET A : B # {} /\ B \subseteq 1 .. k => \E i \in B : Best(i, B)}
<1>1. 0 \in T
  <2>1. 1 .. 0 = {}
    OBVIOUS
  <2>2. \A B \in SUBSET A : ~(B # {} /\ B \subseteq 1 .. 0)
    BY <2>1
  <2> QED BY <2>2
<1>2. ASSUME NEW k \in Nat, k \in T PROVE k + 1 \in T
  <2>1. ASSUME NEW B \in SUBSET A, B # {}, B \subseteq 1 .. k + 1 PROVE \E i \in B : Best(i, B)
    <3> DEFINE x == k + 1
               C == B \ {x}
    <3>1. C \in SUBSET A /\ C \subseteq 1 .. k
      BY <2>1
    <3>2. CASE x \notin B
      <4>1. B = C
        BY <3>2
      <4> QED BY <1>2, <2>1, <3>1, <4>1
    <3>3. CASE x \in B /\ C = {}
      <4>1. B = {x} /\ p[x] \in Nat /\ q[x] \in Nat
        BY <2>1, <3>3
      <4>2. p[x] * q[x] <= p[x] * q[x]
        BY <4>1
      <4> QED BY <4>1, <4>2
    <3>4. CASE x \in B /\ C # {}
      <4>1. PICK i \in C : Best(i, C)
        BY <1>2, <3>1, <3>4
      <4>2. /\ i \in A /\ x \in A /\ p[i] \in Nat /\ p[x] \in Nat /\ q[i] \in Nat \ {0} /\ q[x] \in Nat \ {0}
            /\ \A j \in B : j \in C \/ j = x
        BY <2>1, <3>4, <4>1
      <4>3. p[i] * q[x] \in Nat /\ p[x] * q[i] \in Nat /\ p[x] * q[x] \in Nat
        BY <4>2
      <4>4. CASE p[x] * q[i] <= p[i] * q[x]
        <5>1. Best(i, B)
          BY <4>1, <4>2, <4>4
        <5> QED BY <4>1, <5>1
      <4>5. CASE p[i] * q[x] <= p[x] * q[i]
        <5>1. ASSUME NEW j \in C PROVE p[j] * q[x] <= p[x] * q[j]
          <6>1. j \in A /\ p[j] \in Nat /\ q[j] \in Nat \ {0}
            BY <2>1
          <6>2. p[j] * q[i] <= p[i] * q[j]
            BY <4>1
          <6> HIDE DEF x
          <6> QED BY <4>2, <4>5, <6>1, <6>2, FractionsOrder
        <5>2. p[x] * q[x] <= p[x] * q[x]
          BY <4>3
        <5>3. Best(x, B)
          BY <4>2, <5>1, <5>2
        <5> QED BY <3>4, <5>3
      <4> QED BY <4>3, <4>4, <4>5
    <3> QED BY <3>2, <3>3, <3>4
  <2> QED BY <2>1
<1>3. \A k \in Nat : k \in T => k + 1 \in T
  BY <1>2
<1>4. n \in T
  <2> HIDE DEF T
  <2> QED BY <1>1, <1>3, NatSetInduction
<1> QED BY <1>4

\* A document goes to a group there is, or to none.
LEMMA HomeIsGroup ==
  ASSUME NEW v, v[1] \in Int, v[2] \in Int, NEW n \in Nat, NEW c, DOMAIN c = 1 .. n,
         \A i \in 1 .. n : c[i][1] \in Int /\ c[i][2] \in Int
  PROVE  Home(v, c) \in 0 .. n
<1> DEFINE alike == {i \in DOMAIN c : Dot(v, c[i]) > 0}
           best == {i \in alike : \A j \in alike : ~MoreAlike(v, c[j], c[i])}
           p == [i \in alike |-> Signed2(Dot(v, c[i]))]
           q == [i \in alike |-> Length2(c[i])]
<1> SUFFICES ASSUME alike # {} PROVE First(best) \in 1 .. n
  BY DEF Home
<1>1. alike \in SUBSET (1 .. n)
  OBVIOUS
<1>2. ASSUME NEW i \in alike PROVE Signed2(Dot(v, c[i])) \in Nat
  <2>1. Dot(v, c[i]) \in Int /\ Dot(v, c[i]) > 0
    BY DEF Dot
  <2> DEFINE x == Dot(v, c[i])
  <2>2. Signed2(x) = x * x /\ x \in Nat
    BY <2>1 DEF Signed2
  <2> HIDE DEF x
  <2>3. x * x \in Nat
    BY <2>2
  <2> QED BY <2>2, <2>3 DEF x
<1>3. ASSUME NEW i \in alike PROVE Length2(c[i]) \in Nat \ {0}
  <2>1. c[i][1] \in Int /\ c[i][2] \in Int
    OBVIOUS
  <2>2. \A z \in Int : z * z \in Nat
    OBVIOUS
  <2>3. c[i][1] * c[i][1] \in Nat /\ c[i][2] * c[i][2] \in Nat
    BY <2>1, <2>2
  <2>4. Dot(c[i], c[i]) \in Nat
    <3> DEFINE a == c[i][1] * c[i][1]
               b == c[i][2] * c[i][2]
    <3>1. Dot(c[i], c[i]) = a + b
      BY DEF Dot
    <3>2. a \in Nat /\ b \in Nat
      BY <2>3
    <3> HIDE DEF a, b
    <3> QED BY <3>1, <3>2
  <2> QED BY <2>4 DEF Length2, IsZero
<1>4. p \in [alike -> Nat] /\ q \in [alike -> Nat \ {0}]
  BY <1>2, <1>3
<1> HIDE DEF alike
<1>5. PICK i \in alike : \A j \in alike : p[j] * q[i] <= p[i] * q[j]
  <2> HIDE DEF p, q
  <2> QED BY <1>1, <1>4, GreatestFraction
<1>6. ASSUME NEW j \in alike PROVE ~MoreAlike(v, c[j], c[i])
  <2>1. p[j] * q[i] <= p[i] * q[j] /\ p[j] * q[i] \in Nat /\ p[i] * q[j] \in Nat
    <3> HIDE DEF p, q
    <3>1. p[i] \in Nat /\ p[j] \in Nat /\ q[i] \in Nat /\ q[j] \in Nat
      BY <1>4
    <3> QED BY <1>5, <3>1
  <2>2. ~(p[j] * q[i] > p[i] * q[j])
    <3> HIDE DEF p, q
    <3> QED BY <2>1
  <2> QED BY <2>2 DEF MoreAlike
<1>7. best \subseteq Nat /\ i \in best
  <2>1. i \in alike /\ alike \subseteq Nat
    BY <1>1
  <2> QED BY <1>6, <2>1
<1>8. First(best) \in best
  <2> HIDE DEF best
  <2> QED BY <1>7, FirstIsIn
<1> QED BY <1>1, <1>8

\* Two sequences, one after the other.
LEMMA JoinedLength ==
  ASSUME NEW T, NEW a \in Seq(T), NEW b \in Seq(T)
  PROVE  a \o b \in Seq(T) /\ Len(a \o b) = Len(a) + Len(b)
<1>1. a \o b \in Seq(T)
  OBVIOUS
<1>2. Len(a \o b) = Len(a) + Len(b)
  OBVIOUS
<1> QED BY <1>1, <1>2

\* A sequence without the element at one place, and 
LEMMA RemovedElements ==
  ASSUME NEW T, NEW s \in Seq(T), NEW k \in 1 .. Len(s)
  PROVE  /\ RemoveAt(s, k) \in Seq(T) /\ Len(RemoveAt(s, k)) = Len(s) - 1
         /\ \A i \in 1 .. Len(s) - 1 : RemoveAt(s, k)[i] = s[IF i < k THEN i ELSE i + 1]
<1> DEFINE a == SubSeq(s, 1, k - 1)
           b == SubSeq(s, k + 1, Len(s))
<1>1. Len(s) \in Nat /\ k \in Nat /\ 1 <= k /\ k <= Len(s)
  OBVIOUS
<1>2. /\ a \in Seq(T) /\ Len(a) = k - 1
      /\ \A i \in 1 .. k - 1 : a[i] = s[i]
  OBVIOUS
<1>3. /\ b \in Seq(T) /\ Len(b) = Len(s) - k
      /\ \A i \in 1 .. Len(s) - k : b[i] = s[i + k]
  OBVIOUS
<1> HIDE DEF a, b
<1>4. a \o b \in Seq(T) /\ Len(a \o b) = Len(s) - 1
  <2>1. a \o b \in Seq(T) /\ Len(a \o b) = Len(a) + Len(b)
    BY <1>2, <1>3, JoinedLength
  <2> QED BY <1>1, <1>2, <1>3, <2>1
<1>5. ASSUME NEW i \in 1 .. Len(s) - 1 PROVE (a \o b)[i] = s[IF i < k THEN i ELSE i + 1]
  <2>1. CASE i < k
    <3>1. (a \o b)[i] = a[i] /\ i \in 1 .. k - 1
      BY <1>1, <1>2, <1>3, <2>1
    <3> QED BY <1>2, <2>1, <3>1
  <2>2. CASE ~(i < k)
    <3>1. i - (k - 1) \in 1 .. Len(s) - k /\ (i - (k - 1)) + k = i + 1
      BY <1>1, <2>2
    <3>2. (a \o b)[i] = b[i - (k - 1)]
      BY <1>1, <1>2, <1>3, <2>2
    <3> QED BY <1>3, <2>2, <3>1, <3>2
  <2> QED BY <2>1, <2>2
<1> QED BY <1>4, <1>5 DEF RemoveAt, a, b

\* A sequence with one element more at a place.
LEMMA InsertedElements ==
  ASSUME NEW T, NEW s \in Seq(T), NEW k \in 1 .. Len(s) + 1, NEW e \in T
  PROVE  /\ InsertAt(s, k, e) \in Seq(T) /\ Len(InsertAt(s, k, e)) = Len(s) + 1
         /\ \A i \in 1 .. Len(s) + 1 :
              InsertAt(s, k, e)[i] = IF i < k THEN s[i] ELSE IF i = k THEN e ELSE s[i - 1]
<1> DEFINE a == SubSeq(s, 1, k - 1)
           b == SubSeq(s, k, Len(s))
           c == a \o <<e>>
<1>1. Len(s) \in Nat /\ k \in Nat /\ 1 <= k /\ k <= Len(s) + 1
  OBVIOUS
<1>2. /\ a \in Seq(T) /\ Len(a) = k - 1
      /\ \A i \in 1 .. k - 1 : a[i] = s[i]
  OBVIOUS
<1>3. /\ b \in Seq(T) /\ Len(b) = Len(s) + 1 - k
      /\ \A i \in 1 .. Len(s) + 1 - k : b[i] = s[i + k - 1]
  OBVIOUS
<1> HIDE DEF a, b
<1>4. /\ c \in Seq(T) /\ Len(c) = k
      /\ \A i \in 1 .. k : c[i] = IF i < k THEN s[i] ELSE e
  BY <1>1, <1>2
<1> HIDE DEF c
<1>5. c \o b \in Seq(T) /\ Len(c \o b) = Len(s) + 1
  <2>1. c \o b \in Seq(T) /\ Len(c \o b) = Len(c) + Len(b)
    BY <1>3, <1>4, JoinedLength
  <2> QED BY <1>1, <1>3, <1>4, <2>1
<1>6. ASSUME NEW i \in 1 .. Len(s) + 1
      PROVE  (c \o b)[i] = IF i < k THEN s[i] ELSE IF i = k THEN e ELSE s[i - 1]
  <2>1. CASE i <= k
    <3>1. (c \o b)[i] = c[i] /\ i \in 1 .. k
      BY <1>1, <1>3, <1>4, <2>1
    <3> QED BY <1>1, <1>4, <2>1, <3>1
  <2>2. CASE ~(i <= k)
    <3>1. i - k \in 1 .. Len(s) + 1 - k /\ (i - k) + k - 1 = i - 1
      BY <1>1, <2>2
    <3>2. (c \o b)[i] = b[i - k]
      BY <1>1, <1>3, <1>4, <2>2
    <3> QED BY <1>1, <1>3, <2>2, <3>1, <3>2
  <2> QED BY <2>1, <2>2
<1> QED BY <1>5, <1>6 DEF InsertAt, a, b, c

\* Groups without the one at k, whose documents have homes among the others.
Moved(groups, k, homes) ==
  [i \in DOMAIN RemoveAt(groups, k) |-> RemoveAt(groups, k)[i] \cup {d \in DOMAIN homes : homes[d] = i}]
Homeless(homes) == {d \in DOMAIN homes : homes[d] = 0}

\* They have every document once, but for those without a home.
LEMMA MovedElements ==
  ASSUME NEW D, NEW groups, Splits(groups, D), NEW k \in 1 .. Len(groups),
         NEW homes \in [groups[k] -> 0 .. Len(groups) - 1]
  PROVE  LET moved == Moved(groups, k, homes)
             n == Len(groups) - 1
         IN  /\ moved \in Seq(SUBSET D) /\ Len(moved) = n /\ n \in Nat
             /\ \A i \in 1 .. n : moved[i] # {} /\ moved[i] \cap Homeless(homes) = {}
             /\ \A i, j \in 1 .. n : i # j => moved[i] \cap moved[j] = {}
             /\ \A d \in D : d \in Homeless(homes) \/ \E i \in 1 .. n : d \in moved[i]
             /\ Homeless(homes) \in SUBSET D
<1> DEFINE n == Len(groups) - 1
           Skip(i) == IF i < k THEN i ELSE i + 1
           In(i) == {d \in groups[k] : homes[d] = i}
           moved == Moved(groups, k, homes)
<1>1. groups \in Seq(SUBSET D) /\ Len(groups) \in Nat /\ DOMAIN groups = 1 .. Len(groups) /\ n \in Nat
  BY DEF Splits
<1>2. \A i \in 1 .. n : Skip(i) \in 1 .. Len(groups) /\ Skip(i) # k
  BY <1>1
<1>3. \A i, j \in 1 .. n : i # j => Skip(i) # Skip(j)
  BY <1>1
<1>4. \A j \in 1 .. Len(groups) : j # k => \E i \in 1 .. n : Skip(i) = j
  <2> SUFFICES ASSUME NEW j \in 1 .. Len(groups), j # k PROVE \E i \in 1 .. n : Skip(i) = j
    OBVIOUS
  <2>1. CASE j < k
    <3>1. j \in 1 .. n /\ Skip(j) = j
      BY <1>1, <2>1
    <3> QED BY <3>1
  <2>2. CASE j > k
    <3>1. j - 1 \in 1 .. n /\ Skip(j - 1) = j
      BY <1>1, <2>2
    <3> QED BY <3>1
  <2> QED BY <1>1, <2>1, <2>2
<1>5. /\ RemoveAt(groups, k) \in Seq(SUBSET D) /\ Len(RemoveAt(groups, k)) = n
      /\ \A i \in 1 .. n : RemoveAt(groups, k)[i] = groups[Skip(i)]
  BY <1>1, RemovedElements
<1>6. DOMAIN RemoveAt(groups, k) = 1 .. n
  BY <1>5
<1>7. moved = [i \in 1 .. n |-> groups[Skip(i)] \cup In(i)]
  BY <1>5, <1>6 DEF Moved
<1>8. \A i \in 1 .. Len(groups) : groups[i] # {} /\ groups[i] \in SUBSET D
  <2>1. \A i \in 1 .. Len(groups) : groups[i] # {}
    BY <1>1 DEF Splits
  <2>2. \A i \in 1 .. Len(groups) : groups[i] \in SUBSET D
    BY <1>1
  <2> QED BY <2>1, <2>2
<1>9. \A i, j \in 1 .. Len(groups) : i # j => groups[i] \cap groups[j] = {}
  BY <1>1 DEF Splits
<1>10. \A d \in D : \E i \in 1 .. Len(groups) : d \in groups[i]
  BY <1>1 DEF Splits
<1>11. /\ \A i, j : i # j => In(i) \cap In(j) = {}
       /\ Homeless(homes) = In(0) /\ \A i : In(i) \subseteq groups[k]
       /\ \A d \in groups[k] : d \in In(0) \/ \E i \in 1 .. n : d \in In(i)
  <2>1. \A d \in groups[k] : homes[d] = 0 \/ homes[d] \in 1 .. n
    BY <1>1
  <2> QED BY <2>1 DEF Homeless
<1> HIDE DEF Skip, In, moved
<1>12. moved \in Seq(SUBSET D) /\ Len(moved) = n
  <2>1. \A i \in 1 .. n : groups[Skip(i)] \cup In(i) \in SUBSET D
    BY <1>2, <1>8, <1>11
  <2>2. moved \in [1 .. n -> SUBSET D]
    BY <1>7, <2>1
  <2> HIDE DEF n
  <2> QED BY <1>1, <2>2
<1>13. ASSUME NEW i \in 1 .. n PROVE moved[i] # {} /\ moved[i] \cap In(0) = {}
  <2>1. moved[i] = groups[Skip(i)] \cup In(i) /\ i # 0
    BY <1>1, <1>7
  <2>2. groups[Skip(i)] # {} /\ groups[Skip(i)] \cap groups[k] = {}
    BY <1>2, <1>8, <1>9
  <2> QED BY <1>11, <2>1, <2>2
<1>14. ASSUME NEW i \in 1 .. n, NEW j \in 1 .. n, i # j PROVE moved[i] \cap moved[j] = {}
  <2>1. moved[i] = groups[Skip(i)] \cup In(i) /\ moved[j] = groups[Skip(j)] \cup In(j)
    BY <1>7
  <2>2. /\ groups[Skip(i)] \cap groups[k] = {} /\ groups[Skip(j)] \cap groups[k] = {}
        /\ groups[Skip(i)] \cap groups[Skip(j)] = {}
    BY <1>2, <1>3, <1>9, <1>14
  <2> QED BY <1>11, <1>14, <2>1, <2>2
<1>15. ASSUME NEW d \in D PROVE d \in In(0) \/ \E i \in 1 .. n : d \in moved[i]
  <2>1. PICK j \in 1 .. Len(groups) : d \in groups[j]
    BY <1>10
  <2>2. CASE j = k
    BY <1>7, <1>11, <2>1, <2>2
  <2>3. CASE j # k
    <3>1. PICK i \in 1 .. n : Skip(i) = j
      BY <1>4, <2>3
    <3> QED BY <1>7, <2>1, <3>1
  <2> QED BY <2>2, <2>3
<1>16. In(0) \in SUBSET D
  BY <1>8, <1>11
<1> HIDE DEF n
<1>17. /\ moved \in Seq(SUBSET D) /\ Len(moved) = n /\ n \in Nat
       /\ \A i \in 1 .. n : moved[i] # {} /\ moved[i] \cap Homeless(homes) = {}
       /\ \A i, j \in 1 .. n : i # j => moved[i] \cap moved[j] = {}
       /\ \A d \in D : d \in Homeless(homes) \/ \E i \in 1 .. n : d \in moved[i]
       /\ Homeless(homes) \in SUBSET D
  BY <1>1, <1>11, <1>12, <1>13, <1>14, <1>15, <1>16
<1> QED BY <1>17 DEF n, moved

\* With a group of those without a home they have every document once.
LEMMA MovedSplits ==
  ASSUME NEW D, NEW groups, Splits(groups, D), NEW k \in 1 .. Len(groups),
         NEW homes \in [groups[k] -> 0 .. Len(groups) - 1]
  PROVE  LET moved == Moved(groups, k, homes)
         IN  /\ Homeless(homes) = {} => Splits(moved, D)
             /\ Homeless(homes) # {} => Splits(InsertAt(moved, k, Homeless(homes)), D)
<1> DEFINE moved == Moved(groups, k, homes)
           n == Len(groups) - 1
           Z == Homeless(homes)
           kept == InsertAt(moved, k, Z)
           Back(i) == IF i < k THEN i ELSE i - 1
<1>0. groups \in Seq(SUBSET D) /\ Len(groups) \in Nat /\ k \in Nat /\ k \in 1 .. n + 1
  BY DEF Splits
<1>1. /\ moved \in Seq(SUBSET D) /\ Len(moved) = n /\ n \in Nat
      /\ \A i \in 1 .. n : moved[i] # {} /\ moved[i] \cap Z = {}
      /\ \A i, j \in 1 .. n : i # j => moved[i] \cap moved[j] = {}
      /\ \A d \in D : d \in Z \/ \E i \in 1 .. n : d \in moved[i]
      /\ Z \in SUBSET D
  BY MovedElements
<1> HIDE DEF moved, n, Z
<1>2. moved \in Seq(SUBSET D) /\ DOMAIN moved = 1 .. n
  BY <1>1
<1>3. CASE Z = {}
  BY <1>1, <1>2, <1>3 DEF Splits, moved, Z
<1>4. CASE Z # {}
  <2>1. k \in 1 .. Len(moved) + 1
    BY <1>0, <1>1
  <2>0. moved \in Seq(SUBSET D) /\ Z \in SUBSET D
    BY <1>1
  <2>2. /\ kept \in Seq(SUBSET D) /\ Len(kept) = Len(moved) + 1
        /\ \A i \in 1 .. Len(moved) + 1 : kept[i] = IF i < k THEN moved[i] ELSE IF i = k THEN Z ELSE moved[i - 1]
    BY <2>0, <2>1, InsertedElements
  <2> HIDE DEF kept
  <2>3. kept \in Seq(SUBSET D) /\ DOMAIN kept = 1 .. n + 1
    <3>1. kept \in Seq(SUBSET D) /\ Len(kept) = n + 1
      BY <1>1, <2>2
    <3> QED BY <3>1
  <2>4. \A i \in 1 .. n + 1 : kept[i] = IF i = k THEN Z ELSE moved[Back(i)]
    <3>1. \A i \in 1 .. n + 1 : kept[i] = IF i < k THEN moved[i] ELSE IF i = k THEN Z ELSE moved[i - 1]
      BY <1>1, <2>2
    <3> QED BY <1>0, <3>1
  <2>5. \A i \in 1 .. n + 1 : i # k => Back(i) \in 1 .. n
    BY <1>0, <1>1
  <2>6. \A i, j \in 1 .. n + 1 : i # k /\ j # k /\ i # j => Back(i) # Back(j)
    BY <1>0, <1>1
  <2>7. \A j \in 1 .. n : \E i \in 1 .. n + 1 : i # k /\ Back(i) = j
    <3> SUFFICES ASSUME NEW j \in 1 .. n PROVE \E i \in 1 .. n + 1 : i # k /\ Back(i) = j
      OBVIOUS
    <3>1. CASE j < k
      <4>1. j \in 1 .. n + 1 /\ j # k /\ Back(j) = j
        BY <1>0, <1>1, <3>1
      <4> QED BY <4>1
    <3>2. CASE j >= k
      <4>1. j + 1 \in 1 .. n + 1 /\ j + 1 # k /\ Back(j + 1) = j
        BY <1>0, <1>1, <3>2
      <4> QED BY <4>1
    <3> QED BY <1>0, <1>1, <3>1, <3>2
  <2> HIDE DEF Back
  <2>8. ASSUME NEW d \in D PROVE \E i \in 1 .. n + 1 : d \in kept[i]
    <3>1. CASE d \in Z
      BY <1>0, <2>4, <3>1
    <3>2. CASE d \notin Z
      <4>1. PICK j \in 1 .. n : d \in moved[j]
        BY <1>1, <3>2
      <4>2. PICK i \in 1 .. n + 1 : i # k /\ Back(i) = j
        BY <2>7
      <4>3. d \in kept[i]
        BY <2>4, <4>1, <4>2
      <4> QED BY <4>3
    <3> QED BY <3>1, <3>2
  <2>9. ASSUME NEW i \in 1 .. n + 1 PROVE kept[i] # {}
    <3>1. CASE i = k
      BY <1>4, <2>4, <3>1
    <3>2. CASE i # k
      <4>1. kept[i] = moved[Back(i)] /\ Back(i) \in 1 .. n
        BY <2>4, <2>5, <3>2
      <4> QED BY <1>1, <4>1
    <3> QED BY <3>1, <3>2
  <2>10. ASSUME NEW i \in 1 .. n + 1, NEW j \in 1 .. n + 1, i # j PROVE kept[i] \cap kept[j] = {}
    <3>1. CASE i = k
      <4>1. kept[i] = Z /\ kept[j] = moved[Back(j)] /\ Back(j) \in 1 .. n
        BY <2>4, <2>5, <2>10, <3>1
      <4> QED BY <1>1, <4>1
    <3>2. CASE j = k
      <4>1. kept[j] = Z /\ kept[i] = moved[Back(i)] /\ Back(i) \in 1 .. n
        BY <2>4, <2>5, <2>10, <3>2
      <4> QED BY <1>1, <4>1
    <3>3. CASE i # k /\ j # k
      <4>1. kept[j] = moved[Back(j)] /\ kept[i] = moved[Back(i)] /\ Back(i) \in 1 .. n /\ Back(j) \in 1 .. n
        BY <2>4, <2>5, <3>3
      <4>2. Back(i) # Back(j)
        BY <2>6, <2>10, <3>3
      <4> QED BY <1>1, <4>1, <4>2
    <3> QED BY <3>1, <3>2, <3>3
  <2>11. Splits(kept, D)
    BY <2>3, <2>8, <2>9, <2>10 DEF Splits
  <2> QED BY <1>4, <2>11 DEF kept, moved, Z
<1> QED BY <1>3, <1>4

\* A round of the fold keeps every document in one group.
LEMMA RoundSplits ==
  ASSUME NEW vs, IsFiniteSet(DOMAIN vs), \A d \in DOMAIN vs : vs[d][1] \in Int /\ vs[d][2] \in Int,
         NEW groups, Splits(groups, DOMAIN vs), NEW min
  PROVE  LET round == FoldRound(groups, vs, min)
         IN  /\ round \in [groups : Seq(SUBSET DOMAIN vs), returned : BOOLEAN]
             /\ Splits(round.groups, DOMAIN vs)
<1> DEFINE D == DOMAIN vs
           under == {i \in DOMAIN groups : Cardinality(groups[i]) < min}
           first == First(under)
           rest == RemoveAt(groups, first)
           centroids == [i \in DOMAIN rest |-> ComputeCentroid(rest[i], vs)]
           homes == [d \in groups[first] |-> Home(vs[d], centroids)]
           moved == [i \in DOMAIN rest |-> rest[i] \cup {d \in DOMAIN homes : homes[d] = i}]
           kept == InsertAt(moved, first, {d \in DOMAIN homes : homes[d] = 0})
           stop == Len(groups) <= 1 \/ under = {} \/ min <= 1
           all == \A d \in DOMAIN homes : homes[d] # 0
           returned == \/ \A i \in DOMAIN kept : Cardinality(kept[i]) < min
                       \/ \A i \in DOMAIN kept \ {first} : Cardinality(kept[i]) >= min
           round == FoldRound(groups, vs, min)
<1>1. round = IF stop THEN [groups |-> groups, returned |-> TRUE]
              ELSE IF all THEN [groups |-> moved, returned |-> FALSE]
              ELSE [groups |-> kept, returned |-> returned]
  BY DEF FoldRound
<1>2. groups \in Seq(SUBSET D) /\ Len(groups) \in Nat /\ DOMAIN groups = 1 .. Len(groups)
  BY DEF Splits
<1>3. ASSUME ~stop
      PROVE  (all => Splits(moved, D)) /\ (~all => Splits(kept, D))
  <2>1. under # {} /\ under \subseteq Nat /\ under \subseteq 1 .. Len(groups)
    BY <1>2, <1>3
  <2>2. first \in 1 .. Len(groups)
    <3> HIDE DEF under
    <3> QED BY <2>1, FirstIsIn
  <2> HIDE DEF first
  <2> DEFINE n == Len(groups) - 1
  <2>3. rest \in Seq(SUBSET D) /\ Len(rest) = n /\ n \in Nat
    <3>1. RemoveAt(groups, first) \in Seq(SUBSET D) /\ Len(RemoveAt(groups, first)) = Len(groups) - 1
      BY <1>2, <2>2, RemovedElements
    <3> QED BY <1>2, <2>2, <3>1
  <2> HIDE DEF rest, n
  <2>4. DOMAIN rest = 1 .. n /\ \A i \in 1 .. n : rest[i] \in SUBSET D
    BY <2>3
  <2>5. ASSUME NEW i \in 1 .. n PROVE centroids[i][1] \in Int /\ centroids[i][2] \in Int
    <3>1. IsFiniteSet(rest[i]) /\ \A d \in rest[i] : vs[d][1] \in Int /\ vs[d][2] \in Int
      BY <2>4, FS_Subset
    <3>2. centroids[i] = ComputeCentroid(rest[i], vs)
      BY <2>4
    <3> QED BY <3>1, <3>2, CentroidIsPoint
  <2>6. DOMAIN centroids = 1 .. n
    BY <2>4
  <2> HIDE DEF centroids
  <2>7. ASSUME NEW d \in groups[first] PROVE Home(vs[d], centroids) \in 0 .. n
    <3>1. d \in D
      BY <1>2, <2>2
    <3>2. vs[d][1] \in Int /\ vs[d][2] \in Int
      BY <3>1
    <3> QED BY <2>3, <2>5, <2>6, <3>2, HomeIsGroup
  <2>8. homes \in [groups[first] -> 0 .. n]
    BY <2>7
  <2> HIDE DEF homes
  <2>9. moved = Moved(groups, first, homes) /\ kept = InsertAt(moved, first, Homeless(homes))
    BY DEF Moved, Homeless, rest
  <2>10. all <=> Homeless(homes) = {}
    BY DEF Homeless
  <2> HIDE DEF moved, kept, all
  <2> QED BY <2>2, <2>8, <2>9, <2>10, MovedSplits DEF n
<1>4. returned \in BOOLEAN
  OBVIOUS
<1> HIDE DEF stop, all, moved, kept, returned, round
<1>5. round \in [groups : Seq(SUBSET D), returned : BOOLEAN] /\ Splits(round.groups, D)
  <2>1. CASE stop
    BY <1>1, <1>2, <2>1
  <2>2. CASE ~stop /\ all
    BY <1>1, <1>3, <2>2 DEF Splits
  <2>3. CASE ~stop /\ ~all
    BY <1>1, <1>3, <1>4, <2>3 DEF Splits
  <2> QED BY <2>1, <2>2, <2>3
<1> QED BY <1>5 DEF round

\* So do all rounds.
LEMMA FoldSplits ==
  ASSUME NEW vs, IsFiniteSet(DOMAIN vs), \A d \in DOMAIN vs : vs[d][1] \in Int /\ vs[d][2] \in Int,
         NEW groups, Splits(groups, DOMAIN vs), NEW min, NEW rounds \in Nat
  PROVE  Splits(FoldUndersizedClusters(groups, vs, min, rounds).groups, DOMAIN vs)
<1> DEFINE D == DOMAIN vs
           Turn(fold) == IF fold.returned THEN fold ELSE FoldRound(fold.groups, vs, min)
           start == [groups |-> groups, returned |-> FALSE]
           Rec(h) == h = [n \in Nat |-> IF n = 0 THEN start ELSE Turn(h[n - 1])]
           A == Seq(SUBSET D)
           V == {f \in [groups : A, returned : BOOLEAN] : Splits(f.groups, D)}
           F == [p \in Nat \X V |-> Turn(p[2])]
<1>1. ASSUME NEW f \in V PROVE Turn(f) \in V
  <2>1. CASE f.returned
    BY <2>1
  <2>2. CASE ~f.returned
    <3>1. Splits(f.groups, D)
      OBVIOUS
    <3>2. FoldRound(f.groups, vs, min) \in V
      BY <3>1, RoundSplits
    <3> QED BY <2>2, <3>2
  <2> QED BY <2>1, <2>2
<1>2. start \in V
  BY DEF Splits
<1> HIDE DEF V, Turn, start
<1>3. F \in [Nat \X V -> V] /\ \A n \in Nat, f \in V : F[<<n, f>>] = Turn(f)
  BY <1>1
<1> HIDE DEF F
<1>4. PICK g : Iterates(g, V, start, F)
  BY <1>2, <1>3, NatRecursion
<1>5. g \in [Nat -> V] /\ g[0] = start /\ \A n \in Nat : g[n + 1] = F[<<n, g[n]>>]
  BY <1>4 DEF Iterates
<1>6. \A n \in Nat : g[n + 1] = Turn(g[n])
  BY <1>3, <1>5
<1>7. ASSUME NEW n \in Nat PROVE g[n] = IF n = 0 THEN start ELSE Turn(g[n - 1])
  <2>1. CASE n # 0
    <3>1. n - 1 \in Nat /\ (n - 1) + 1 = n
      BY <2>1
    <3> QED BY <1>6, <2>1, <3>1
  <2> QED BY <1>5, <2>1
<1> DEFINE r == [n \in Nat |-> IF n = 0 THEN start ELSE Turn(g[n - 1])]
<1>8. r = [n \in Nat |-> r[n]] /\ g = [n \in Nat |-> g[n]] /\ \A n \in Nat : r[n] = g[n]
  BY <1>5, <1>7
<1>9. g = r
  <2> HIDE DEF r
  <2> QED BY <1>8
<1>10. Rec(g)
  BY <1>9
<1> HIDE DEF Rec, r
<1>11. Rec(CHOOSE h : Rec(h))
  BY <1>10
<1> DEFINE folded == CHOOSE h : Rec(h)
           T == {n \in Nat : folded[n] \in V}
<1>12. folded[0] = start /\ \A n \in Nat : folded[n + 1] = Turn(folded[n])
  <2> HIDE DEF folded
  <2>1. folded = [n \in Nat |-> IF n = 0 THEN start ELSE Turn(folded[n - 1])]
    BY <1>11 DEF Rec, folded
  <2>2. \A n \in Nat : folded[n] = IF n = 0 THEN start ELSE Turn(folded[n - 1])
    BY <2>1
  <2>3. ASSUME NEW n \in Nat PROVE folded[n + 1] = Turn(folded[n])
    <3>1. n + 1 \in Nat /\ n + 1 # 0 /\ (n + 1) - 1 = n
      OBVIOUS
    <3> QED BY <2>2, <3>1
  <2> QED BY <2>2, <2>3
<1> HIDE DEF folded
<1>13. rounds \in T
  <2>1. 0 \in T
    BY <1>2, <1>12
  <2>2. \A n \in Nat : n \in T => n + 1 \in T
    BY <1>1, <1>12
  <2> HIDE DEF T
  <2> QED BY <2>1, <2>2, NatSetInduction
<1>14. FoldUndersizedClusters(groups, vs, min, rounds) = folded[rounds]
  BY DEF FoldUndersizedClusters, folded, Rec, Turn, start
<1>15. \A f \in V : Splits(f.groups, D)
  BY DEF V
<1> QED BY <1>13, <1>14, <1>15

\* Every document is in one group and no group is empty, whatever communities there were:
\* merge_small_communities, clusters_from_membership and fold_undersized_clusters.
THEOREM GroupsArePartition ==
  ASSUME NEW vs, IsFiniteSet(DOMAIN vs), DOMAIN vs \subseteq Nat,
         \A d \in DOMAIN vs : vs[d][1] \in Int /\ vs[d][2] \in Int,
         NEW m, DOMAIN m = DOMAIN vs, NEW k, NEW min
  PROVE  GroupingIsPartition(m, vs, k, min)
<1> DEFINE D == DOMAIN vs
           merged == Merged(m, vs, BuildKnnGraph(vs, k), min)
           first == ClustersFromMembership(RelabelContiguous(merged))
           rounds == 2 * Cardinality(D) + 1
           groups == Group(m, vs, k, min).groups
<1>1. DOMAIN merged = D
  BY MergedKeepsDocuments
<1>3. Splits(first, D)
  <2> HIDE DEF merged
  <2> QED BY <1>1, MembershipSplits
<1>4. rounds \in Nat
  <2>1. Cardinality(D) \in Nat
    BY FS_CardinalityType
  <2> QED BY <2>1
<1>5. Group(m, vs, k, min) = FoldUndersizedClusters(first, vs, min, rounds)
  BY DEF Group, MergeSmallCommunities
<1>6. Splits(groups, D)
  <2> HIDE DEF first, rounds
  <2> QED BY <1>3, <1>4, <1>5, FoldSplits
<1> HIDE DEF groups
<1>7. groups \in Seq(SUBSET D) /\ DOMAIN groups = 1 .. Len(groups) /\ Len(groups) \in Nat
  BY <1>6 DEF Splits
<1>8. UNION ToSet(groups) = D
  <2>1. \A d \in D : \E i \in DOMAIN groups : d \in groups[i]
    BY <1>6 DEF Splits
  <2>2. \A i \in DOMAIN groups : groups[i] \in SUBSET D
    BY <1>7
  <2> QED BY <2>1, <2>2 DEF ToSet
<1>9. \A i, j \in DOMAIN groups : groups[i] # {} /\ (i # j => groups[i] \cap groups[j] = {})
  BY <1>6 DEF Splits
<1> QED BY <1>8, <1>9 DEF GroupingIsPartition, groups
=============================================================================
