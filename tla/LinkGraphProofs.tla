--------------------------- MODULE LinkGraphProofs --------------------------
(***************************************************************************)
(* The graph follows the index, and its two directions agree: proofs about *)
(* LinkGraph for any documents, sources, overlays and number of edits.     *)
(*                                                                         *)
(* All of it rests on what build_entries_for_file makes of a list of       *)
(* links: the entries are those that are not skipped, none is left out and *)
(* none comes of nothing.  A document then has its body links, which       *)
(* depend on its source alone, followed by entries that have a field.      *)
(***************************************************************************)
EXTENDS LinkGraph, Induction, SequenceTheorems, FiniteSetTheorems

-----------------------------------------------------------------------------
(* Entries *)

Kept(e, targets, fields) == e.target \notin targets /\ e.field \notin fields

\* What Entries chooses a function by.
Listing(links, targets, fields, entries) ==
  entries = [n \in 0 .. Len(links) |->
               IF n = 0 THEN <<>> ELSE Pushed(entries[n - 1], links[n], targets, fields)]

\* A link is pushed unless it is skipped or there.
LEMMA PushedElements ==
  ASSUME NEW T, NEW s \in Seq(T), NEW e \in T, NEW targets, NEW fields
  PROVE  /\ Pushed(s, e, targets, fields) \in Seq(T)
         /\ ToSet(Pushed(s, e, targets, fields)) = ToSet(s) \cup (IF Kept(e, targets, fields) THEN {e} ELSE {})
<1>1. CASE e.target \in targets \/ e.field \in fields
  BY <1>1 DEF Pushed, Kept
<1>2. CASE Kept(e, targets, fields) /\ Contains(s, e)
  <2>1. e \in ToSet(s)
    BY <1>2 DEF Contains, ToSet
  <2> QED BY <1>2, <2>1 DEF Pushed, Kept
<1>3. CASE Kept(e, targets, fields) /\ ~Contains(s, e)
  <2>1. Pushed(s, e, targets, fields) = Append(s, e)
    BY <1>3 DEF Pushed, Kept
  <2> DEFINE t == <<e>>
  <2>2. t \in Seq(T) /\ Append(s, e) = s \o t /\ Append(s, e) \in Seq(T)
    OBVIOUS
  <2>3. ToSet(t) = {e}
    BY DEF ToSet
  <2> HIDE DEF t
  <2>4. ToSet(s \o t) = ToSet(s) \cup ToSet(t)
    BY <2>2, ConcatElements
  <2> QED BY <1>3, <2>1, <2>2, <2>3, <2>4
<1> QED BY <1>1, <1>2, <1>3 DEF Kept

\* There is a function as Entries chooses one.
LEMMA ListingExists ==
  ASSUME NEW T, NEW links \in Seq(T), NEW targets, NEW fields
  PROVE  \E entries : Listing(links, targets, fields, entries)
<1> DEFINE Push(s, e) == Pushed(s, e, targets, fields)
           V == Seq(T)
           F == [p \in Nat \X V |-> IF p[1] + 1 \in 1 .. Len(links) THEN Push(p[2], links[p[1] + 1]) ELSE p[2]]
<1>0. ASSUME NEW s \in V, NEW e \in T PROVE Push(s, e) \in V
  BY PushedElements
<1> HIDE DEF Push
<1>1. ASSUME NEW n \in Nat, NEW x \in V
      PROVE  F[<<n, x>>] = IF n + 1 \in 1 .. Len(links) THEN Push(x, links[n + 1]) ELSE x
  OBVIOUS
<1>2. F \in [Nat \X V -> V] /\ <<>> \in V
  <2>1. ASSUME NEW p \in Nat \X V PROVE (IF p[1] + 1 \in 1 .. Len(links) THEN Push(p[2], links[p[1] + 1]) ELSE p[2]) \in V
    <3>1. ASSUME NEW i \in 1 .. Len(links) PROVE links[i] \in T
      OBVIOUS
    <3> QED BY <1>0, <3>1
  <2> QED BY <2>1
<1> HIDE DEF V, F
<1>3. PICK g : Iterates(g, V, <<>>, F)
  BY <1>2, NatRecursion
<1>4. g[0] = <<>> /\ (\A n \in Nat : g[n] \in V) /\ \A n \in Nat : g[n + 1] = F[<<n, g[n]>>]
  BY <1>3 DEF Iterates
<1>5. ASSUME NEW n \in 1 .. Len(links) PROVE g[n] = Push(g[n - 1], links[n])
  <2>1. n - 1 \in Nat /\ (n - 1) + 1 = n
    OBVIOUS
  <2> QED BY <1>1, <1>4, <2>1
<1> DEFINE f == [n \in 0 .. Len(links) |-> g[n]]
           r == [n \in 0 .. Len(links) |-> IF n = 0 THEN <<>> ELSE Push(f[n - 1], links[n])]
<1>6. ASSUME NEW n \in 0 .. Len(links) PROVE f[n] = r[n]
  <2>1. CASE n = 0
    BY <1>4, <2>1
  <2>2. CASE n # 0
    <3>1. n \in 1 .. Len(links) /\ f[n] = g[n] /\ f[n - 1] = g[n - 1]
      BY <2>2
    <3>2. r[n] = Push(f[n - 1], links[n])
      BY <2>2
    <3> HIDE DEF f, r
    <3> QED BY <1>5, <3>1, <3>2
  <2> QED BY <2>1, <2>2
<1>7. f = [n \in 0 .. Len(links) |-> f[n]] /\ r = [n \in 0 .. Len(links) |-> r[n]]
  OBVIOUS
<1>8. f = r
  <2> HIDE DEF f, r
  <2> QED BY <1>6, <1>7
<1>9. Listing(links, targets, fields, f)
  <2>1. f = [n \in 0 .. Len(links) |-> IF n = 0 THEN <<>> ELSE Push(f[n - 1], links[n])]
    <3> HIDE DEF f
    <3> QED BY <1>8 DEF r
  <2> HIDE DEF f
  <2> QED BY <2>1 DEF Listing, Push
<1> QED BY <1>9

\* The entries made of a list of links are the links that are not skipped.
LEMMA EntriesElements ==
  ASSUME NEW T, NEW links \in Seq(T), NEW targets, NEW fields
  PROVE  /\ Entries(links, targets, fields) \in Seq(T)
         /\ ToSet(Entries(links, targets, fields)) = {e \in ToSet(links) : Kept(e, targets, fields)}
<1> DEFINE listed == CHOOSE l : Listing(links, targets, fields, l)
           Push(s, e) == Pushed(s, e, targets, fields)
           Of(n) == {links[i] : i \in {j \in 1 .. n : Kept(links[j], targets, fields)}}
           Good(n) == listed[n] \in Seq(T) /\ ToSet(listed[n]) = Of(n)
           S == {n \in Nat : n <= Len(links) => Good(n)}
<1>1. Listing(links, targets, fields, listed)
  BY ListingExists
<1>2. Entries(links, targets, fields) = listed[Len(links)]
  BY DEF Entries, Listing
<1> HIDE DEF listed
<1>3. listed[0] = <<>> /\ \A n \in 1 .. Len(links) : listed[n] = Push(listed[n - 1], links[n])
  <2>1. listed = [n \in 0 .. Len(links) |-> IF n = 0 THEN <<>> ELSE Push(listed[n - 1], links[n])]
    BY <1>1 DEF Listing
  <2> DEFINE r == [n \in 0 .. Len(links) |-> IF n = 0 THEN <<>> ELSE Push(listed[n - 1], links[n])]
  <2> HIDE DEF Push
  <2>2. ASSUME NEW n \in 0 .. Len(links) PROVE r[n] = IF n = 0 THEN <<>> ELSE Push(listed[n - 1], links[n])
    OBVIOUS
  <2>3. listed = r
    BY <2>1
  <2>4. 0 \in 0 .. Len(links) /\ \A n \in 1 .. Len(links) : n \in 0 .. Len(links) /\ n # 0
    OBVIOUS
  <2> HIDE DEF r
  <2>5. listed[0] = <<>>
    BY <2>2, <2>3, <2>4
  <2>6. ASSUME NEW n \in 1 .. Len(links) PROVE listed[n] = Push(listed[n - 1], links[n])
    BY <2>2, <2>3, <2>4
  <2> QED BY <2>5, <2>6
<1>4. Good(0)
  <2>1. Of(0) = {} /\ ToSet(<<>>) = {} /\ <<>> \in Seq(T)
    BY DEF ToSet
  <2> QED BY <1>3, <2>1
<1>5. ASSUME NEW n \in Nat, n < Len(links), Good(n) PROVE Good(n + 1)
  <2>1. n + 1 \in 1 .. Len(links) /\ (n + 1) - 1 = n /\ links[n + 1] \in T
    BY <1>5
  <2>2. listed[n + 1] = Push(listed[n], links[n + 1])
    BY <1>3, <2>1
  <2>3. Of(n + 1) = Of(n) \cup (IF Kept(links[n + 1], targets, fields) THEN {links[n + 1]} ELSE {})
    <3> DEFINE Good1(j) == Kept(links[j], targets, fields)
    <3>1. {j \in 1 .. n + 1 : Good1(j)} = {j \in 1 .. n : Good1(j)} \cup (IF Good1(n + 1) THEN {n + 1} ELSE {})
      <4>1. 1 .. n + 1 = (1 .. n) \cup {n + 1}
        OBVIOUS
      <4> HIDE DEF Good1
      <4> QED BY <4>1
    <3> QED BY <3>1
  <2>4. /\ Push(listed[n], links[n + 1]) \in Seq(T)
        /\ ToSet(Push(listed[n], links[n + 1]))
             = ToSet(listed[n]) \cup (IF Kept(links[n + 1], targets, fields) THEN {links[n + 1]} ELSE {})
    BY <1>5, <2>1, PushedElements
  <2> HIDE DEF Of, Push
  <2> QED BY <1>5, <2>2, <2>3, <2>4
<1> HIDE DEF Good
<1>6. 0 \in S /\ \A n \in Nat : n \in S => n + 1 \in S
  <2>1. 0 \in S
    BY <1>4
  <2>2. ASSUME NEW n \in Nat, n \in S PROVE n + 1 \in S
    BY <1>5, <2>2
  <2> QED BY <2>1, <2>2
<1>7. Nat \subseteq S
  <2> HIDE DEF S
  <2> QED BY <1>6, NatSetInduction
<1>8. Good(Len(links))
  <2>1. Len(links) \in Nat
    OBVIOUS
  <2> QED BY <1>7, <2>1
<1>9. Of(Len(links)) = {e \in ToSet(links) : Kept(e, targets, fields)}
  BY DEF ToSet
<1> HIDE DEF Of
<1> QED BY <1>2, <1>8, <1>9 DEF Good

-----------------------------------------------------------------------------
(* The links of a document *)

BodyLinks(p, doc) == [i \in DOMAIN doc.body |-> Entry(ResolveLink(p, doc.body[i]), None)]

\* Body links have no field.
LEMMA BodyElements ==
  ASSUME NEW p, NEW doc \in Contents
  PROVE  /\ BodyEntries(p, doc) \in Seq(ToSet(BodyLinks(p, doc)))
         /\ \A e \in ToSet(BodyLinks(p, doc)) : e.field = None
         /\ ToSet(BodyEntries(p, doc)) \subseteq ToSet(BodyLinks(p, doc))
         /\ \A e \in ToSet(BodyEntries(p, doc)) : e.target # p
<1> DEFINE links == BodyLinks(p, doc)
           targets == {<<>>, p}
           fields == {}
<1>1. doc.body \in Seq(ToSet(doc.body))
  BY LinksAssumption
<1>2. DOMAIN doc.body = 1 .. Len(doc.body) /\ Len(doc.body) \in Nat
  BY <1>1
<1>3. \A e \in ToSet(links) : e.field = None
  <2>1. DOMAIN links = DOMAIN doc.body /\ \A i \in DOMAIN doc.body : links[i].field = None
    BY DEF BodyLinks, Entry
  <2> HIDE DEF links
  <2> QED BY <2>1 DEF ToSet
<1>4. links \in Seq(ToSet(links))
  <2>1. links = [i \in 1 .. Len(doc.body) |-> links[i]]
    BY <1>2 DEF BodyLinks
  <2> HIDE DEF links
  <2> QED BY <1>2, <2>1 DEF ToSet
<1>5. BodyEntries(p, doc) = Entries(links, targets, fields)
  BY DEF BodyEntries, BodyLinks
<1> HIDE DEF links, targets, fields
<1>6. /\ Entries(links, targets, fields) \in Seq(ToSet(links))
      /\ ToSet(Entries(links, targets, fields)) = {e \in ToSet(links) : Kept(e, targets, fields)}
  BY <1>4, EntriesElements
<1> QED BY <1>3, <1>5, <1>6 DEF links, targets, Kept

\* Relations have one, and are the links that lead to another document by a field that is shown.
LEMMA RelationElements ==
  ASSUME NEW p, NEW doc \in Contents, NEW known, NEW ov
  PROVE  /\ RelationEntries(p, doc, known, ov) \in Seq(ToSet(RelationLinks(p, doc, known, ov)))
         /\ \A e \in ToSet(RelationLinks(p, doc, known, ov)) : e.field # None
         /\ ToSet(RelationEntries(p, doc, known, ov))
              = {e \in ToSet(RelationLinks(p, doc, known, ov)) :
                   e.target \notin {None, p} /\ ~IsHidden(ov, e.field)}
<1> DEFINE links == RelationLinks(p, doc, known, ov)
           targets == {None, p}
           fields == ov.hidden
<1>1. doc.rels \in Seq(ToSet(doc.rels)) /\ \A i \in DOMAIN doc.rels : doc.rels[i].field # None
  BY LinksAssumption
<1>2. DOMAIN doc.rels = 1 .. Len(doc.rels) /\ Len(doc.rels) \in Nat
  BY <1>1
<1>3. \A e \in ToSet(links) : e.field # None
  <2>1. DOMAIN links = DOMAIN doc.rels /\ \A i \in DOMAIN doc.rels : links[i].field # None
    BY <1>1 DEF RelationLinks, Entry
  <2> HIDE DEF links
  <2> QED BY <2>1 DEF ToSet
<1>4. links \in Seq(ToSet(links))
  <2>1. links = [i \in 1 .. Len(doc.rels) |-> links[i]]
    BY <1>2 DEF RelationLinks
  <2> HIDE DEF links
  <2> QED BY <1>2, <2>1 DEF ToSet
<1>5. RelationEntries(p, doc, known, ov) = Entries(links, targets, fields)
  BY DEF RelationEntries
<1> HIDE DEF links, targets, fields
<1>6. /\ Entries(links, targets, fields) \in Seq(ToSet(links))
      /\ ToSet(Entries(links, targets, fields)) = {e \in ToSet(links) : Kept(e, targets, fields)}
  BY <1>4, EntriesElements
<1> QED BY <1>3, <1>5, <1>6 DEF links, targets, fields, Kept, IsHidden

\* Entries that begin with the body links of a source and have no other body link.
BodyFollows(p, doc, entries) ==
  LET body == BodyEntries(p, doc)
  IN  /\ IsPrefix(body, entries)
      /\ \A i \in Len(body) + 1 .. Len(entries) : entries[i].field # None

\* Entries of a document that does not link to itself.
OfOthers(p, entries) == entries \in Seq(ToSet(entries)) /\ \A e \in ToSet(entries) : e.target # p

\* What build_entries_for_file makes of a source is such, whatever is known and shown.
LEMMA BuildFollows ==
  ASSUME NEW p, NEW doc \in Contents, NEW known, NEW ov
  PROVE  BodyFollows(p, doc, BuildEntries(p, doc, known, ov)) /\ OfOthers(p, BuildEntries(p, doc, known, ov))
<1> DEFINE body == BodyEntries(p, doc)
           rels == RelationEntries(p, doc, known, ov)
           T == ToSet(BodyLinks(p, doc)) \cup ToSet(RelationLinks(p, doc, known, ov))
<1>1. body \in Seq(T) /\ rels \in Seq(T) /\ BuildEntries(p, doc, known, ov) = body \o rels
  BY BodyElements, RelationElements DEF BuildEntries
<1>7. ToSet(body \o rels) = ToSet(body) \cup ToSet(rels)
  <2> HIDE DEF body, rels, T
  <2> QED BY <1>1, ConcatElements
<1>8. \A e \in ToSet(body) \cup ToSet(rels) : e.target # p
  <2>1. \A e \in ToSet(body) : e.target # p
    BY BodyElements
  <2>2. ToSet(rels) = {e \in ToSet(RelationLinks(p, doc, known, ov)) :
                         e.target \notin {None, p} /\ ~IsHidden(ov, e.field)}
    BY RelationElements
  <2>3. \A e \in ToSet(rels) : e.target # p
    BY <2>2
  <2> QED BY <2>1, <2>3
<1>2. \A i \in 1 .. Len(rels) : rels[i].field # None
  <2>1. \A e \in ToSet(rels) : e.field # None
    BY RelationElements
  <2> QED BY <1>1, <2>1 DEF ToSet
<1> HIDE DEF body, rels, T
<1>3. Len(body) \in Nat /\ Len(rels) \in Nat /\ Len(body \o rels) = Len(body) + Len(rels)
  BY <1>1
<1>4. IsPrefix(body, body \o rels)
  BY <1>1 DEF IsPrefix
<1>5. ASSUME NEW i \in Len(body) + 1 .. Len(body \o rels) PROVE (body \o rels)[i].field # None
  <2>1. i - Len(body) \in 1 .. Len(rels) /\ (body \o rels)[i] = rels[i - Len(body)]
    BY <1>1, <1>3
  <2> QED BY <1>2, <2>1
<1>6. BodyFollows(p, doc, body \o rels)
  BY <1>4, <1>5 DEF BodyFollows, body
<1>9. body \o rels \in Seq(ToSet(body \o rels))
  <2> DEFINE s == body \o rels
  <2>1. s \in Seq(T)
    BY <1>1
  <2> HIDE DEF s
  <2>2. s = [i \in 1 .. Len(s) |-> s[i]] /\ Len(s) \in Nat /\ DOMAIN s = 1 .. Len(s)
    BY <2>1
  <2>3. s \in Seq(ToSet(s))
    BY <2>2 DEF ToSet
  <2> QED BY <2>3 DEF s
<1> QED BY <1>1, <1>6, <1>7, <1>8, <1>9 DEF OfOthers

\* Its links by a field are those of the relations of the source.
LEMMA BuildRelations ==
  ASSUME NEW p, NEW doc \in Contents, NEW known, NEW ov, NEW q, NEW f, f # None, q # None
  PROVE  /\ (\E e \in ToSet(BuildEntries(p, doc, known, ov)) : e.target = q /\ e.field = f)
              <=> Entry(q, f) \in ToSet(BuildEntries(p, doc, known, ov))
         /\ Entry(q, f) \in ToSet(BuildEntries(p, doc, known, ov))
              <=> /\ Entry(q, f) \in ToSet(RelationLinks(p, doc, known, ov))
                  /\ q # p /\ ~IsHidden(ov, f)
<1> DEFINE body == BodyEntries(p, doc)
           rels == RelationEntries(p, doc, known, ov)
           T == ToSet(BodyLinks(p, doc)) \cup ToSet(RelationLinks(p, doc, known, ov))
<1>1. body \in Seq(T) /\ rels \in Seq(T) /\ BuildEntries(p, doc, known, ov) = body \o rels
  BY BodyElements, RelationElements DEF BuildEntries
<1>2. ToSet(body \o rels) = ToSet(body) \cup ToSet(rels)
  <2> HIDE DEF body, rels, T
  <2> QED BY <1>1, ConcatElements
<1>3. \A e \in ToSet(body) : e.field = None
  BY BodyElements
<1>4. ToSet(rels) = {e \in ToSet(RelationLinks(p, doc, known, ov)) :
                       e.target \notin {None, p} /\ ~IsHidden(ov, e.field)}
  BY RelationElements
<1>5. \A e \in ToSet(RelationLinks(p, doc, known, ov)) : e = Entry(e.target, e.field)
  BY DEF RelationLinks, ToSet, Entry
<1>6. Entry(q, f).target = q /\ Entry(q, f).field = f
  BY DEF Entry
<1> HIDE DEF body, rels, T
<1> QED BY <1>1, <1>2, <1>3, <1>4, <1>5, <1>6

-----------------------------------------------------------------------------
(* The index and the graph *)

Files == [Paths -> Contents \cup {None}]
Events == [path : Paths, kind : {"deleted", "modified"}]
            \cup [path : Paths, kind : {"renamed"}, from : Paths] \cup [path : {None}, kind : {"schema"}]

LinksTyped == disk \in Files /\ overlay \in Overlays /\ queue \in Seq(Events)

\* A graph follows an index, but for documents of the two histories.
Follows(sources, links, newer, gone) ==
  /\ sources \in Files /\ links = [p \in Paths |-> links[p]]
  /\ \A p \in Paths : /\ OfOthers(p, links[p])
                      /\ links[p] # <<>> => sources[p] # None \/ p \in gone
                      /\ sources[p] # None /\ p \notin newer => BodyFollows(p, sources[p], links[p])

\* A document without links is one.
LEMMA NoneOfOthers ==
  ASSUME NEW p
  PROVE  OfOthers(p, <<>>)
<1>1. ToSet(<<>>) = {} /\ <<>> \in Seq({})
  BY DEF ToSet
<1> QED BY <1>1 DEF OfOthers

LinksInv == LinksTyped /\ Follows(indexed, forward, ahead, unlinked)

\* That is what the property says.
LEMMA FollowsIsEnough == LinksInv => GraphFollowsIndex
  BY DEF LinksInv, Follows, BodyFollows, GraphFollowsIndex, NoGhosts, BodyLinksFollow, Present

FollowsIn(s) == Follows(s.indexed, s.forward, s.ahead, s.unlinked)

\* A document is removed with its links.
LEMMA RemovedFollows ==
  ASSUME NEW s, FollowsIn(s), NEW p \in Paths
  PROVE  FollowsIn(Removed(s, p))
<1> DEFINE sources == [s.indexed EXCEPT ![p] = None]
           links == [s.forward EXCEPT ![p] = <<>>]
           newer == s.ahead \ {p}
           gone == s.unlinked \ {p}
           new == Removed(s, p)
<1>1. new.indexed = sources /\ new.forward = links /\ new.ahead = newer /\ new.unlinked = gone
  BY DEF Removed, RemoveFileLinks
<1>2. Follows(sources, links, newer, gone)
  BY NoneOfOthers DEF FollowsIn, Follows, Files
<1> HIDE DEF sources, links, newer, gone, new
<1>3. FollowsIn(new)
  BY <1>1, <1>2 DEF FollowsIn
<1> QED BY <1>3 DEF new

\* A document is read, and its links are those of what is read; if it is gone they stay.
LEMMA ProcessedFollows ==
  ASSUME LinksTyped, NEW s, FollowsIn(s), NEW p \in Paths
  PROVE  FollowsIn(Processed(s, p))
<1> DEFINE new == Processed(s, p)
<1>1. CASE disk[p] = None
  <2> DEFINE sources == [s.indexed EXCEPT ![p] = None]
             gone == s.unlinked \cup {p}
  <2>1. new.indexed = sources /\ new.forward = s.forward /\ new.ahead = s.ahead /\ new.unlinked = gone
    BY <1>1 DEF Processed
  <2>2. Follows(sources, s.forward, s.ahead, gone)
    BY DEF FollowsIn, Follows, Files
  <2> HIDE DEF sources, gone, new
  <2>3. FollowsIn(new)
    BY <2>1, <2>2 DEF FollowsIn
  <2> QED BY <2>3 DEF new
<1>2. CASE disk[p] # None /\ s.indexed[p] = disk[p]
  BY <1>2 DEF Processed
<1>3. CASE disk[p] # None /\ s.indexed[p] # disk[p]
  <2> DEFINE entries == BuildEntries(p, disk[p], Present(s.indexed) \cup {p}, overlay)
             sources == [s.indexed EXCEPT ![p] = disk[p]]
             links == [s.forward EXCEPT ![p] = entries]
             newer == s.ahead \ {p}
             gone == s.unlinked \ {p}
  <2>1. new.indexed = sources /\ new.forward = links /\ new.ahead = newer /\ new.unlinked = gone
    BY <1>3 DEF Processed, UpdateFileLinks
  <2>2. disk[p] \in Contents
    BY <1>3 DEF LinksTyped, Files
  <2>3. BodyFollows(p, disk[p], entries) /\ OfOthers(p, entries)
    BY <2>2, BuildFollows
  <2> HIDE DEF entries
  <2>4. Follows(sources, links, newer, gone)
    BY <1>3, <2>2, <2>3 DEF FollowsIn, Follows, Files
  <2> HIDE DEF sources, links, newer, gone, new
  <2>5. FollowsIn(new)
    BY <2>1, <2>4 DEF FollowsIn
  <2> QED BY <2>5 DEF new
<1> QED BY <1>1, <1>2, <1>3

\* A graph built of documents follows them.
LEMMA BuiltFollows ==
  ASSUME LinksTyped
  PROVE  Follows(disk, BuildLinkGraph(disk, overlay), {}, {})
<1> DEFINE links == BuildLinkGraph(disk, overlay)
           Made(p) == BuildEntries(p, disk[p], Present(disk), overlay)
<1>1. links = [p \in Paths |-> IF disk[p] = None THEN <<>> ELSE Made(p)]
  BY DEF BuildLinkGraph
<1>2. ASSUME NEW p \in Paths, disk[p] # None PROVE BodyFollows(p, disk[p], Made(p)) /\ OfOthers(p, Made(p))
  <2>1. disk[p] \in Contents
    BY <1>2 DEF LinksTyped, Files
  <2> QED BY <2>1, BuildFollows
<1> HIDE DEF links, Made
<1>3. links = [p \in Paths |-> links[p]] /\ \A p \in Paths : links[p] = IF disk[p] = None THEN <<>> ELSE Made(p)
  BY <1>1
<1>4. Follows(disk, links, {}, {})
  BY <1>2, <1>3, NoneOfOthers DEF Follows, LinksTyped
<1> QED BY <1>4 DEF links

-----------------------------------------------------------------------------
(* Steps *)

\* People edit, and the watcher is told of it.
LEMMA EditsInv ==
  ASSUME LinksInv,
         \/ \E p \in Paths : \E c \in Contents \cup {None} : Edit(p, c)
         \/ \E p, q \in Paths : Rename(p, q)
         \/ \E o \in Overlays : ChangeOverlay(o)
  PROVE  LinksInv'
<1>1. UNCHANGED <<indexed, forward, ahead, unlinked>>
  BY DEF Edit, Rename, ChangeOverlay, graphVars
<1>2. ASSUME NEW e \in Events, queue' = Append(queue, e) PROVE queue' \in Seq(Events)
  BY <1>2 DEF LinksInv, LinksTyped
<1>3. ASSUME NEW p \in Paths, NEW c \in Contents \cup {None}, Edit(p, c) PROVE LinksTyped'
  <2>1. PICK kind \in {"deleted", "modified"} : queue' = Append(queue, [path |-> p, kind |-> kind])
    BY <1>3 DEF Edit
  <2>2. [path |-> p, kind |-> kind] \in Events
    BY DEF Events
  <2>3. queue' \in Seq(Events)
    BY <1>2, <2>1, <2>2
  <2>4. disk' \in Files /\ UNCHANGED overlay
    BY <1>3 DEF Edit, LinksInv, LinksTyped, Files
  <2> QED BY <2>3, <2>4 DEF LinksInv, LinksTyped
<1>4. ASSUME NEW p \in Paths, NEW q \in Paths, Rename(p, q) PROVE LinksTyped'
  <2>1. queue' = Append(queue, [path |-> q, kind |-> "renamed", from |-> p])
    BY <1>4 DEF Rename
  <2>2. [path |-> q, kind |-> "renamed", from |-> p] \in Events
    BY DEF Events
  <2>3. queue' \in Seq(Events)
    BY <1>2, <2>1, <2>2
  <2>4. disk' = [disk EXCEPT ![q] = disk[p], ![p] = None] /\ UNCHANGED overlay
    BY <1>4 DEF Rename
  <2>5. disk' \in Files
    BY <2>4 DEF LinksInv, LinksTyped, Files
  <2> QED BY <2>3, <2>4, <2>5 DEF LinksInv, LinksTyped
<1>5. ASSUME NEW o \in Overlays, ChangeOverlay(o) PROVE LinksTyped'
  <2>1. [path |-> None, kind |-> "schema"] \in Events
    BY DEF Events
  <2>2. queue' \in Seq(Events)
    BY <1>2, <1>5, <2>1 DEF ChangeOverlay
  <2> QED BY <1>5, <2>2 DEF ChangeOverlay, LinksInv, LinksTyped
<1> QED BY <1>1, <1>3, <1>4, <1>5 DEF LinksInv

\* An event of a file removes, reads, or removes and reads.
LEMMA HandleFileInv ==
  ASSUME LinksInv, HandleFile
  PROVE  LinksInv'
<1> DEFINE e == Head(queue)
           new == CASE e.kind = "deleted" /\ disk[e.path] = None -> Removed(Now, e.path)
                    [] e.kind = "renamed" -> Processed(Removed(Now, e.from), e.path)
                    [] OTHER -> Processed(Now, e.path)
<1>1. queue # <<>> /\ e.kind # "schema" /\ queue' = Tail(queue) /\ Become(new) /\ UNCHANGED <<disk, overlay, edits>>
  BY DEF HandleFile
<1>2. e \in Events /\ Tail(queue) \in Seq(Events)
  BY <1>1 DEF LinksInv, LinksTyped
<1>3. e.path \in Paths /\ (e.kind = "renamed" => e.from \in Paths)
  BY <1>1, <1>2 DEF Events
<1>4. FollowsIn(Now)
  BY DEF LinksInv, FollowsIn, Now
<1> HIDE DEF e
<1>5. FollowsIn(new)
  <2>1. FollowsIn(Removed(Now, e.path)) /\ FollowsIn(Processed(Now, e.path))
    BY <1>3, <1>4, RemovedFollows, ProcessedFollows DEF LinksInv
  <2>2. e.kind = "renamed" => FollowsIn(Processed(Removed(Now, e.from), e.path))
    <3>1. e.kind = "renamed" => FollowsIn(Removed(Now, e.from))
      BY <1>3, <1>4, RemovedFollows
    <3> QED BY <1>3, <3>1, ProcessedFollows DEF LinksInv
  <2> QED BY <2>1, <2>2
<1> HIDE DEF new
<1>6. Follows(indexed, forward, ahead, unlinked)'
  BY <1>1, <1>5 DEF Become, FollowsIn
<1>7. LinksTyped'
  BY <1>1, <1>2 DEF LinksInv, LinksTyped
<1> QED BY <1>6, <1>7 DEF LinksInv

\* ingest --file reads one document.
LEMMA IngestFileInv ==
  ASSUME LinksInv, NEW p \in Paths, IngestFile(p)
  PROVE  LinksInv'
<1>1. FollowsIn(Now)
  BY DEF LinksInv, FollowsIn, Now
<1>2. FollowsIn(Processed(Now, p))
  BY <1>1, ProcessedFollows DEF LinksInv
<1> DEFINE new == Processed(Now, p)
<1>3. Become(new) /\ UNCHANGED <<disk, overlay, queue>>
  BY DEF IngestFile
<1>4. FollowsIn(new)
  BY <1>2
<1> HIDE DEF new
<1>5. Follows(indexed, forward, ahead, unlinked)'
  BY <1>3, <1>4 DEF Become, FollowsIn
<1> QED BY <1>3, <1>5 DEF LinksInv, LinksTyped

\* A schema event takes links of what is on disk now, and the history says of which documents
\* that is newer than the index.
LEMMA HandleSchemaInv ==
  ASSUME LinksInv, HandleSchema
  PROVE  LinksInv'
<1> DEFINE there == {p \in Present(indexed) : disk[p] # None}
           Made(p) == BuildEntries(p, disk[p], Present(indexed), overlay)
<1>1. /\ queue # <<>> /\ queue' = Tail(queue) /\ UNCHANGED <<disk, overlay, indexed, unlinked>>
      /\ forward' = [p \in Paths |-> IF p \in there THEN Made(p) ELSE forward[p]]
      /\ ahead' = (ahead \ there) \cup {p \in there : disk[p] # indexed[p]}
  BY DEF HandleSchema
<1>2. ASSUME NEW p \in there PROVE BodyFollows(p, disk[p], Made(p)) /\ OfOthers(p, Made(p)) /\ indexed[p] # None
  <2>1. disk[p] \in Contents
    BY <1>2 DEF LinksInv, LinksTyped, Files, Present
  <2> QED BY <2>1, BuildFollows DEF Present
<1> HIDE DEF there, Made
<1>3. forward' = [p \in Paths |-> forward'[p]]
  BY <1>1
<1>4. ASSUME NEW p \in Paths
      PROVE  /\ OfOthers(p, forward'[p])
             /\ forward'[p] # <<>> => indexed[p] # None \/ p \in unlinked
             /\ indexed[p] # None /\ p \notin ahead' => BodyFollows(p, indexed[p], forward'[p])
  <2>1. CASE p \in there
    BY <1>1, <1>2, <2>1
  <2>2. CASE p \notin there
    BY <1>1, <2>2 DEF LinksInv, Follows
  <2> QED BY <2>1, <2>2
<1>5. Follows(indexed, forward, ahead, unlinked)'
  BY <1>1, <1>3, <1>4 DEF LinksInv, Follows
<1>6. LinksTyped'
  BY <1>1 DEF LinksInv, LinksTyped
<1> QED BY <1>5, <1>6 DEF LinksInv

\* An ingest of all documents builds the graph anew.
LEMMA IngestInv ==
  ASSUME LinksInv, Ingest
  PROVE  LinksInv'
<1> DEFINE links == BuildLinkGraph(disk, overlay)
<1>1. Follows(disk, links, {}, {})
  BY BuiltFollows DEF LinksInv
<1>2. /\ indexed' = disk /\ forward' = links /\ ahead' = {} /\ unlinked' = {}
      /\ UNCHANGED <<disk, overlay, queue>>
  BY DEF Ingest
<1> HIDE DEF links
<1>3. Follows(indexed, forward, ahead, unlinked)'
  BY <1>1, <1>2
<1> QED BY <1>2, <1>3 DEF LinksInv, LinksTyped

\* Every step keeps the invariant.
LEMMA NextLinks ==
  ASSUME LinksInv, [LinksNext]_linkVars
  PROVE  LinksInv'
<1>1. CASE UNCHANGED linkVars
  BY <1>1 DEF linkVars, graphVars, LinksInv, LinksTyped, Follows
<1>2. CASE \/ \E p \in Paths : \E c \in Contents \cup {None} : Edit(p, c)
           \/ \E p, q \in Paths : Rename(p, q)
           \/ \E o \in Overlays : ChangeOverlay(o)
  BY <1>2, EditsInv
<1>3. CASE HandleFile \/ HandleSchema \/ Ingest \/ \E p \in Paths : IngestFile(p)
  BY <1>3, HandleFileInv, HandleSchemaInv, IngestInv, IngestFileInv
<1> QED BY <1>1, <1>2, <1>3 DEF LinksNext

\* There are no documents.
LEMMA InitLinks == LinksInit => LinksInv
<1> SUFFICES ASSUME LinksInit PROVE LinksInv
  OBVIOUS
<1>1. /\ disk = [p \in Paths |-> None] /\ indexed = disk /\ overlay \in Overlays
      /\ forward = [p \in Paths |-> <<>>] /\ queue = <<>>
  BY DEF LinksInit
<1>2. LinksTyped
  BY <1>1 DEF LinksTyped, Files
<1>3. Follows(indexed, forward, ahead, unlinked)
  BY <1>1, NoneOfOthers DEF Follows, Files
<1> QED BY <1>2, <1>3 DEF LinksInv

\* Whatever mix of events, renames, schema changes and ingests led to it, the graph has the
\* documents of the index with the body links of their sources, in their order.
THEOREM GraphFollows == LinksSpec => []GraphFollowsIndex
<1>1. LinksInit => LinksInv
  BY InitLinks
<1>2. LinksInv /\ [LinksNext]_linkVars => LinksInv'
  BY NextLinks
<1>3. LinksInv => GraphFollowsIndex
  BY FollowsIsEnough
<1> QED BY <1>1, <1>2, <1>3, PTL DEF LinksSpec

-----------------------------------------------------------------------------
(* Both directions *)

\* Who links to a document by a field.
LEMMA BacklinksAre ==
  ASSUME NEW g, NEW p \in DOMAIN g, NEW q, NEW f
  PROVE  [source |-> p, field |-> f] \in Backlinks(g, q) <=> \E e \in ToSet(g[p]) : e.target = q /\ e.field = f
<1> DEFINE b == [source |-> p, field |-> f]
<1>1. ASSUME b \in Backlinks(g, q) PROVE \E e \in ToSet(g[p]) : e.target = q /\ e.field = f
  <2>1. PICK l \in Links(g) : g[l[1]][l[2]].target = q /\ b = [source |-> l[1], field |-> g[l[1]][l[2]].field]
    BY <1>1 DEF Backlinks
  <2>2. l[1] = p /\ g[p][l[2]].field = f /\ g[p][l[2]].target = q
    BY <2>1
  <2>3. l[2] \in DOMAIN g[p]
    BY <2>1, <2>2 DEF Links
  <2> QED BY <2>2, <2>3 DEF ToSet
<1>2. ASSUME NEW e \in ToSet(g[p]), e.target = q, e.field = f PROVE b \in Backlinks(g, q)
  <2>1. PICK i \in DOMAIN g[p] : e = g[p][i]
    BY <1>2 DEF ToSet
  <2> DEFINE l == <<p, i>>
  <2>2. l \in Links(g) /\ l[1] = p /\ l[2] = i
    BY <2>1 DEF Links
  <2> HIDE DEF l
  <2>3. b = [source |-> l[1], field |-> g[l[1]][l[2]].field] /\ g[l[1]][l[2]].target = q
    BY <1>2, <2>1, <2>2
  <2> HIDE DEF b
  <2> QED BY <2>2, <2>3 DEF Backlinks
<1> QED BY <1>1, <1>2

\* What a document is populated with: the links its graph would have by a field.
LEMMA RelationsAre ==
  ASSUME NEW p, NEW q, NEW f, indexed[p] \in Contents
  PROVE  Entry(q, f) \in ComputeRelations(p)
           <=> /\ Entry(q, f) \in ToSet(RelationLinks(p, indexed[p], Present(indexed), overlay))
               /\ q # p /\ ~IsHidden(overlay, f)
<1> DEFINE rels == indexed[p].rels
           Of(r) == Entry(ResolveRelationTarget(p, r.target, TargetFor(overlay, r.field), Present(indexed)), r.field)
           links == RelationLinks(p, indexed[p], Present(indexed), overlay)
<1>1. ComputeRelations(p) = {e \in {Of(r) : r \in {r \in ToSet(rels) : ~IsHidden(overlay, r.field)}} : e.target # p}
  BY DEF ComputeRelations
<1>2. links = [i \in DOMAIN rels |-> Of(rels[i])]
  BY DEF RelationLinks
<1>3. \A r : Of(r).field = r.field
  BY DEF Entry
<1>4. Entry(q, f).target = q /\ Entry(q, f).field = f
  BY DEF Entry
<1> HIDE DEF Of, links, rels
<1>5. ToSet(links) = {Of(r) : r \in ToSet(rels)}
  BY <1>2 DEF ToSet
<1> QED BY <1>1, <1>3, <1>4, <1>5 DEF links

\* If the graph is that of the index, its links by a field are the relations of a document
\* either way.
LEMMA PopulateMatches ==
  ASSUME LinksInv
  PROVE  PopulateMatchesBacklinks
<1> SUFFICES ASSUME forward = BuildLinkGraph(indexed, overlay),
                    NEW p \in Present(indexed), NEW q \in Paths, NEW f \in DOMAIN overlay.folder
             PROVE  LET b == [source |-> p, field |-> f] IN
                    /\ (Entry(q, f) \in ComputeRelations(p)) = (b \in ComputeReferencedBy(q))
                    /\ indexed[q] # None =>
                         (Entry(q, f) \in QueryLinks(forward, p, Present(indexed)).valid)
                           = (b \in QueryLinks(forward, q, Present(indexed)).incoming)
  BY DEF PopulateMatchesBacklinks
<1> DEFINE b == [source |-> p, field |-> f]
           Linked == \E e \in ToSet(forward[p]) : e.target = q /\ e.field = f
<1>1. f # None /\ q # None /\ indexed[p] \in Contents /\ p \in Paths
  BY LinksAssumption DEF LinksInv, LinksTyped, Follows, Files, Present
<1>2. forward[p] = BuildEntries(p, indexed[p], Present(indexed), overlay) /\ p \in DOMAIN forward
  BY <1>1 DEF BuildLinkGraph, Present
<1> DEFINE Related == /\ Entry(q, f) \in ToSet(RelationLinks(p, indexed[p], Present(indexed), overlay))
                      /\ q # p /\ ~IsHidden(overlay, f)
<1>3. Linked <=> Entry(q, f) \in ToSet(forward[p])
  BY <1>1, <1>2, BuildRelations
<1>4. Entry(q, f) \in ToSet(forward[p]) <=> Related
  BY <1>1, <1>2, BuildRelations
<1>5. Linked <=> Related
  BY <1>3, <1>4
<1>6. Entry(q, f) \in ComputeRelations(p) <=> Linked
  BY <1>1, <1>5, RelationsAre
<1>7. b \in Backlinks(forward, q) <=> Linked
  BY <1>2, BacklinksAre
<1>8. b \in ComputeReferencedBy(q) <=> b \in Backlinks(forward, q)
  BY <1>1 DEF ComputeReferencedBy
<1>9. ASSUME indexed[q] # None
      PROVE  /\ (Entry(q, f) \in QueryLinks(forward, p, Present(indexed)).valid) <=> Entry(q, f) \in ToSet(forward[p])
             /\ QueryLinks(forward, q, Present(indexed)).incoming = Backlinks(forward, q)
  BY <1>9 DEF QueryLinks, Present, Entry
<1> HIDE DEF Linked
<1> QED BY <1>6, <1>7, <1>8, <1>3, <1>9

\* After an ingest, compute_relations and compute_referenced_by tell the same, and so do the
\* links and the backlinks that query_links shows.
THEOREM PopulateIsBacklinks == LinksSpec => []PopulateMatchesBacklinks
<1>1. LinksInit => LinksInv
  BY InitLinks
<1>2. LinksInv /\ [LinksNext]_linkVars => LinksInv'
  BY NextLinks
<1>3. LinksInv => PopulateMatchesBacklinks
  BY PopulateMatches
<1> QED BY <1>1, <1>2, <1>3, PTL DEF LinksSpec

-----------------------------------------------------------------------------
(* Trees *)

\* Appending to what is written out.
LEMMA AppendIs ==
  ASSUME NEW S, NEW s \in Seq(S), NEW t \in Seq(S), NEW e \in S,
         Len(t) = Len(s) + 1, \A i \in 1 .. Len(s) : t[i] = s[i], t[Len(s) + 1] = e
  PROVE  Append(s, e) = t
<1>1. /\ Append(s, e) \in Seq(S) /\ Len(Append(s, e)) = Len(s) + 1
      /\ \A i \in 1 .. Len(s) : Append(s, e)[i] = s[i]
      /\ Append(s, e)[Len(s) + 1] = e
  BY AppendProperties
<1>2. Len(s) \in Nat
  OBVIOUS
<1>3. \A i \in 1 .. Len(s) + 1 : Append(s, e)[i] = t[i]
  BY <1>1, <1>2
<1> QED BY <1>1, <1>3, SeqEqual

\* To one, two and three elements.
LEMMA AppendToOne ==
  ASSUME NEW x, NEW e PROVE Append(<<x>>, e) = <<x, e>>
<1> DEFINE s == <<x>>
           t == <<x, e>>
           S == {x, e}
<1>1. s \in Seq(S) /\ Len(s) = 1 /\ s[1] = x /\ e \in S
  OBVIOUS
<1>2. t \in Seq(S) /\ Len(t) = 2 /\ t[1] = x /\ t[2] = e
  OBVIOUS
<1> HIDE DEF s, t, S
<1>3. Len(t) = Len(s) + 1 /\ t[Len(s) + 1] = e /\ \A i \in 1 .. Len(s) : t[i] = s[i]
  BY <1>1, <1>2
<1>4. Append(s, e) = t
  BY <1>1, <1>2, <1>3, AppendIs
<1> QED BY <1>4 DEF s, t

\* See AppendToOne.
LEMMA AppendToTwo ==
  ASSUME NEW x, NEW y, NEW e PROVE Append(<<x, y>>, e) = <<x, y, e>>
<1> DEFINE s == <<x, y>>
           t == <<x, y, e>>
           S == {x, y, e}
<1>1. s \in Seq(S) /\ Len(s) = 2 /\ s[1] = x /\ s[2] = y /\ e \in S
  OBVIOUS
<1>2. t \in Seq(S) /\ Len(t) = 3 /\ t[1] = x /\ t[2] = y /\ t[3] = e
  OBVIOUS
<1> HIDE DEF s, t, S
<1>3. Len(t) = Len(s) + 1 /\ t[Len(s) + 1] = e /\ \A i \in 1 .. Len(s) : t[i] = s[i]
  BY <1>1, <1>2
<1>4. Append(s, e) = t
  BY <1>1, <1>2, <1>3, AppendIs
<1> QED BY <1>4 DEF s, t

\* See AppendToOne.
LEMMA AppendToThree ==
  ASSUME NEW x, NEW y, NEW z, NEW e PROVE Append(<<x, y, z>>, e) = <<x, y, z, e>>
<1> DEFINE s == <<x, y, z>>
           t == <<x, y, z, e>>
           S == {x, y, z, e}
<1>1. s \in Seq(S) /\ Len(s) = 3 /\ s[1] = x /\ s[2] = y /\ s[3] = z /\ e \in S
  OBVIOUS
<1>2. t \in Seq(S) /\ Len(t) = 4 /\ t[1] = x /\ t[2] = y /\ t[3] = z /\ t[4] = e
  OBVIOUS
<1> HIDE DEF s, t, S
<1>3. Len(t) = Len(s) + 1 /\ t[Len(s) + 1] = e /\ \A i \in 1 .. Len(s) : t[i] = s[i]
  BY <1>1, <1>2
<1>4. Append(s, e) = t
  BY <1>1, <1>2, <1>3, AppendIs
<1> QED BY <1>4 DEF s, t

Edge(g, x, y) == x \in DOMAIN g /\ \E i \in DOMAIN g[x] : g[x][i].target = y
Step(g, x, y, way) == IF way = "outgoing" THEN Edge(g, x, y) ELSE Edge(g, y, x)

\* Backlinks are links: a document is a source of another if it has a link to it.
LEMMA BacklinkSources ==
  ASSUME NEW g, NEW x, NEW y
  PROVE  (\E b \in Backlinks(g, y) : b.source = x) <=> Edge(g, x, y)
<1>1. ASSUME NEW b \in Backlinks(g, y), b.source = x PROVE Edge(g, x, y)
  <2>1. PICK l \in Links(g) : /\ g[l[1]][l[2]].target = y
                              /\ b = [source |-> l[1], field |-> g[l[1]][l[2]].field]
    BY <1>1 DEF Backlinks
  <2>2. PICK z \in DOMAIN g : \E i \in DOMAIN g[z] : l = <<z, i>>
    BY <2>1 DEF Links
  <2>3. z = x
    BY <1>1, <2>1, <2>2
  <2> QED BY <2>1, <2>2, <2>3 DEF Edge
<1>2. ASSUME Edge(g, x, y) PROVE \E b \in Backlinks(g, y) : b.source = x
  <2>1. PICK i \in DOMAIN g[x] : g[x][i].target = y /\ x \in DOMAIN g
    BY <1>2 DEF Edge
  <2> DEFINE l == <<x, i>>
             b == [source |-> l[1], field |-> g[l[1]][l[2]].field]
  <2>2. l \in Links(g) /\ l[1] = x /\ l[2] = i
    BY <2>1 DEF Links
  <2>3. b \in Backlinks(g, y) /\ b.source = x
    BY <2>1, <2>2 DEF Backlinks
  <2> QED BY <2>3
<1> QED BY <1>1, <1>2

\* What follows a document in a tree is at the other end of a link.
LEMMA FollowingSteps ==
  ASSUME NEW g, NEW x, NEW y, NEW way
  PROVE  (\E m \in Following(g, x, way) : m[1] = y) <=> Step(g, x, y, way)
<1>1. CASE way = "outgoing"
  <2>1. ASSUME NEW m \in Outgoing(g, x), m[1] = y PROVE Edge(g, x, y)
    BY <2>1 DEF Outgoing, Edge
  <2>2. ASSUME Edge(g, x, y) PROVE \E m \in Outgoing(g, x) : m[1] = y
    <3>1. PICK i \in DOMAIN g[x] : g[x][i].target = y /\ x \in DOMAIN g
      BY <2>2 DEF Edge
    <3>2. <<g[x][i].target, i>> \in Outgoing(g, x) /\ <<g[x][i].target, i>>[1] = y
      BY <3>1 DEF Outgoing
    <3> QED BY <3>2
  <2> QED BY <1>1, <2>1, <2>2 DEF Following, Step
<1>2. CASE way # "outgoing"
  <2>1. ASSUME NEW m \in Incoming(g, x), m[1] = y PROVE \E b \in Backlinks(g, x) : b.source = y
    BY <2>1 DEF Incoming
  <2>2. ASSUME NEW b \in Backlinks(g, x), b.source = y PROVE \E m \in Incoming(g, x) : m[1] = y
    <3>1. <<b.source, b.field>> \in Incoming(g, x) /\ <<b.source, b.field>>[1] = y
      BY <2>2 DEF Incoming
    <3> QED BY <3>1
  <2> QED BY <1>2, <2>1, <2>2, BacklinkSources DEF Following, Step
<1> QED BY <1>1, <1>2

\* Branches grow by what follows their last document and is not on them.
LEMMA Grown ==
  ASSUME NEW g, NEW way, NEW branches, NEW c
  PROVE  c \in Grow(g, way, branches)
           <=> \E b \in branches : \E m \in Following(g, Last(b)[1], way) : ~OnBranch(b, m[1]) /\ c = Append(b, m)
BY DEF Grow

Root(p) == <<p, None>>
Level1(g, p, way) == Grow(g, way, {<<Root(p)>>})
Level2(g, p, way) == Grow(g, way, Level1(g, p, way))
Level3(g, p, way) == Grow(g, way, Level2(g, p, way))

\* Ways of one, two and three links that pass no document twice.
Way1(g, p, q, way) == Step(g, p, q, way) /\ q # p
Way2(g, p, q, way) == \E x : Way1(g, p, x, way) /\ Step(g, x, q, way) /\ q # p /\ q # x
Way3(g, p, q, way) ==
  \E x, y : /\ Way1(g, p, x, way) /\ Step(g, x, y, way) /\ y # p /\ y # x
            /\ Step(g, y, q, way) /\ q # p /\ q # x /\ q # y

\* The branches of the first level.
LEMMA FirstLevel ==
  ASSUME NEW g, NEW p, NEW way, NEW c
  PROVE  c \in Level1(g, p, way)
           <=> \E m \in Following(g, p, way) : m[1] # p /\ c = <<Root(p), m>>
<1> DEFINE b == <<Root(p)>>
<1>1. Last(b)[1] = p /\ \A x : OnBranch(b, x) <=> x = p
  BY DEF Last, OnBranch, Root
<1>2. \A m : Append(b, m) = <<Root(p), m>>
  BY AppendToOne
<1> HIDE DEF b
<1>3. c \in Grow(g, way, {b}) <=> \E m \in Following(g, p, way) : m[1] # p /\ c = Append(b, m)
  BY <1>1, Grown
<1> QED BY <1>2, <1>3 DEF Level1, b

\* The branches of the second.
LEMMA SecondLevel ==
  ASSUME NEW g, NEW p, NEW way, NEW c
  PROVE  c \in Level2(g, p, way)
           <=> \E m \in Following(g, p, way) : \E n \in Following(g, m[1], way) :
                 m[1] # p /\ n[1] # p /\ n[1] # m[1] /\ c = <<Root(p), m, n>>
<1>1. ASSUME NEW m
      PROVE  LET b == <<Root(p), m>>
             IN  /\ Last(b)[1] = m[1] /\ (\A x : OnBranch(b, x) <=> x = p \/ x = m[1])
                 /\ \A n : Append(b, n) = <<Root(p), m, n>>
  <2> DEFINE b == <<Root(p), m>>
  <2>1. DOMAIN b = {1, 2} /\ b[1] = Root(p) /\ b[2] = m /\ Len(b) = 2
    OBVIOUS
  <2>2. \A n : Append(b, n) = <<Root(p), m, n>>
    BY AppendToTwo
  <2> HIDE DEF b
  <2>3. Root(p)[1] = p
    BY DEF Root
  <2>4. Last(b)[1] = m[1] /\ \A x : OnBranch(b, x) <=> x = p \/ x = m[1]
    BY <2>1, <2>3 DEF Last, OnBranch
  <2> QED BY <2>2, <2>4 DEF b
<1>2. c \in Level2(g, p, way)
        <=> \E b \in Level1(g, p, way) : \E n \in Following(g, Last(b)[1], way) : ~OnBranch(b, n[1]) /\ c = Append(b, n)
  BY Grown DEF Level2
<1>3. ASSUME NEW b \in Level1(g, p, way), NEW n \in Following(g, Last(b)[1], way), ~OnBranch(b, n[1]), c = Append(b, n)
      PROVE  \E m \in Following(g, p, way) : \E k \in Following(g, m[1], way) :
               m[1] # p /\ k[1] # p /\ k[1] # m[1] /\ c = <<Root(p), m, k>>
  <2>1. PICK m \in Following(g, p, way) : m[1] # p /\ b = <<Root(p), m>>
    BY FirstLevel
  <2>2. n \in Following(g, m[1], way) /\ n[1] # p /\ n[1] # m[1] /\ c = <<Root(p), m, n>>
    BY <1>1, <1>3, <2>1
  <2> QED BY <2>1, <2>2
<1>4. ASSUME NEW m \in Following(g, p, way), NEW n \in Following(g, m[1], way),
             m[1] # p, n[1] # p, n[1] # m[1], c = <<Root(p), m, n>>
      PROVE  \E b \in Level1(g, p, way) : \E k \in Following(g, Last(b)[1], way) : ~OnBranch(b, k[1]) /\ c = Append(b, k)
  <2> DEFINE b == <<Root(p), m>>
  <2>1. b \in Level1(g, p, way)
    BY <1>4, FirstLevel
  <2>2. Last(b)[1] = m[1] /\ ~OnBranch(b, n[1]) /\ c = Append(b, n)
    BY <1>1, <1>4
  <2> HIDE DEF b
  <2> QED BY <2>1, <2>2
<1> QED BY <1>2, <1>3, <1>4

\* And of the third.
LEMMA ThirdLevel ==
  ASSUME NEW g, NEW p, NEW way, NEW c
  PROVE  c \in Level3(g, p, way)
           <=> \E m \in Following(g, p, way) : \E n \in Following(g, m[1], way) : \E k \in Following(g, n[1], way) :
                 /\ m[1] # p /\ n[1] # p /\ n[1] # m[1] /\ k[1] # p /\ k[1] # m[1] /\ k[1] # n[1]
                 /\ c = <<Root(p), m, n, k>>
<1>1. ASSUME NEW m, NEW n
      PROVE  LET b == <<Root(p), m, n>>
             IN  /\ Last(b)[1] = n[1] /\ (\A x : OnBranch(b, x) <=> x = p \/ x = m[1] \/ x = n[1])
                 /\ \A k : Append(b, k) = <<Root(p), m, n, k>>
  <2> DEFINE b == <<Root(p), m, n>>
  <2>1. DOMAIN b = {1, 2, 3} /\ b[1] = Root(p) /\ b[2] = m /\ b[3] = n /\ Len(b) = 3
    OBVIOUS
  <2>2. \A k : Append(b, k) = <<Root(p), m, n, k>>
    BY AppendToThree
  <2> HIDE DEF b
  <2>3. Root(p)[1] = p
    BY DEF Root
  <2>4. Last(b)[1] = n[1] /\ \A x : OnBranch(b, x) <=> x = p \/ x = m[1] \/ x = n[1]
    BY <2>1, <2>3 DEF Last, OnBranch
  <2> QED BY <2>2, <2>4 DEF b
<1>2. c \in Level3(g, p, way)
        <=> \E b \in Level2(g, p, way) : \E k \in Following(g, Last(b)[1], way) : ~OnBranch(b, k[1]) /\ c = Append(b, k)
  BY Grown DEF Level3
<1>3. ASSUME NEW b \in Level2(g, p, way), NEW k \in Following(g, Last(b)[1], way), ~OnBranch(b, k[1]), c = Append(b, k)
      PROVE  \E m \in Following(g, p, way) : \E n \in Following(g, m[1], way) : \E l \in Following(g, n[1], way) :
               /\ m[1] # p /\ n[1] # p /\ n[1] # m[1] /\ l[1] # p /\ l[1] # m[1] /\ l[1] # n[1]
               /\ c = <<Root(p), m, n, l>>
  <2>1. PICK m \in Following(g, p, way) : \E n \in Following(g, m[1], way) :
          m[1] # p /\ n[1] # p /\ n[1] # m[1] /\ b = <<Root(p), m, n>>
    BY SecondLevel
  <2>2. PICK n \in Following(g, m[1], way) : m[1] # p /\ n[1] # p /\ n[1] # m[1] /\ b = <<Root(p), m, n>>
    BY <2>1
  <2>3. k \in Following(g, n[1], way) /\ k[1] # p /\ k[1] # m[1] /\ k[1] # n[1] /\ c = <<Root(p), m, n, k>>
    BY <1>1, <1>3, <2>2
  <2> QED BY <2>2, <2>3
<1>4. ASSUME NEW m \in Following(g, p, way), NEW n \in Following(g, m[1], way), NEW k \in Following(g, n[1], way),
             m[1] # p, n[1] # p, n[1] # m[1], k[1] # p, k[1] # m[1], k[1] # n[1], c = <<Root(p), m, n, k>>
      PROVE  \E b \in Level2(g, p, way) : \E l \in Following(g, Last(b)[1], way) : ~OnBranch(b, l[1]) /\ c = Append(b, l)
  <2> DEFINE b == <<Root(p), m, n>>
  <2>1. b \in Level2(g, p, way)
    BY <1>4, SecondLevel
  <2>2. Last(b)[1] = n[1] /\ ~OnBranch(b, k[1]) /\ c = Append(b, k)
    BY <1>1, <1>4
  <2> HIDE DEF b
  <2> QED BY <2>1, <2>2
<1> QED BY <1>2, <1>3, <1>4

Ends(tree) == {Last(b)[1] : b \in tree}

\* The levels end where the ways do, after as many links.
LEMMA LevelsEnd ==
  ASSUME NEW g, NEW p, NEW q, NEW way
  PROVE  /\ q \in Ends(Level1(g, p, way)) <=> Way1(g, p, q, way)
         /\ q \in Ends(Level2(g, p, way)) <=> Way2(g, p, q, way)
         /\ q \in Ends(Level3(g, p, way)) <=> Way3(g, p, q, way)
         /\ \A b \in Level1(g, p, way) : Len(b) = 2
         /\ \A b \in Level2(g, p, way) : Len(b) = 3
         /\ \A b \in Level3(g, p, way) : Len(b) = 4
<1>1. \A m : Len(<<Root(p), m>>) = 2 /\ Last(<<Root(p), m>>) = m
  BY DEF Last
<1>2. \A m, n : Len(<<Root(p), m, n>>) = 3 /\ Last(<<Root(p), m, n>>) = n
  BY DEF Last
<1>3. \A m, n, k : Len(<<Root(p), m, n, k>>) = 4 /\ Last(<<Root(p), m, n, k>>) = k
  BY DEF Last
<1>4. \A b \in Level1(g, p, way) : Len(b) = 2
  BY <1>1, FirstLevel
<1>5. \A b \in Level2(g, p, way) : Len(b) = 3
  BY <1>2, SecondLevel
<1>6. \A b \in Level3(g, p, way) : Len(b) = 4
  BY <1>3, ThirdLevel
<1>7. q \in Ends(Level1(g, p, way)) <=> Way1(g, p, q, way)
  <2>1. q \in Ends(Level1(g, p, way)) <=> \E m \in Following(g, p, way) : m[1] # p /\ m[1] = q
    <3>1. ASSUME NEW m \in Following(g, p, way), m[1] # p, m[1] = q PROVE q \in Ends(Level1(g, p, way))
      <4>1. <<Root(p), m>> \in Level1(g, p, way)
        BY <3>1, FirstLevel
      <4> QED BY <1>1, <3>1, <4>1 DEF Ends
    <3>2. ASSUME NEW b \in Level1(g, p, way), q = Last(b)[1]
          PROVE  \E m \in Following(g, p, way) : m[1] # p /\ m[1] = q
      BY <1>1, <3>2, FirstLevel
    <3> QED BY <3>1, <3>2 DEF Ends
  <2> QED BY <2>1, FollowingSteps DEF Way1
<1>8. q \in Ends(Level2(g, p, way)) <=> Way2(g, p, q, way)
  <2>1. q \in Ends(Level2(g, p, way))
          <=> \E m \in Following(g, p, way) : \E n \in Following(g, m[1], way) :
                m[1] # p /\ n[1] # p /\ n[1] # m[1] /\ n[1] = q
    <3>1. ASSUME NEW m \in Following(g, p, way), NEW n \in Following(g, m[1], way),
                 m[1] # p, n[1] # p, n[1] # m[1], n[1] = q
          PROVE  q \in Ends(Level2(g, p, way))
      <4>1. <<Root(p), m, n>> \in Level2(g, p, way)
        BY <3>1, SecondLevel
      <4> QED BY <1>2, <3>1, <4>1 DEF Ends
    <3>2. ASSUME NEW b \in Level2(g, p, way), q = Last(b)[1]
          PROVE  \E m \in Following(g, p, way) : \E n \in Following(g, m[1], way) :
                   m[1] # p /\ n[1] # p /\ n[1] # m[1] /\ n[1] = q
      BY <1>2, <3>2, SecondLevel
    <3> QED BY <3>1, <3>2 DEF Ends
  <2>2. (\E m \in Following(g, p, way) : \E n \in Following(g, m[1], way) :
           m[1] # p /\ n[1] # p /\ n[1] # m[1] /\ n[1] = q)
          <=> \E x : x # p /\ q # p /\ q # x /\ (\E m \in Following(g, p, way) : m[1] = x)
                     /\ (\E n \in Following(g, x, way) : n[1] = q)
    OBVIOUS
  <2> QED BY <2>1, <2>2, FollowingSteps DEF Way1, Way2
<1>9. q \in Ends(Level3(g, p, way)) <=> Way3(g, p, q, way)
  <2>1. ASSUME NEW b \in Level3(g, p, way), q = Last(b)[1] PROVE Way3(g, p, q, way)
    <3>1. PICK m \in Following(g, p, way) : \E n \in Following(g, m[1], way) : \E k \in Following(g, n[1], way) :
            /\ m[1] # p /\ n[1] # p /\ n[1] # m[1] /\ k[1] # p /\ k[1] # m[1] /\ k[1] # n[1]
            /\ b = <<Root(p), m, n, k>>
      BY ThirdLevel
    <3>2. PICK n \in Following(g, m[1], way) : \E k \in Following(g, n[1], way) :
            /\ m[1] # p /\ n[1] # p /\ n[1] # m[1] /\ k[1] # p /\ k[1] # m[1] /\ k[1] # n[1]
            /\ b = <<Root(p), m, n, k>>
      BY <3>1
    <3>3. PICK k \in Following(g, n[1], way) :
            /\ m[1] # p /\ n[1] # p /\ n[1] # m[1] /\ k[1] # p /\ k[1] # m[1] /\ k[1] # n[1]
            /\ b = <<Root(p), m, n, k>>
      BY <3>2
    <3>4. k[1] = q
      BY <1>3, <2>1, <3>3
    <3>5. Step(g, p, m[1], way) /\ Step(g, m[1], n[1], way) /\ Step(g, n[1], q, way)
      BY <3>4, FollowingSteps
    <3> QED BY <3>3, <3>4, <3>5 DEF Way1, Way3
  <2>2. ASSUME Way3(g, p, q, way) PROVE \E b \in Level3(g, p, way) : q = Last(b)[1]
    <3>1. PICK x, y : /\ Step(g, p, x, way) /\ x # p /\ Step(g, x, y, way) /\ y # p /\ y # x
                      /\ Step(g, y, q, way) /\ q # p /\ q # x /\ q # y
      BY <2>2 DEF Way1, Way3
    <3>2. PICK m \in Following(g, p, way) : m[1] = x
      BY <3>1, FollowingSteps
    <3>3. PICK n \in Following(g, x, way) : n[1] = y
      BY <3>1, FollowingSteps
    <3>4. PICK k \in Following(g, y, way) : k[1] = q
      BY <3>1, FollowingSteps
    <3>5. <<Root(p), m, n, k>> \in Level3(g, p, way)
      BY <3>1, <3>2, <3>3, <3>4, ThirdLevel
    <3> QED BY <1>3, <3>4, <3>5
  <2> QED BY <2>1, <2>2 DEF Ends
<1> QED BY <1>4, <1>5, <1>6, <1>7, <1>8, <1>9

\* Where ways of at most so many links lead.
Way(g, p, q, way, depth) ==
  Way1(g, p, q, way) \/ (depth = 3 /\ (Way2(g, p, q, way) \/ Way3(g, p, q, way)))

\* A tree consists of its levels.
LEMMA TreeLevels ==
  ASSUME NEW g, NEW p, NEW way
  PROVE  /\ Tree(g, p, way, Clamp(1)) = Level1(g, p, way)
         /\ Tree(g, p, way, Clamp(3)) = Level1(g, p, way) \cup Level2(g, p, way) \cup Level3(g, p, way)
<1>1. Clamp(1) = 1 /\ Clamp(3) = 3
  BY DEF Clamp
<1>2. Tree(g, p, way, 1) = Level1(g, p, way)
  BY DEF Tree, Level1, Root
<1>3. Tree(g, p, way, 3) = Level1(g, p, way) \cup Level2(g, p, way) \cup Level3(g, p, way)
  BY DEF Tree, Level1, Level2, Level3, Root
<1> QED BY <1>1, <1>2, <1>3

\* It ends where the ways do.
LEMMA TreeEnds ==
  ASSUME NEW g, NEW p, NEW q, NEW way, NEW depth \in {1, 3}
  PROVE  q \in Ends(Tree(g, p, way, Clamp(depth))) <=> Way(g, p, q, way, depth)
<1>1. CASE depth = 1
  BY <1>1, TreeLevels, LevelsEnd DEF Way
<1>2. CASE depth = 3
  <2>1. Ends(Tree(g, p, way, Clamp(3)))
          = Ends(Level1(g, p, way)) \cup Ends(Level2(g, p, way)) \cup Ends(Level3(g, p, way))
    BY TreeLevels DEF Ends
  <2> QED BY <1>2, <2>1, LevelsEnd DEF Way
<1> QED BY <1>1, <1>2

\* The ways back are the ways there.
LEMMA WaysTurn ==
  ASSUME NEW g, NEW p, NEW q, NEW depth
  PROVE  Way(g, q, p, "incoming", depth) <=> Way(g, p, q, "outgoing", depth)
<1>1. Way1(g, q, p, "incoming") <=> Way1(g, p, q, "outgoing")
  BY DEF Way1, Step
<1>2. Way2(g, q, p, "incoming") <=> Way2(g, p, q, "outgoing")
  BY DEF Way2, Way1, Step
<1>3. Way3(g, q, p, "incoming") <=> Way3(g, p, q, "outgoing")
  BY DEF Way3, Way1, Step
<1> QED BY <1>1, <1>2, <1>3 DEF Way

\* Graphs as update_file_links leaves them: no document links to itself.
IsGraph(g) ==
  /\ DOMAIN g = Paths
  /\ \A p \in Paths : /\ g[p] \in Seq(ToSet(g[p]))
                      /\ \A i \in DOMAIN g[p] : g[p][i].target # p

\* A tree is empty when there is nothing to begin it with.
LEMMA TreeEmpty ==
  ASSUME NEW g, IsGraph(g), NEW p, NEW way, NEW depth \in {1, 3}
  PROVE  Tree(g, p, way, Clamp(depth)) = {} <=> ~ \E y : Step(g, p, y, way)
<1>1. \A y : Step(g, p, y, way) => y # p
  BY DEF Step, Edge, IsGraph
<1>2. ASSUME NEW y, Step(g, p, y, way) PROVE Tree(g, p, way, Clamp(depth)) # {}
  <2>1. y \in Ends(Tree(g, p, way, Clamp(depth)))
    BY <1>1, <1>2, TreeEnds DEF Way, Way1
  <2> QED BY <2>1 DEF Ends
<1>3. ASSUME ~ \E y : Step(g, p, y, way) PROVE Tree(g, p, way, Clamp(depth)) = {}
  <2>1. \A m : m \notin Following(g, p, way)
    BY <1>3, FollowingSteps
  <2>2. Level1(g, p, way) = {} /\ Level2(g, p, way) = {} /\ Level3(g, p, way) = {}
    BY <2>1, FirstLevel, SecondLevel, ThirdLevel
  <2> QED BY <2>2, TreeLevels
<1> QED BY <1>2, <1>3

\* Orphans are the documents with empty trees.
LEMMA OrphansAre ==
  ASSUME NEW g, IsGraph(g), NEW p \in Paths, NEW depth \in {1, 3}
  PROVE  p \in FindOrphans(g, Paths)
           <=> /\ Tree(g, p, "outgoing", Clamp(depth)) = {}
               /\ Tree(g, p, "incoming", Clamp(depth)) = {}
<1>1. g[p] = <<>> <=> ~ \E y : Step(g, p, y, "outgoing")
  <2>1. g[p] \in Seq(ToSet(g[p])) /\ DOMAIN g[p] = 1 .. Len(g[p]) /\ Len(g[p]) \in Nat
    BY DEF IsGraph
  <2>2. g[p] = <<>> <=> DOMAIN g[p] = {}
    <3>1. DOMAIN g[p] = {} <=> Len(g[p]) = 0
      <4>1. \A n \in Nat : 1 .. n = {} <=> n = 0
        OBVIOUS
      <4> QED BY <2>1, <4>1
    <3>2. g[p] = <<>> <=> Len(g[p]) = 0
      BY <2>1, EmptySeq
    <3> QED BY <3>1, <3>2
  <2>3. (\E y : Step(g, p, y, "outgoing")) <=> DOMAIN g[p] # {}
    BY DEF Step, Edge, IsGraph
  <2> QED BY <2>2, <2>3
<1>2. Backlinks(g, p) = {} <=> ~ \E y : Step(g, p, y, "incoming")
  BY BacklinkSources DEF Step
<1>3. p \in FindOrphans(g, Paths) <=> g[p] = <<>> /\ Backlinks(g, p) = {}
  BY DEF FindOrphans
<1> QED BY <1>1, <1>2, <1>3, TreeEmpty

Leads(g, S) == UNION {{m[1] : m \in Outgoing(g, q)} : q \in S}
Targets(g) == {g[l[1]][l[2]].target : l \in Links(g)}

\* What Reached chooses a function by.
Reaching(g, p, r) ==
  r = [n \in Nat |-> IF n = 0 THEN {p} ELSE UNION {{m[1] : m \in Outgoing(g, q)} : q \in r[n - 1]}]

LEMMA ReachedReaches ==
  ASSUME NEW g, NEW p
  PROVE  Reaching(g, p, Reached(g, p))
<1> DEFINE V == SUBSET ({p} \cup Targets(g))
           F == [S \in V |-> Leads(g, S)]
<1>1. ASSUME NEW S PROVE Leads(g, S) \in V
  <2>1. ASSUME NEW q, NEW m \in Outgoing(g, q) PROVE m[1] \in Targets(g)
    <3>1. PICK i \in DOMAIN g[q] : q \in DOMAIN g /\ m = <<g[q][i].target, i>>
      BY <2>1 DEF Outgoing
    <3> DEFINE l == <<q, i>>
    <3>2. l \in Links(g) /\ g[l[1]][l[2]].target = m[1]
      BY <3>1 DEF Links
    <3> HIDE DEF l
    <3> QED BY <3>2 DEF Targets
  <2> QED BY <2>1 DEF Leads
<1>2. F \in [V -> V] /\ {p} \in V /\ \A S \in V : F[S] = Leads(g, S)
  BY <1>1
<1> HIDE DEF F, V
<1>3. PICK r \in [Nat -> V] : r = [n \in Nat |-> IF n = 0 THEN {p} ELSE F[r[n - 1]]]
  BY <1>2, StepsExist
<1>4. \A n \in Nat : n # 0 => F[r[n - 1]] = Leads(g, r[n - 1])
  BY <1>2, <1>3
<1>5. r = [n \in Nat |-> IF n = 0 THEN {p} ELSE Leads(g, r[n - 1])]
  BY <1>3, <1>4
<1>6. Reaching(g, p, r)
  BY <1>5 DEF Reaching, Leads
<1>7. Reached(g, p) = CHOOSE s : Reaching(g, p, s)
  BY DEF Reached, Reaching
<1> QED BY <1>6, <1>7

\* One link further each time.
LEMMA ReachedSteps ==
  ASSUME NEW g, NEW p, NEW n \in Nat, NEW y
  PROVE  /\ y \in Reached(g, p)[0] <=> y = p
         /\ y \in Reached(g, p)[n + 1] <=> \E x \in Reached(g, p)[n] : Edge(g, x, y)
<1> DEFINE r == Reached(g, p)
<1>1. r = [k \in Nat |-> IF k = 0 THEN {p} ELSE UNION {{m[1] : m \in Outgoing(g, q)} : q \in r[k - 1]}]
  BY ReachedReaches DEF Reaching
<1> HIDE DEF r
<1>2. r[0] = {p}
  BY <1>1
<1>3. r[n + 1] = UNION {{m[1] : m \in Outgoing(g, q)} : q \in r[n]}
  <2>1. n + 1 \in Nat /\ n + 1 # 0 /\ (n + 1) - 1 = n
    OBVIOUS
  <2> QED BY <1>1, <2>1
<1>4. ASSUME NEW x PROVE (\E m \in Outgoing(g, x) : m[1] = y) <=> Edge(g, x, y)
  <2>1. (\E m \in Following(g, x, "outgoing") : m[1] = y) <=> Step(g, x, y, "outgoing")
    BY FollowingSteps
  <2> QED BY <2>1 DEF Following, Step
<1>5. y \in r[n + 1] <=> \E x \in r[n] : \E m \in Outgoing(g, x) : m[1] = y
  BY <1>3
<1> QED BY <1>2, <1>4, <1>5 DEF r

\* The ends of the branches of n links.
EndsAt(tree, n) == Ends({b \in tree : Len(b) = n + 1})

\* What is reached with n links and not with fewer is the end of a branch of n links.
LEMMA ReachedIsEnd ==
  ASSUME NEW g, NEW p, NEW q, NEW depth \in {1, 3}, NEW n \in 1 .. depth,
         q \in Reached(g, p)[n], \A k \in 0 .. n - 1 : q \notin Reached(g, p)[k]
  PROVE  q \in EndsAt(Tree(g, p, "outgoing", Clamp(depth)), n)
<1> DEFINE r == Reached(g, p)
           t == Tree(g, p, "outgoing", Clamp(depth))
<1>1. \A y : y \in r[0] <=> y = p
  BY ReachedSteps
<1>2. \A y : y \in r[1] <=> \E x \in r[0] : Edge(g, x, y)
  <2>1. 0 \in Nat /\ 0 + 1 = 1
    OBVIOUS
  <2> QED BY <2>1, ReachedSteps
<1>3. \A y : y \in r[2] <=> \E x \in r[1] : Edge(g, x, y)
  <2>1. 1 \in Nat /\ 1 + 1 = 2
    OBVIOUS
  <2> QED BY <2>1, ReachedSteps
<1>4. \A y : y \in r[3] <=> \E x \in r[2] : Edge(g, x, y)
  <2>1. 2 \in Nat /\ 2 + 1 = 3
    OBVIOUS
  <2> QED BY <2>1, ReachedSteps
<1>5. q \in r[n] /\ \A k \in 0 .. n - 1 : q \notin r[k]
  OBVIOUS
<1> HIDE DEF r
<1>6. n \in {1, 2, 3} /\ (n # 1 => depth = 3)
  OBVIOUS
<1>7. CASE n = 1
  <2>1. q \notin r[0]
    BY <1>5, <1>7
  <2>2. Way1(g, p, q, "outgoing")
    BY <1>1, <1>2, <1>5, <1>7, <2>1 DEF Way1, Step
  <2>3. PICK b \in Level1(g, p, "outgoing") : q = Last(b)[1] /\ Len(b) = 2
    BY <2>2, LevelsEnd DEF Ends
  <2>4. b \in t
    BY TreeLevels
  <2> QED BY <1>7, <2>3, <2>4 DEF Ends, EndsAt
<1>8. CASE n = 2
  <2>1. q \notin r[0] /\ q \notin r[1]
    BY <1>5, <1>8
  <2>2. Way2(g, p, q, "outgoing")
    BY <1>1, <1>2, <1>3, <1>5, <1>8, <2>1 DEF Way1, Way2, Step
  <2>3. PICK b \in Level2(g, p, "outgoing") : q = Last(b)[1] /\ Len(b) = 3
    BY <2>2, LevelsEnd DEF Ends
  <2>4. b \in t
    BY <1>6, <1>8, <2>3, TreeLevels
  <2> QED BY <1>8, <2>3, <2>4 DEF Ends, EndsAt
<1>9. CASE n = 3
  <2>1. q \notin r[0] /\ q \notin r[1] /\ q \notin r[2]
    BY <1>5, <1>9
  <2>2. PICK y \in r[2] : Edge(g, y, q)
    BY <1>4, <1>5, <1>9
  <2>3. PICK x \in r[1] : Edge(g, x, y)
    BY <1>3
  <2>4. Edge(g, p, x)
    BY <1>1, <1>2
  <2>5. q # p /\ q # x /\ q # y /\ x # p /\ y # p /\ y # x
    BY <1>1, <1>2, <1>3, <2>1, <2>2, <2>3
  <2>6. Way3(g, p, q, "outgoing")
    BY <2>2, <2>3, <2>4, <2>5 DEF Way1, Way3, Step
  <2>7. PICK b \in Level3(g, p, "outgoing") : q = Last(b)[1] /\ Len(b) = 4
    BY <2>6, LevelsEnd DEF Ends
  <2>8. b \in t
    BY <1>6, <1>9, <2>7, TreeLevels
  <2> QED BY <1>9, <2>7, <2>8 DEF Ends, EndsAt
<1> QED BY <1>6, <1>7, <1>8, <1>9

\* Trees are complete, whatever the graph.
LEMMA TreesAreComplete ==
  ASSUME NEW g, IsGraph(g)
  PROVE  NeighborhoodIsComplete(g)
<1> SUFFICES
      ASSUME NEW depth \in {1, 3}, NEW p \in Paths
      PROVE  LET trees == [d \in Paths |-> Neighborhood(g, d, depth)]
                 reach == [d \in Paths |-> Reached(g, d)]
             IN  /\ \A n \in 1 .. depth : reach[p][n] \ UNION {reach[p][k] : k \in 0 .. n - 1}
                                            \subseteq EndsAt(trees[p].outgoing, n)
                 /\ \A q \in Paths : p \in Ends(trees[q].incoming) <=> q \in Ends(trees[p].outgoing)
                 /\ p \in FindOrphans(g, Paths) <=> trees[p].outgoing = {} /\ trees[p].incoming = {}
  BY DEF NeighborhoodIsComplete, Ends, EndsAt
<1> DEFINE trees == [d \in Paths |-> Neighborhood(g, d, depth)]
           reach == [d \in Paths |-> Reached(g, d)]
<1>1. \A d \in Paths : /\ trees[d].outgoing = Tree(g, d, "outgoing", Clamp(depth))
                       /\ trees[d].incoming = Tree(g, d, "incoming", Clamp(depth))
  BY DEF Neighborhood
<1>2. reach[p] = Reached(g, p)
  OBVIOUS
<1> HIDE DEF trees, reach
<1>3. ASSUME NEW n \in 1 .. depth, NEW q \in reach[p][n] \ UNION {reach[p][k] : k \in 0 .. n - 1}
      PROVE  q \in EndsAt(trees[p].outgoing, n)
  <2>1. q \in Reached(g, p)[n] /\ \A k \in 0 .. n - 1 : q \notin Reached(g, p)[k]
    BY <1>2, <1>3
  <2>2. q \in EndsAt(Tree(g, p, "outgoing", Clamp(depth)), n)
    BY <2>1, ReachedIsEnd
  <2> QED BY <1>1, <2>2
<1>4. ASSUME NEW q \in Paths PROVE p \in Ends(trees[q].incoming) <=> q \in Ends(trees[p].outgoing)
  BY <1>1, TreeEnds, WaysTurn
<1>5. p \in FindOrphans(g, Paths) <=> trees[p].outgoing = {} /\ trees[p].incoming = {}
  BY <1>1, OrphansAre
<1> QED BY <1>3, <1>4, <1>5 DEF trees, reach

-----------------------------------------------------------------------------
(* Distances *)

\* A walk in a finite graph: from each vertex to those near it.  The layers W begin with
\* the seeds, and each adds what is near the one before.
Walk(U, near, seeds, max, W) ==
  /\ IsFiniteSet(U) /\ seeds \subseteq U /\ max \in Nat
  /\ near \in [U -> SUBSET U]
  /\ W \in [Nat -> SUBSET U] /\ W[0] = seeds
  /\ \A n \in Nat : W[n + 1] = W[n] \cup UNION {near[v] : v \in W[n]}

Layer(W, v, d) == v \in W[d] /\ \A k \in 0 .. d - 1 : v \notin W[k]

\* The layers grow.
LEMMA LayersGrow ==
  ASSUME NEW U, NEW near, NEW seeds, NEW max, NEW W, Walk(U, near, seeds, max, W), NEW n \in Nat
  PROVE  \A k \in 0 .. n : W[k] \subseteq W[n]
<1> DEFINE T == {m \in Nat : \A k \in 0 .. m : W[k] \subseteq W[m]}
<1>1. 0 \in T
  OBVIOUS
<1>2. ASSUME NEW m \in Nat, m \in T PROVE m + 1 \in T
  <2>1. W[m] \subseteq W[m + 1]
    BY DEF Walk
  <2>2. ASSUME NEW k \in 0 .. m + 1 PROVE W[k] \subseteq W[m + 1]
    <3>1. k = m + 1 \/ k \in 0 .. m
      OBVIOUS
    <3> QED BY <1>2, <2>1, <3>1
  <2> QED BY <2>2
<1> HIDE DEF T
<1>3. n \in T
  BY <1>1, <1>2, NatSetInduction
<1> QED BY <1>3 DEF T

\* A vertex is in one layer.
LEMMA OneLayer ==
  ASSUME NEW W, NEW v, NEW a \in Nat, NEW b \in Nat, Layer(W, v, a), Layer(W, v, b)
  PROVE  a = b
<1>1. ~(a < b) /\ ~(b < a)
  BY DEF Layer
<1> QED BY <1>1

\* What is within so many steps is in a layer of at most that number.
LEMMA SomeLayer ==
  ASSUME NEW W, NEW v, NEW k \in Nat, v \in W[k]
  PROVE  \E d \in 0 .. k : Layer(W, v, d)
<1> DEFINE T == {m \in Nat : v \in W[m]}
<1>1. PICK d \in T : \A m \in T : ~(m < d)
  BY Least
<1>2. d \in 0 .. k
  BY <1>1
<1>3. \A m \in 0 .. d - 1 : v \notin W[m]
  BY <1>1
<1> QED BY <1>1, <1>2, <1>3 DEF Layer

Walking(U) == [visited : SUBSET U, result : SUBSET (U \X Nat), queue : Seq(U \X Nat)]

\* What a turn puts into the queue, in some order.
New(near, max, s) == IF Head(s.queue)[2] >= max THEN {} ELSE near[Head(s.queue)[1]] \ s.visited
Queued(S, d) == [i \in DOMAIN SetToSeq(S) |-> <<SetToSeq(S)[i], d>>]

AllQueued(S, d, o) ==
  /\ o \in Seq(S \X {d}) /\ Len(o) = Cardinality(S)
  /\ \A v \in S : \E i \in 1 .. Len(o) : o[i] = <<v, d>>
  /\ \A i \in 1 .. Len(o) : o[i][1] \in S /\ o[i][2] = d

LEMMA QueuedElements ==
  ASSUME NEW S, IsFiniteSet(S), NEW d
  PROVE  AllQueued(S, d, Queued(S, d))
<1> DEFINE c == Cardinality(S)
           o == SetToSeq(S)
<1>1. c \in Nat /\ ExistsBijection(1 .. c, S)
  BY FS_CardinalityType
<1>2. PICK f : f \in Bijection(1 .. c, S)
  BY <1>1 DEF ExistsBijection
<1>3. f \in [1 .. c -> S] /\ IsInjective(f)
  BY <1>2 DEF Bijection, Injection
<1>4. o \in [1 .. c -> S] /\ IsInjective(o)
  <2>1. \E h \in [1 .. c -> S] : IsInjective(h)
    BY <1>3
  <2> QED BY <2>1 DEF SetToSeq
<1> HIDE DEF o
<1>5. o \in Injection(1 .. c, S)
  BY <1>4 DEF Injection
<1>6. Cardinality(1 .. c) = c
  <2>1. c \in Int /\ 1 \in Int /\ (c >= 1 \/ c = 0)
    BY <1>1
  <2>2. Cardinality(1 .. c) = IF 1 > c THEN 0 ELSE c - 1 + 1
    BY <2>1, FS_Interval
  <2> HIDE DEF c
  <2> QED BY <2>1, <2>2
<1>7. o \in Surjection(1 .. c, S)
  BY <1>5, <1>6, FS_Injection
<1>8. \A v \in S : \E i \in 1 .. c : o[i] = v
  BY <1>7 DEF Surjection
<1> HIDE DEF c
<1>9. DOMAIN o = 1 .. c /\ Queued(S, d) = [i \in 1 .. c |-> <<o[i], d>>]
  BY <1>4 DEF Queued, o
<1>10. Queued(S, d) \in Seq(S \X {d}) /\ Len(Queued(S, d)) = c
  BY <1>1, <1>4, <1>9
<1>11. \A i \in 1 .. c : Queued(S, d)[i] = <<o[i], d>> /\ o[i] \in S
  BY <1>4, <1>9
<1> DEFINE w == Queued(S, d)
<1>12. Len(w) = c /\ w \in Seq(S \X {d}) /\ \A i \in 1 .. c : w[i] = <<o[i], d>> /\ o[i] \in S
  BY <1>10, <1>11
<1> HIDE DEF w
<1>13. AllQueued(S, d, w)
  BY <1>8, <1>12 DEF AllQueued, c
<1> QED BY <1>13 DEF w

\* A turn of the loop, in these words.
LEMMA TurnIs ==
  ASSUME NEW near, NEW max, NEW s, s.queue # <<>>
  PROVE  BfsTurn(near, max, s) =
           [visited |-> s.visited \cup New(near, max, s),
            result |-> s.result \cup (New(near, max, s) \X {Head(s.queue)[2] + 1}),
            queue |-> Tail(s.queue) \o Queued(New(near, max, s), Head(s.queue)[2] + 1)]
BY DEF BfsTurn, New, Queued

\* The loop has types.
LEMMA TurnTyped ==
  ASSUME NEW U, NEW near, NEW seeds, NEW max, NEW W, Walk(U, near, seeds, max, W), NEW s \in Walking(U)
  PROVE  /\ BfsTurn(near, max, s) \in Walking(U)
         /\ s.queue # <<>> => New(near, max, s) \subseteq U /\ IsFiniteSet(New(near, max, s))
<1>1. CASE s.queue = <<>>
  BY <1>1 DEF BfsTurn
<1>2. CASE s.queue # <<>>
  <2> DEFINE h == Head(s.queue)
             new == New(near, max, s)
             o == Queued(new, h[2] + 1)
  <2>1. s.queue \in Seq(U \X Nat) /\ s.visited \subseteq U /\ s.result \subseteq U \X Nat
    BY DEF Walking
  <2>2. h \in U \X Nat /\ Tail(s.queue) \in Seq(U \X Nat)
    BY <1>2, <2>1
  <2>3. h[1] \in U /\ h[2] \in Nat /\ h[2] + 1 \in Nat
    BY <2>2
  <2>4. new \subseteq U
    BY <2>3 DEF New, Walk
  <2>5. IsFiniteSet(new)
    BY <2>4, FS_Subset DEF Walk
  <2> HIDE DEF new, h
  <2>6. o \in Seq(new \X {h[2] + 1})
    BY <2>5, QueuedElements DEF AllQueued
  <2>7. o \in Seq(U \X Nat)
    <3>1. new \X {h[2] + 1} \subseteq U \X Nat
      BY <2>3, <2>4
    <3> HIDE DEF o
    <3> QED BY <2>6, <3>1
  <2> HIDE DEF o
  <2>8. Tail(s.queue) \o o \in Seq(U \X Nat)
    BY <2>2, <2>7
  <2>9. s.visited \cup new \subseteq U /\ s.result \cup (new \X {h[2] + 1}) \subseteq U \X Nat
    BY <2>1, <2>3, <2>4
  <2>10. BfsTurn(near, max, s) = [visited |-> s.visited \cup new,
                                  result |-> s.result \cup (new \X {h[2] + 1}), queue |-> Tail(s.queue) \o o]
    BY <1>2, TurnIs DEF new, h, o
  <2>11. BfsTurn(near, max, s) \in Walking(U)
    BY <2>8, <2>9, <2>10 DEF Walking
  <2> QED BY <2>4, <2>5, <2>11 DEF new
<1> QED BY <1>1, <1>2

\* What was visited is in one of the layers; what waits is so at its distance, in the order
\* of the distances, which differ by one at most; what waits no longer has been left for
\* all that is near, unless it is as far as one may go; the result has what was visited.
Seen(max, W, s) == \A v \in s.visited : \E d \in 0 .. max : Layer(W, v, d)
Waiting(max, W, s) ==
  \A i \in 1 .. Len(s.queue) : /\ s.queue[i][1] \in s.visited /\ s.queue[i][2] \in 0 .. max
                               /\ Layer(W, s.queue[i][1], s.queue[i][2])
Sorted(s) ==
  \A i, j \in 1 .. Len(s.queue) :
    i <= j => s.queue[i][2] <= s.queue[j][2] /\ s.queue[j][2] <= s.queue[i][2] + 1
Waits(s, v) == \E i \in 1 .. Len(s.queue) : s.queue[i][1] = v
Left(near, max, W, s) ==
  \A v \in s.visited : Waits(s, v) \/ \A d \in 0 .. max : d < max /\ Layer(W, v, d) => near[v] \subseteq s.visited
Results(max, W, s) ==
  \A r : r \in s.result <=> \E v \in s.visited : \E d \in 1 .. max : Layer(W, v, d) /\ r = <<v, d>>
Counted(n, s) == s.queue = <<>> \/ n + Len(s.queue) = Cardinality(s.visited)
WalkInv(U, near, seeds, max, W, n, s) ==
  /\ s \in Walking(U) /\ seeds \subseteq s.visited
  /\ Seen(max, W, s) /\ Waiting(max, W, s) /\ Sorted(s)
  /\ Left(near, max, W, s) /\ Results(max, W, s) /\ Counted(n, s)

\* While nothing nearer waits, all that is near enough was visited.
LEMMA Covered ==
  ASSUME NEW U, NEW near, NEW seeds, NEW max, NEW W, Walk(U, near, seeds, max, W),
         NEW n \in Nat, NEW s, WalkInv(U, near, seeds, max, W, n, s),
         NEW b \in 0 .. max, \A i \in 1 .. Len(s.queue) : s.queue[i][2] >= b
  PROVE  W[b] \subseteq s.visited
<1> DEFINE T == {k \in Nat : k <= b => W[k] \subseteq s.visited}
<1>0. max \in Nat /\ b \in Nat /\ b <= max
  BY DEF Walk
<1>1. 0 \in T
  BY DEF Walk, WalkInv
<1>2. ASSUME NEW k \in Nat, k \in T PROVE k + 1 \in T
  <2> SUFFICES ASSUME k + 1 <= b, NEW y \in W[k + 1] PROVE y \in s.visited
    OBVIOUS
  <2>1. W[k] \subseteq s.visited /\ k < b
    BY <1>0, <1>2
  <2>2. CASE y \in W[k]
    BY <2>1, <2>2
  <2>3. CASE y \notin W[k]
    <3>1. PICK x \in W[k] : y \in near[x]
      BY <2>3 DEF Walk
    <3>2. PICK d \in 0 .. k : Layer(W, x, d)
      BY <3>1, SomeLayer
    <3>3. d \in Nat /\ d < b /\ d \in 0 .. max /\ d < max
      BY <1>0, <2>1
    <3>4. ~Waits(s, x)
      <4> SUFFICES ASSUME NEW i \in 1 .. Len(s.queue), s.queue[i][1] = x PROVE FALSE
        BY DEF Waits
      <4>1. Layer(W, x, s.queue[i][2]) /\ s.queue[i][2] \in 0 .. max
        BY DEF WalkInv, Waiting
      <4>2. s.queue[i][2] \in Nat /\ s.queue[i][2] >= b
        BY <4>1
      <4>3. s.queue[i][2] = d
        BY <3>2, <3>3, <4>1, <4>2, OneLayer
      <4> QED BY <1>0, <3>3, <4>2, <4>3
    <3>5. x \in s.visited
      BY <2>1
    <3> QED BY <3>1, <3>2, <3>3, <3>4, <3>5 DEF WalkInv, Left
  <2> QED BY <2>2, <2>3
<1> HIDE DEF T
<1>3. b \in T
  BY <1>0, <1>1, <1>2, NatSetInduction
<1> QED BY <1>0, <1>3 DEF T

\* What a turn finds is one step further than what it leaves.
LEMMA NewIsNext ==
  ASSUME NEW U, NEW near, NEW seeds, NEW max, NEW W, Walk(U, near, seeds, max, W),
         NEW n \in Nat, NEW s, WalkInv(U, near, seeds, max, W, n, s), s.queue # <<>>,
         NEW y \in New(near, max, s)
  PROVE  /\ Head(s.queue)[2] \in Nat /\ Head(s.queue)[2] < max
         /\ Layer(W, y, Head(s.queue)[2] + 1)
<1> DEFINE q == s.queue
           v == Head(q)[1]
           d == Head(q)[2]
<1>1. q \in Seq(U \X Nat) /\ Len(q) \in Nat /\ 1 \in 1 .. Len(q) /\ Head(q) = q[1]
  <2>1. q \in Seq(U \X Nat)
    BY DEF WalkInv, Walking
  <2> QED BY <2>1
<1>2. d \in 0 .. max /\ Layer(W, v, d)
  BY <1>1 DEF WalkInv, Waiting
<1>3. max \in Nat /\ d \in Nat
  BY <1>2 DEF Walk
<1>4. d < max /\ y \in near[v] /\ y \notin s.visited
  BY <1>3 DEF New
<1>5. \A i \in 1 .. Len(q) : q[i][2] >= d
  <2>1. ASSUME NEW i \in 1 .. Len(q) PROVE q[1][2] <= q[i][2]
    <3>1. 1 <= i /\ Sorted(s)
      BY DEF WalkInv
    <3> QED BY <1>1, <3>1 DEF Sorted
  <2>2. \A i \in 1 .. Len(q) : q[i][2] \in Nat
    BY <1>1
  <2> QED BY <1>1, <1>3, <2>1, <2>2
<1>6. W[d] \subseteq s.visited
  BY <1>2, <1>5, Covered
<1>7. v \in W[d]
  BY <1>2 DEF Layer
<1>8. y \in W[d + 1]
  BY <1>3, <1>4, <1>7 DEF Walk
<1>9. ASSUME NEW k \in 0 .. (d + 1) - 1 PROVE y \notin W[k]
  <2>1. k \in 0 .. d
    BY <1>3
  <2>2. W[k] \subseteq W[d]
    BY <1>3, <2>1, LayersGrow
  <2> QED BY <1>4, <1>6, <2>2
<1> QED BY <1>3, <1>4, <1>8, <1>9 DEF Layer

\* The queue after a turn: what waited behind its head, then what is new.
QueueMoves(q, S, d, q2) ==
  /\ Len(q) \in Nat \ {0} /\ Len(q2) = Len(q) - 1 + Cardinality(S)
  /\ \A i \in 1 .. Len(q2) : \/ i + 1 \in 1 .. Len(q) /\ q2[i] = q[i + 1]
                             \/ i >= Len(q) /\ q2[i][1] \in S /\ q2[i][2] = d
  /\ \A i \in 2 .. Len(q) : \E j \in 1 .. Len(q2) : q2[j] = q[i]
  /\ \A y \in S : \E j \in 1 .. Len(q2) : q2[j][1] = y

LEMMA TurnQueue ==
  ASSUME NEW U, NEW q \in Seq(U \X Nat), q # <<>>, NEW S, IsFiniteSet(S), S \subseteq U, NEW d \in Nat,
         NEW q2, q2 = Tail(q) \o Queued(S, d)
  PROVE  QueueMoves(q, S, d, q2)
<1> DEFINE t == Tail(q)
           o == Queued(S, d)
<1>1. t \in Seq(U \X Nat) /\ Len(q) \in Nat \ {0} /\ Len(t) = Len(q) - 1 /\ \A i \in 1 .. Len(t) : t[i] = q[i + 1]
  OBVIOUS
<1>2. /\ o \in Seq(S \X {d}) /\ Len(o) = Cardinality(S)
      /\ \A v \in S : \E i \in 1 .. Len(o) : o[i] = <<v, d>>
      /\ \A i \in 1 .. Len(o) : o[i][1] \in S /\ o[i][2] = d
  BY QueuedElements DEF AllQueued
<1>3. o \in Seq(U \X Nat)
  <2>1. S \X {d} \subseteq U \X Nat
    OBVIOUS
  <2> HIDE DEF o
  <2> QED BY <1>2, <2>1
<1> HIDE DEF t, o
<1>4. /\ Len(q2) = Len(t) + Len(o) /\ Len(t) \in Nat /\ Len(o) \in Nat
      /\ \A i \in 1 .. Len(q2) : q2[i] = IF i <= Len(t) THEN t[i] ELSE o[i - Len(t)]
  <2>1. q2 = t \o o
    BY DEF t, o
  <2>2. Len(t \o o) = Len(t) + Len(o) /\ Len(t) \in Nat /\ Len(o) \in Nat
    BY <1>1, <1>3, ConcatProperties, LenProperties
  <2>3. \A i \in 1 .. Len(t) + Len(o) : (t \o o)[i] = IF i <= Len(t) THEN t[i] ELSE o[i - Len(t)]
    BY <1>1, <1>3, ConcatProperties
  <2> QED BY <2>1, <2>2, <2>3
<1>5. ASSUME NEW i \in 1 .. Len(q2)
      PROVE  \/ i + 1 \in 1 .. Len(q) /\ q2[i] = q[i + 1]
             \/ i >= Len(q) /\ q2[i][1] \in S /\ q2[i][2] = d
  <2>1. CASE i <= Len(t)
    <3>1. i \in 1 .. Len(t) /\ i + 1 \in 1 .. Len(q)
      BY <1>1, <1>4, <2>1
    <3> QED BY <1>1, <1>4, <2>1, <3>1
  <2>2. CASE i > Len(t)
    <3>1. i - Len(t) \in 1 .. Len(o) /\ i >= Len(q) /\ ~(i <= Len(t))
      BY <1>1, <1>4, <2>2
    <3>2. q2[i] = o[i - Len(t)]
      BY <1>4, <3>1
    <3> QED BY <1>2, <3>1, <3>2
  <2> QED BY <1>1, <1>4, <2>1, <2>2
<1>6. ASSUME NEW i \in 2 .. Len(q) PROVE \E j \in 1 .. Len(q2) : q2[j] = q[i]
  <2>1. i - 1 \in 1 .. Len(t) /\ i - 1 \in 1 .. Len(q2) /\ i - 1 <= Len(t) /\ (i - 1) + 1 = i
    BY <1>1, <1>4
  <2>2. q2[i - 1] = t[i - 1]
    BY <1>4, <2>1
  <2>3. t[i - 1] = q[i]
    BY <1>1, <2>1
  <2> QED BY <2>1, <2>2, <2>3
<1>7. ASSUME NEW y \in S PROVE \E j \in 1 .. Len(q2) : q2[j][1] = y
  <2>1. PICK i \in 1 .. Len(o) : o[i] = <<y, d>>
    BY <1>2
  <2>2. i + Len(t) \in 1 .. Len(q2) /\ ~(i + Len(t) <= Len(t)) /\ (i + Len(t)) - Len(t) = i
    BY <1>4
  <2>3. q2[i + Len(t)] = o[i]
    BY <1>4, <2>2
  <2>4. o[i][1] = y
    BY <2>1
  <2> QED BY <2>2, <2>3, <2>4
<1>8. Len(q2) = Len(q) - 1 + Cardinality(S)
  BY <1>1, <1>2, <1>4
<1> QED BY <1>1, <1>5, <1>6, <1>7, <1>8 DEF QueueMoves

\* Each turn keeps all that.
LEMMA TurnInv ==
  ASSUME NEW U, NEW near, NEW seeds, NEW max, NEW W, Walk(U, near, seeds, max, W),
         NEW n \in Nat, NEW s, WalkInv(U, near, seeds, max, W, n, s)
  PROVE  WalkInv(U, near, seeds, max, W, n + 1, BfsTurn(near, max, s))
<1>1. CASE s.queue = <<>>
  <2>1. BfsTurn(near, max, s) = s
    BY <1>1 DEF BfsTurn
  <2>2. Counted(n + 1, s)
    BY <1>1 DEF Counted
  <2> QED BY <2>1, <2>2 DEF WalkInv
<1>2. CASE s.queue # <<>>
  <2> DEFINE q == s.queue
             h == Head(q)
             d == h[2]
             new == New(near, max, s)
             z == BfsTurn(near, max, s)
             q2 == z.queue
  <2>1. s \in Walking(U) /\ q \in Seq(U \X Nat) /\ h = q[1] /\ 1 \in 1 .. Len(q) /\ h \in U \X Nat
    <3>1. s \in Walking(U) /\ q \in Seq(U \X Nat)
      BY DEF WalkInv, Walking
    <3> QED BY <1>2, <3>1
  <2>2. h[1] \in s.visited /\ d \in 0 .. max /\ d \in Nat /\ max \in Nat /\ Layer(W, h[1], d)
    <3>1. h[1] \in s.visited /\ d \in 0 .. max /\ Layer(W, h[1], d)
      BY <2>1 DEF WalkInv, Waiting
    <3> QED BY <3>1 DEF Walk
  <2>3. z \in Walking(U) /\ new \subseteq U /\ IsFiniteSet(new)
    BY <1>2, <2>1, TurnTyped
  <2>4. \A y \in new : d < max /\ Layer(W, y, d + 1) /\ y \notin s.visited
    <3>1. \A y \in new : d < max /\ Layer(W, y, d + 1)
      BY <1>2, NewIsNext
    <3>2. \A y \in new : y \notin s.visited
      BY DEF New
    <3> QED BY <3>1, <3>2
  <2>5. d < max => near[h[1]] \subseteq s.visited \cup new
    BY <2>2 DEF New
  <2>6. z.visited = s.visited \cup new /\ z.result = s.result \cup (new \X {d + 1}) /\ q2 = Tail(q) \o Queued(new, d + 1)
    <3>1. z = [visited |-> s.visited \cup new, result |-> s.result \cup (new \X {d + 1}),
               queue |-> Tail(q) \o Queued(new, d + 1)]
      BY <1>2, TurnIs
    <3> HIDE DEF z, new, d, q
    <3> QED BY <3>1 DEF q2
  <2>7. QueueMoves(q, new, d + 1, q2)
    <3>1. d + 1 \in Nat
      BY <2>2
    <3>2. q \in Seq(U \X Nat) /\ q # <<>>
      BY <1>2, <2>1
    <3> DEFINE e == d + 1
    <3>3. q2 = Tail(q) \o Queued(new, e) /\ e \in Nat
      BY <2>6, <3>1
    <3> HIDE DEF new, q2, z, e, q
    <3>4. QueueMoves(q, new, e, q2)
      BY <2>3, <3>2, <3>3, TurnQueue
    <3> QED BY <3>4 DEF e
  <2>17. Len(q) \in Nat \ {0} /\ Len(q2) = Len(q) - 1 + Cardinality(new)
    BY <2>7 DEF QueueMoves
  <2>18. \A i \in 1 .. Len(q2) :
           \/ i + 1 \in 1 .. Len(q) /\ q2[i] = q[i + 1]
           \/ i >= Len(q) /\ q2[i][1] \in new /\ q2[i][2] = d + 1
    BY <2>7 DEF QueueMoves
  <2>19. \A i \in 2 .. Len(q) : \E j \in 1 .. Len(q2) : q2[j] = q[i]
    BY <2>7 DEF QueueMoves
  <2>20. \A y \in new : \E j \in 1 .. Len(q2) : q2[j][1] = y
    BY <2>7 DEF QueueMoves
  <2>8. \A y \in new : d + 1 \in 1 .. max /\ d + 1 \in 0 .. max
    <3> HIDE DEF new, d
    <3> QED BY <2>2, <2>4
  <2> HIDE DEF new, z, q2, d, h
  <2>9. seeds \subseteq z.visited
    BY <2>6 DEF WalkInv
  <2>10. Seen(max, W, z)
    <3> SUFFICES ASSUME NEW v \in z.visited PROVE \E k \in 0 .. max : Layer(W, v, k)
      BY DEF Seen
    <3>1. CASE v \in s.visited
      BY <3>1 DEF WalkInv, Seen
    <3>2. CASE v \in new
      BY <2>4, <2>8, <3>2
    <3> QED BY <2>6, <3>1, <3>2
  <2>11. Waiting(max, W, z)
    <3> SUFFICES ASSUME NEW i \in 1 .. Len(q2)
                 PROVE  q2[i][1] \in z.visited /\ q2[i][2] \in 0 .. max /\ Layer(W, q2[i][1], q2[i][2])
      BY DEF Waiting, q2
    <3>1. CASE i + 1 \in 1 .. Len(q) /\ q2[i] = q[i + 1]
      BY <2>6, <3>1 DEF WalkInv, Waiting
    <3>2. CASE q2[i][1] \in new /\ q2[i][2] = d + 1
      BY <2>4, <2>6, <2>8, <3>2
    <3> QED BY <2>18, <3>1, <3>2
  <2>12. Sorted(z)
    <3> SUFFICES ASSUME NEW i \in 1 .. Len(q2), NEW j \in 1 .. Len(q2), i <= j
                 PROVE  q2[i][2] <= q2[j][2] /\ q2[j][2] <= q2[i][2] + 1
      BY DEF Sorted, q2
    <3>1. CASE j + 1 \in 1 .. Len(q) /\ q2[j] = q[j + 1]
      <4>1. j < Len(q) /\ i < Len(q) /\ i + 1 \in 1 .. Len(q) /\ i + 1 <= j + 1
        BY <2>17, <3>1
      <4>2. q2[i] = q[i + 1]
        BY <2>17, <2>18, <4>1
      <4> QED BY <3>1, <4>1, <4>2 DEF WalkInv, Sorted
    <3>2. CASE q2[j][1] \in new /\ q2[j][2] = d + 1
      <4>1. CASE i + 1 \in 1 .. Len(q) /\ q2[i] = q[i + 1]
        <5>1. q[1][2] <= q[i + 1][2] /\ q[i + 1][2] <= q[1][2] + 1
          <6>1. 1 <= i + 1
            OBVIOUS
          <6> QED BY <2>1, <4>1, <6>1 DEF WalkInv, Sorted
        <5>2. q[1][2] = d
          BY <2>1 DEF d
        <5>3. q[i + 1][2] \in Nat
          BY <2>1, <4>1
        <5> QED BY <2>2, <3>2, <4>1, <5>1, <5>2, <5>3
      <4>2. CASE q2[i][2] = d + 1
        BY <2>2, <3>2, <4>2
      <4> QED BY <2>18, <4>1, <4>2
    <3> QED BY <2>18, <3>1, <3>2
  <2>13. Left(near, max, W, z)
    <3> SUFFICES ASSUME NEW v \in z.visited, ~Waits(z, v), NEW k \in 0 .. max, k < max, Layer(W, v, k)
                 PROVE  near[v] \subseteq z.visited
      BY DEF Left
    <3>1. v \in s.visited
      BY <2>6, <2>20 DEF Waits, q2
    <3>2. CASE Waits(s, v)
      <4>1. PICK i \in 1 .. Len(q) : q[i][1] = v
        BY <3>2 DEF Waits
      <4>2. i = 1
        <5>1. i \notin 2 .. Len(q)
          BY <2>19, <4>1 DEF Waits, q2
        <5> QED BY <2>17, <4>1, <5>1
      <4>3. v = h[1]
        BY <2>1, <4>1, <4>2
      <4>4. k = d
        <5>1. k \in Nat
          BY <2>2
        <5> QED BY <2>2, <4>3, <5>1, OneLayer
      <4> QED BY <2>5, <2>6, <4>3, <4>4
    <3>3. CASE ~Waits(s, v)
      BY <2>6, <3>1, <3>3 DEF WalkInv, Left
    <3> QED BY <3>2, <3>3
  <2>14. Results(max, W, z)
    <3>1. ASSUME NEW r \in z.result PROVE \E v \in z.visited : \E k \in 1 .. max : Layer(W, v, k) /\ r = <<v, k>>
      <4>1. CASE r \in s.result
        BY <2>6, <4>1 DEF WalkInv, Results
      <4>2. CASE r \in new \X {d + 1}
        <5>1. PICK y \in new : r = <<y, d + 1>>
          BY <4>2
        <5> QED BY <2>4, <2>6, <2>8, <5>1
      <4> QED BY <2>6, <3>1, <4>1, <4>2
    <3>2. ASSUME NEW v \in z.visited, NEW k \in 1 .. max, Layer(W, v, k) PROVE <<v, k>> \in z.result
      <4>1. CASE v \in s.visited
        BY <2>6, <3>2, <4>1 DEF WalkInv, Results
      <4>2. CASE v \in new
        <5>1. Layer(W, v, d + 1) /\ d + 1 \in Nat /\ k \in Nat
          BY <2>2, <2>4, <4>2
        <5>2. k = d + 1
          BY <3>2, <5>1, OneLayer
        <5> QED BY <2>6, <4>2, <5>2
      <4> QED BY <2>6, <4>1, <4>2
    <3> QED BY <3>1, <3>2 DEF Results
  <2>15. Counted(n + 1, z)
    <3>1. Cardinality(z.visited) = Cardinality(s.visited) + Cardinality(new)
      <4>1. IsFiniteSet(s.visited)
        BY <2>1, FS_Subset DEF Walk, Walking
      <4>2. s.visited \cap new = {}
        BY <2>4
      <4>3. Cardinality(s.visited) \in Nat /\ Cardinality(new) \in Nat
        BY <2>3, <4>1, FS_CardinalityType
      <4>4. Cardinality(s.visited \cup new) = Cardinality(s.visited) + Cardinality(new) - Cardinality(s.visited \cap new)
        BY <2>3, <4>1, FS_Union
      <4>5. Cardinality(s.visited \cap new) = 0
        BY <4>2, FS_EmptySet
      <4> QED BY <2>6, <4>3, <4>4, <4>5
    <3>2. Cardinality(new) \in Nat
      BY <2>3, FS_CardinalityType
    <3>3. n + Len(q) = Cardinality(s.visited)
      BY <1>2 DEF WalkInv, Counted
    <3>4. (n + 1) + Len(q2) = Cardinality(z.visited)
      <4>1. Len(q) \in Int /\ Len(q2) \in Int /\ Cardinality(new) \in Int /\ n \in Int
        BY <2>17, <3>2
      <4>2. (n + 1) + (Len(q) - 1 + Cardinality(new)) = (n + Len(q)) + Cardinality(new)
        BY <4>1
      <4> QED BY <2>17, <3>1, <3>3, <4>2
    <3> QED BY <3>4 DEF Counted, q2
  <2>16. WalkInv(U, near, seeds, max, W, n + 1, z)
    BY <2>3, <2>9, <2>10, <2>11, <2>12, <2>13, <2>14, <2>15 DEF WalkInv
  <2> QED BY <2>16 DEF z
<1> QED BY <1>1, <1>2

\* It holds at the start.
LEMMA StartInv ==
  ASSUME NEW U, NEW near, NEW seeds, NEW max, NEW W, Walk(U, near, seeds, max, W)
  PROVE  WalkInv(U, near, seeds, max, W, 0, BfsStart(seeds))
<1> DEFINE s == BfsStart(seeds)
           q == Queued(seeds, 0)
<1>0. IsFiniteSet(seeds) /\ seeds \subseteq U /\ max \in Nat /\ W[0] = seeds
  BY FS_Subset DEF Walk
<1>1. s = [visited |-> seeds, result |-> {}, queue |-> q]
  BY DEF BfsStart, Queued
<1>2. /\ q \in Seq(seeds \X {0}) /\ Len(q) = Cardinality(seeds)
      /\ \A v \in seeds : \E i \in 1 .. Len(q) : q[i] = <<v, 0>>
      /\ \A i \in 1 .. Len(q) : q[i][1] \in seeds /\ q[i][2] = 0
  <2>1. AllQueued(seeds, 0, q)
    BY <1>0, QueuedElements
  <2> HIDE DEF q
  <2> QED BY <2>1 DEF AllQueued
<1>3. q \in Seq(U \X Nat)
  <2>1. seeds \X {0} \subseteq U \X Nat
    BY <1>0
  <2> HIDE DEF q
  <2> QED BY <1>2, <2>1
<1>4. s.visited = seeds /\ s.result = {} /\ s.queue = q
  <2> HIDE DEF s, q
  <2> QED BY <1>1
<1>5. s \in Walking(U)
  <2> HIDE DEF q
  <2> QED BY <1>0, <1>1, <1>3 DEF Walking
<1> HIDE DEF s, q
<1>6. \A v \in seeds : Layer(W, v, 0)
  BY <1>0 DEF Layer
<1>7. 0 \in 0 .. max
  BY <1>0
<1>8. Seen(max, W, s)
  BY <1>4, <1>6, <1>7 DEF Seen
<1>9. Waiting(max, W, s)
  BY <1>2, <1>4, <1>6, <1>7 DEF Waiting
<1>10. Sorted(s)
  BY <1>2, <1>4 DEF Sorted
<1>11. Left(near, max, W, s)
  <2>1. \A v \in seeds : Waits(s, v)
    <3> SUFFICES ASSUME NEW v \in seeds PROVE Waits(s, v)
      OBVIOUS
    <3>1. PICK i \in 1 .. Len(q) : q[i] = <<v, 0>>
      BY <1>2
    <3> QED BY <1>4, <3>1 DEF Waits
  <2> QED BY <1>4, <2>1 DEF Left
<1>12. Results(max, W, s)
  <2>1. ASSUME NEW v \in seeds, NEW d \in 1 .. max, Layer(W, v, d) PROVE FALSE
    <3>1. 0 \in 0 .. d - 1
      BY <1>0
    <3> QED BY <1>0, <2>1, <3>1 DEF Layer
  <2> QED BY <1>4, <2>1 DEF Results
<1>13. Counted(0, s)
  <2>1. Cardinality(seeds) \in Nat
    BY <1>0, FS_CardinalityType
  <2> QED BY <1>2, <1>4, <2>1 DEF Counted
<1> QED BY <1>0, <1>4, <1>5, <1>8, <1>9, <1>10, <1>11, <1>12, <1>13 DEF WalkInv, s

\* What BfsNeighbors chooses a function by.
Turning(near, max, seeds, turn) ==
  turn = [n \in Nat |-> IF n = 0 THEN BfsStart(seeds) ELSE BfsTurn(near, max, turn[n - 1])]

LEMMA TurnsExist ==
  ASSUME NEW U, NEW near, NEW seeds, NEW max, NEW W, Walk(U, near, seeds, max, W)
  PROVE  \E turn : Turning(near, max, seeds, turn)
<1> DEFINE V == Walking(U)
           F == [s \in V |-> BfsTurn(near, max, s)]
           v == BfsStart(seeds)
<1>1. F \in [V -> V] /\ \A s \in V : F[s] = BfsTurn(near, max, s)
  <2> HIDE DEF V
  <2>1. \A s \in V : BfsTurn(near, max, s) \in V
    BY TurnTyped DEF V
  <2> QED BY <2>1
<1>2. v \in V
  BY StartInv DEF WalkInv
<1> HIDE DEF F, V, v
<1>3. PICK g \in [Nat -> V] : g = [n \in Nat |-> IF n = 0 THEN v ELSE F[g[n - 1]]]
  BY <1>1, <1>2, StepsExist
<1>4. \A n \in Nat : n # 0 => F[g[n - 1]] = BfsTurn(near, max, g[n - 1])
  BY <1>1, <1>3
<1>5. g = [n \in Nat |-> IF n = 0 THEN v ELSE BfsTurn(near, max, g[n - 1])]
  BY <1>3, <1>4
<1> QED BY <1>5 DEF Turning, v

\* After as many turns as there are vertices the result has the vertices of each layer, as
\* far as one may go, with its number.
LEMMA WalkFinds ==
  ASSUME NEW U, NEW near, NEW seeds, NEW max, NEW W, Walk(U, near, seeds, max, W),
         NEW turn, Turning(near, max, seeds, turn), NEW r
  PROVE  r \in turn[Cardinality(U)].result <=> \E d \in 1 .. max : \E v \in W[d] \ W[d - 1] : r = <<v, d>>
<1> DEFINE T == {n \in Nat : WalkInv(U, near, seeds, max, W, n, turn[n])}
           c == Cardinality(U)
           s == turn[c]
<1>0. c \in Nat /\ max \in Nat
  BY FS_CardinalityType DEF Walk
<1>1. turn[0] = BfsStart(seeds) /\ \A n \in Nat : turn[n + 1] = BfsTurn(near, max, turn[n])
  <2>1. turn[0] = BfsStart(seeds)
    BY DEF Turning
  <2>2. ASSUME NEW n \in Nat PROVE turn[n + 1] = BfsTurn(near, max, turn[n])
    <3>1. n + 1 \in Nat /\ n + 1 # 0 /\ (n + 1) - 1 = n
      OBVIOUS
    <3> QED BY <3>1 DEF Turning
  <2> QED BY <2>1, <2>2
<1>2. 0 \in T
  BY <1>1, StartInv
<1>3. ASSUME NEW n \in Nat, n \in T PROVE n + 1 \in T
  BY <1>1, <1>3, TurnInv
<1>4. c \in T
  <2> HIDE DEF T, c
  <2> QED BY <1>0, <1>2, <1>3, NatSetInduction
<1> HIDE DEF c
<1>5. WalkInv(U, near, seeds, max, W, c, s)
  BY <1>4
<1> HIDE DEF T, s
<1>6. s.queue = <<>>
  <2> SUFFICES ASSUME s.queue # <<>> PROVE FALSE
    OBVIOUS
  <2>1. s.visited \subseteq U /\ s.queue \in Seq(U \X Nat)
    BY <1>5 DEF WalkInv, Walking
  <2>2. Cardinality(s.visited) <= c /\ Cardinality(s.visited) \in Nat
    BY <2>1, FS_Subset, FS_CardinalityType DEF Walk, c
  <2>3. Len(s.queue) \in Nat \ {0}
    BY <2>1
  <2>4. c + Len(s.queue) = Cardinality(s.visited)
    BY <1>5 DEF WalkInv, Counted
  <2> QED BY <1>0, <2>2, <2>3, <2>4
<1>7. W[max] \subseteq s.visited
  <2>1. max \in 0 .. max /\ \A i \in 1 .. Len(s.queue) : s.queue[i][2] >= max
    BY <1>0, <1>6
  <2> QED BY <1>0, <1>5, <2>1, Covered
<1>8. ASSUME NEW v, NEW d \in 1 .. max
      PROVE  v \in s.visited /\ Layer(W, v, d) <=> v \in W[d] \ W[d - 1]
  <2>1. d \in Nat /\ d - 1 \in Nat /\ d \in 0 .. max /\ d - 1 \in 0 .. d - 1
    BY <1>0
  <2>2. W[d] \subseteq W[max]
    BY <1>0, <2>1, LayersGrow
  <2>3. \A k \in 0 .. d - 1 : W[k] \subseteq W[d - 1]
    BY <2>1, LayersGrow
  <2> QED BY <1>7, <2>1, <2>2, <2>3 DEF Layer
<1>9. r \in s.result <=> \E v \in s.visited : \E d \in 1 .. max : Layer(W, v, d) /\ r = <<v, d>>
  BY <1>5 DEF WalkInv, Results
<1>10. r \in s.result <=> \E d \in 1 .. max : \E v \in W[d] \ W[d - 1] : r = <<v, d>>
  BY <1>8, <1>9
<1> QED BY <1>10 DEF s, c

\* What Within chooses a function by.
Spreading(g, seeds, W) ==
  W = [n \in Nat |-> IF n = 0 THEN seeds ELSE W[n - 1] \cup Adjacent(g, W[n - 1])]

\* Neighbours are what is adjacent.
LEMMA AdjacentIs ==
  ASSUME NEW g, NEW S
  PROVE  Adjacent(g, S) = UNION {Neighbors(g, x) : x \in S}
<1>1. ASSUME NEW x, NEW y PROVE y \in Neighbors(g, x) <=> Edge(g, x, y) \/ Edge(g, y, x)
  <2>1. y \in ForwardNeighbors(g, x) <=> Edge(g, x, y)
    <3>1. CASE x \in DOMAIN g
      BY <3>1 DEF ForwardNeighbors, ToSet, Edge
    <3>2. CASE x \notin DOMAIN g
      BY <3>2 DEF ForwardNeighbors, Edge
    <3> QED BY <3>1, <3>2
  <2>2. y \in {b.source : b \in Backlinks(g, x)} <=> Edge(g, y, x)
    BY BacklinkSources
  <2> QED BY <2>1, <2>2 DEF Neighbors
<1>2. ASSUME NEW y, NEW x \in S, Edge(g, x, y) \/ Edge(g, y, x) PROVE y \in Adjacent(g, S)
  <2>1. CASE Edge(g, x, y)
    <3>1. PICK i \in DOMAIN g[x] : x \in DOMAIN g /\ g[x][i].target = y
      BY <2>1 DEF Edge
    <3> DEFINE l == <<x, i>>
    <3>2. l \in Links(g) /\ l[1] = x /\ g[l[1]][l[2]].target = y
      BY <3>1 DEF Links
    <3> HIDE DEF l
    <3> QED BY <3>2 DEF Adjacent
  <2>2. CASE Edge(g, y, x)
    <3>1. PICK i \in DOMAIN g[y] : y \in DOMAIN g /\ g[y][i].target = x
      BY <2>2 DEF Edge
    <3> DEFINE l == <<y, i>>
    <3>2. l \in Links(g) /\ l[1] = y /\ g[l[1]][l[2]].target = x
      BY <3>1 DEF Links
    <3> HIDE DEF l
    <3> QED BY <3>2 DEF Adjacent
  <2> QED BY <1>2, <2>1, <2>2
<1>3. ASSUME NEW y \in Adjacent(g, S) PROVE \E x \in S : Edge(g, x, y) \/ Edge(g, y, x)
  <2>1. PICK l \in Links(g) : \/ l[1] \in S /\ g[l[1]][l[2]].target = y
                              \/ g[l[1]][l[2]].target \in S /\ l[1] = y
    BY DEF Adjacent
  <2>2. Edge(g, l[1], g[l[1]][l[2]].target)
    <3>1. PICK z \in DOMAIN g : \E i \in DOMAIN g[z] : l = <<z, i>>
      BY DEF Links
    <3> QED BY <3>1 DEF Edge
  <2> QED BY <2>1, <2>2
<1> QED BY <1>1, <1>2, <1>3

\* Neighbours are vertices, and there are finitely many of those.
LEMMA VerticesAre ==
  ASSUME NEW g, IsGraph(g)
  PROVE  /\ IsFiniteSet(Vertices(g)) /\ Paths \subseteq Vertices(g)
         /\ \A x : Neighbors(g, x) \subseteq Vertices(g)
<1> DEFINE Places(p) == {<<p, i>> : i \in DOMAIN g[p]}
<1>1. ASSUME NEW p \in Paths PROVE IsFiniteSet(Places(p))
  <2> DEFINE f == [i \in DOMAIN g[p] |-> <<p, i>>]
  <2>1. DOMAIN g[p] = 1 .. Len(g[p]) /\ Len(g[p]) \in Nat
    BY DEF IsGraph
  <2>2. IsFiniteSet(1 .. Len(g[p]))
    BY <2>1, FS_Interval
  <2>3. f \in Surjection(DOMAIN g[p], Places(p))
    BY DEF Surjection
  <2> QED BY <2>1, <2>2, <2>3, FS_Surjection
<1> DEFINE all == {Places(p) : p \in Paths}
<1>2. IsFiniteSet(all)
  <2> DEFINE f == [p \in Paths |-> Places(p)]
  <2>1. f \in Surjection(Paths, all)
    <3> HIDE DEF Places
    <3> QED BY DEF Surjection
  <2> QED BY <2>1, LinksAssumption, FS_Surjection
<1>3. Links(g) = UNION all
  BY DEF Links, IsGraph
<1>4. IsFiniteSet(Links(g))
  <2>1. \A S \in all : IsFiniteSet(S)
    BY <1>1
  <2> HIDE DEF all
  <2> QED BY <1>2, <1>3, <2>1, FS_UNION
<1>5. IsFiniteSet(Targets(g))
  <2> DEFINE f == [l \in Links(g) |-> g[l[1]][l[2]].target]
  <2>1. f \in Surjection(Links(g), Targets(g))
    BY DEF Surjection, Targets
  <2> QED BY <1>4, <2>1, FS_Surjection
<1>6. Vertices(g) = Paths \cup Targets(g)
  BY DEF Vertices, Targets, IsGraph
<1>7. IsFiniteSet(Vertices(g))
  BY <1>5, <1>6, LinksAssumption, FS_Union
<1>8. ASSUME NEW x, NEW y \in Neighbors(g, x) PROVE y \in Vertices(g)
  <2>1. y \in Adjacent(g, {x})
    BY <1>8, AdjacentIs
  <2>2. PICK l \in Links(g) : y = g[l[1]][l[2]].target \/ y = l[1]
    BY <2>1 DEF Adjacent
  <2>3. l[1] \in Paths
    <3>1. PICK z \in DOMAIN g : \E i \in DOMAIN g[z] : l = <<z, i>>
      BY DEF Links
    <3> QED BY <3>1 DEF IsGraph
  <2> QED BY <1>6, <2>2, <2>3 DEF Targets
<1> QED BY <1>6, <1>7, <1>8

\* The sets of Within spread through neighbours.
LEMMA WithinSpreads ==
  ASSUME NEW g, IsGraph(g), NEW seeds \in SUBSET Vertices(g)
  PROVE  /\ Within(g, seeds) \in [Nat -> SUBSET Vertices(g)] /\ Within(g, seeds)[0] = seeds
         /\ \A n \in Nat : Within(g, seeds)[n + 1]
                             = Within(g, seeds)[n] \cup UNION {Neighbors(g, v) : v \in Within(g, seeds)[n]}
<1> DEFINE V == SUBSET Vertices(g)
           F == [S \in V |-> S \cup Adjacent(g, S)]
           W == Within(g, seeds)
<1>1. F \in [V -> V] /\ \A S \in V : F[S] = S \cup Adjacent(g, S)
  <2>1. ASSUME NEW S \in V PROVE S \cup Adjacent(g, S) \in V
    BY <2>1, AdjacentIs, VerticesAre
  <2> HIDE DEF V
  <2> QED BY <2>1
<1> HIDE DEF F, V
<1>2. seeds \in V
  BY DEF V
<1>3. PICK r \in [Nat -> V] : r = [n \in Nat |-> IF n = 0 THEN seeds ELSE F[r[n - 1]]]
  BY <1>1, <1>2, StepsExist
<1>4. \A n \in Nat : n # 0 => F[r[n - 1]] = r[n - 1] \cup Adjacent(g, r[n - 1])
  BY <1>1, <1>3
<1>5. Spreading(g, seeds, r)
  <2>1. r = [n \in Nat |-> IF n = 0 THEN seeds ELSE r[n - 1] \cup Adjacent(g, r[n - 1])]
    BY <1>3, <1>4
  <2> QED BY <2>1 DEF Spreading
<1>6. W = CHOOSE s : Spreading(g, seeds, s)
  BY DEF Within, Spreading
<1>7. Spreading(g, seeds, W)
  BY <1>5, <1>6
<1> HIDE DEF W
<1>8. W[0] = seeds
  BY <1>7 DEF Spreading
<1>9. ASSUME NEW n \in Nat PROVE W[n + 1] = W[n] \cup Adjacent(g, W[n])
  <2>1. n + 1 \in Nat /\ n + 1 # 0 /\ (n + 1) - 1 = n
    OBVIOUS
  <2> QED BY <1>7, <2>1 DEF Spreading
<1>10. \A n \in Nat : W[n] \in V
  <2> DEFINE T == {n \in Nat : W[n] \in V}
  <2>1. 0 \in T
    BY <1>2, <1>8
  <2>2. ASSUME NEW n \in Nat, n \in T PROVE n + 1 \in T
    <3>1. F[W[n]] \in V /\ F[W[n]] = W[n] \cup Adjacent(g, W[n])
      BY <1>1, <2>2
    <3>2. W[n + 1] \in V
      BY <1>9, <3>1
    <3> QED BY <3>2
  <2> HIDE DEF T
  <2>3. Nat \subseteq T
    BY <2>1, <2>2, NatSetInduction
  <2> QED BY <2>3 DEF T
<1>11. W \in [Nat -> V]
  <2>1. DOMAIN W = Nat /\ W = [n \in Nat |-> W[n]]
    BY <1>7 DEF Spreading
  <2> QED BY <1>10, <2>1
<1> QED BY <1>8, <1>9, <1>11, AdjacentIs DEF W, V

\* Distances are exact, whatever the graph.
LEMMA WalksAreNearest ==
  ASSUME NEW g, IsGraph(g)
  PROVE  NeighborsAreNearest(g)
<1> SUFFICES ASSUME NEW seeds \in SUBSET Paths, NEW depth \in {0, 2, 4}
             PROVE  BfsNeighbors(g, seeds, depth) = ByDistance(g, seeds, depth)
  BY DEF NeighborsAreNearest
<1> DEFINE max == IF depth > 3 THEN 3 ELSE depth
           U == Vertices(g) \cup seeds
           near == [p \in U |-> Neighbors(g, p)]
           W == Within(g, seeds)
           Turns == CHOOSE t : Turning(near, max, seeds, t)
<1>1. U = Vertices(g) /\ seeds \in SUBSET Vertices(g)
  BY VerticesAre
<1>2. near \in [U -> SUBSET U] /\ \A v \in U : near[v] = Neighbors(g, v)
  BY <1>1, VerticesAre
<1>3. max \in Nat
  OBVIOUS
<1>4. /\ W \in [Nat -> SUBSET U] /\ W[0] = seeds
      /\ \A n \in Nat : W[n + 1] = W[n] \cup UNION {Neighbors(g, v) : v \in W[n]}
  BY <1>1, WithinSpreads
<1>5. IsFiniteSet(U) /\ seeds \subseteq U
  BY <1>1, VerticesAre
<1>6. BfsNeighbors(g, seeds, depth) = IF max = 0 THEN {} ELSE Turns[Cardinality(U)].result
  BY DEF BfsNeighbors, Turning
<1>7. ByDistance(g, seeds, depth) = UNION {(W[d] \ W[d - 1]) \X {d} : d \in 1 .. max}
  BY DEF ByDistance
<1> HIDE DEF U, near, W, max
<1>8. Walk(U, near, seeds, max, W)
  <2>1. \A n \in Nat : {near[v] : v \in W[n]} = {Neighbors(g, v) : v \in W[n]}
    BY <1>2, <1>4
  <2> QED BY <1>2, <1>3, <1>4, <1>5, <2>1 DEF Walk
<1>9. Turning(near, max, seeds, Turns)
  BY <1>8, TurnsExist
<1> HIDE DEF Turns
<1>10. \A r : r \in Turns[Cardinality(U)].result <=> \E d \in 1 .. max : \E v \in W[d] \ W[d - 1] : r = <<v, d>>
  BY <1>8, <1>9, WalkFinds
<1>11. \A r : r \in ByDistance(g, seeds, depth) <=> \E d \in 1 .. max : \E v \in W[d] \ W[d - 1] : r = <<v, d>>
  BY <1>7
<1>12. CASE max = 0
  <2>1. 1 .. max = {}
    BY <1>12
  <2> QED BY <1>6, <1>7, <1>12, <2>1
<1>13. CASE max # 0
  BY <1>6, <1>10, <1>11, <1>13
<1> QED BY <1>12, <1>13

\* No walk through the links misses a document or finds one too near or too far, in
\* whatever way the graph came to be.
THEOREM WalksStayExact == LinksSpec => []WalksAreExact
<1>1. LinksInit => LinksInv
  BY InitLinks
<1>2. LinksInv /\ [LinksNext]_linkVars => LinksInv'
  BY NextLinks
<1>3. ASSUME LinksInv PROVE WalksAreExact
  <2>1. IsGraph(forward)
    <3>1. forward = [p \in Paths |-> forward[p]]
      BY <1>3 DEF LinksInv, Follows
    <3>2. DOMAIN forward = Paths
      BY <3>1
    <3>3. \A p \in Paths : OfOthers(p, forward[p])
      BY <1>3 DEF LinksInv, Follows
    <3>4. ASSUME NEW p \in Paths, NEW i \in DOMAIN forward[p] PROVE forward[p][i].target # p
      <4>1. forward[p][i] \in ToSet(forward[p])
        BY DEF ToSet
      <4> QED BY <3>3, <4>1 DEF OfOthers
    <3> QED BY <3>2, <3>3, <3>4 DEF IsGraph, OfOthers
  <2> QED BY <2>1, WalksAreNearest, TreesAreComplete DEF WalksAreExact
<1> QED BY <1>1, <1>2, <1>3, PTL DEF LinksSpec
=============================================================================
