--------------------------- MODULE RetrievalProofs ---------------------------
(***************************************************************************)
(* Proofs about search and the assistant, for any number of documents, any *)
(* rankings, any limits and any number of changes.                         *)
(*                                                                         *)
(* The loops of the code are recursive functions in the model.  That they  *)
(* have the values their equations demand, and what they compute, is shown *)
(* by induction over the positions of a ranking, for which the least       *)
(* element of a set of positions where something fails is taken.           *)
(***************************************************************************)
EXTENDS Retrieval, FiniteSetTheorems, SequenceTheorems, WellFoundedInduction, TLAPS

\* Induction over the positions of a sequence: a set of natural numbers that is
\* not empty has a least element.
LEMMA LeastElement ==
    ASSUME NEW T \in SUBSET Nat, T # {}
    PROVE  \E m \in T : \A n \in T : m <= n
<1>1. OpToRel(<, Nat) = {ss \in Nat \X Nat : ss[1] < ss[2]}
  BY DEF OpToRel
<1>2. PICK m \in T : \A n \in T : <<n, m>> \notin OpToRel(<, Nat)
  BY WFMin, NatLessThanWellFounded
<1>3. \A n \in T : ~ n < m
  BY <1>1, <1>2
<1> QED BY <1>3

\* A set that contains 0 and the successor of each of its elements below n
\* contains all up to n.
LEMMA Induction ==
    ASSUME NEW n \in Nat, NEW T,
           0 \in T, \A i \in 1..n : i - 1 \in T => i \in T
    PROVE  0..n \subseteq T
<1> DEFINE Missing == (0..n) \ T
<1>1. SUFFICES ASSUME Missing # {} PROVE FALSE
  OBVIOUS
<1>2. Missing \in SUBSET Nat
  OBVIOUS
<1>3. PICK m \in Missing : \A i \in Missing : m <= i
  BY <1>1, <1>2, LeastElement
<1>4. m \in 1..n /\ m - 1 \in 0..n /\ ~ (m <= m - 1)
  BY <1>3
<1>5. m - 1 \in T
  BY <1>3, <1>4
<1> QED BY <1>3, <1>4, <1>5

-----------------------------------------------------------------------------
(* The loops: each of them has the values that its equation demands.       *)

\* documents_by_ids
KeptStep(points, i, kept) ==
    IF <<points[i], Raw>> \in matching
    THEN Append(kept, HitOf(<<points[i], Raw>>)) ELSE kept

LEMMA RecheckedRuns ==
    ASSUME NEW points, Len(points) \in Nat
    PROVE  \E g : /\ g = [i \in 0..Len(points) |->
                            IF i = 0 THEN <<>> ELSE KeptStep(points, i, g[i - 1])]
                  /\ Rechecked(points) = g[Len(points)]
<1> DEFINE Runs(m, g) == g = [i \in 0..m |-> IF i = 0 THEN <<>> ELSE KeptStep(points, i, g[i - 1])]
           T == {m \in 0..Len(points) : \E g : Runs(m, g)}
<1>1. 0 \in T
  <2>1. Runs(0, [i \in 0..0 |-> <<>>])
    OBVIOUS
  <2>2. \E g : Runs(0, g)
    <3> HIDE DEF Runs
    <3> QED BY <2>1
  <2> QED BY <2>2
<1>2. ASSUME NEW m \in 1..Len(points), m - 1 \in T PROVE m \in T
  <2>1. PICK g : Runs(m - 1, g)
    BY <1>2
  <2> DEFINE h == [i \in 0..m |-> IF i = m THEN KeptStep(points, m, g[m - 1]) ELSE g[i]]
  <2>2. Runs(m, h)
    BY <2>1
  <2> HIDE DEF h
  <2> QED BY <2>2
<1>3. 0..Len(points) \subseteq T
  <2> HIDE DEF T
  <2> QED BY <1>1, <1>2, Induction
<1>4. \E g : Runs(Len(points), g)
  BY <1>3
<1> QED BY <1>4 DEF Rechecked, KeptStep

\* One pass of _fuse.
LEMMA ScoredRuns ==
    ASSUME NEW list, NEW ranking, NEW fused, Len(ranking) \in Nat
    PROVE  \E g : /\ g = [i \in 0..Len(ranking) |->
                            IF i = 0 THEN fused
                            ELSE Added(list, ranking[i], i, g[i - 1])]
                  /\ Scored(list, ranking, fused) = g[Len(ranking)]
<1> DEFINE Runs(m, g) == g = [i \in 0..m |->
                 IF i = 0 THEN fused ELSE Added(list, ranking[i], i, g[i - 1])]
           T == {m \in 0..Len(ranking) : \E g : Runs(m, g)}
<1>1. 0 \in T
  <2>1. Runs(0, [i \in 0..0 |-> fused])
    OBVIOUS
  <2>2. \E g : Runs(0, g)
    <3> HIDE DEF Runs
    <3> QED BY <2>1
  <2> QED BY <2>2
<1>2. ASSUME NEW m \in 1..Len(ranking), m - 1 \in T PROVE m \in T
  <2>1. PICK g : Runs(m - 1, g)
    BY <1>2
  <2> DEFINE h == [i \in 0..m |->
                     IF i = m THEN Added(list, ranking[m], m, g[m - 1]) ELSE g[i]]
  <2>2. Runs(m, h)
    BY <2>1
  <2> HIDE DEF h
  <2> QED BY <2>2
<1>3. 0..Len(ranking) \subseteq T
  <2> HIDE DEF T
  <2> QED BY <1>1, <1>2, Induction
<1>4. \E g : Runs(Len(ranking), g)
  BY <1>3
<1> QED BY <1>4 DEF Scored

\* The sums of the property.
LEMMA SumsRun ==
    ASSUME NEW d, NEW ranking, Len(ranking) \in Nat
    PROVE  Sums(d, ranking) = [i \in 0..Len(ranking) |->
               IF i = 0 THEN 0
               ELSE Sums(d, ranking)[i - 1]
                      + IF ranking[i].document = d THEN Scale \div (60 + i) ELSE 0]
<1> DEFINE Runs(m, g) == g = [i \in 0..m |->
               IF i = 0 THEN 0
               ELSE g[i - 1] + IF ranking[i].document = d
                               THEN Scale \div (60 + i) ELSE 0]
           T == {m \in 0..Len(ranking) : \E g : Runs(m, g)}
<1>1. 0 \in T
  <2>1. Runs(0, [i \in 0..0 |-> 0])
    OBVIOUS
  <2>2. \E g : Runs(0, g)
    <3> HIDE DEF Runs
    <3> QED BY <2>1
  <2> QED BY <2>2
<1>2. ASSUME NEW m \in 1..Len(ranking), m - 1 \in T PROVE m \in T
  <2>1. PICK g : Runs(m - 1, g)
    BY <1>2
  <2> DEFINE h == [i \in 0..m |->
               IF i = m THEN g[m - 1] + IF ranking[m].document = d
                                        THEN Scale \div (60 + m) ELSE 0
               ELSE g[i]]
  <2>2. Runs(m, h)
    BY <2>1
  <2> HIDE DEF h
  <2> QED BY <2>2
<1>3. 0..Len(ranking) \subseteq T
  <2> HIDE DEF T
  <2> QED BY <1>1, <1>2, Induction
<1>4. \E g : Runs(Len(ranking), g)
  BY <1>3
<1> QED BY <1>4 DEF Sums

-----------------------------------------------------------------------------
(* What comes back from PostgreSQL.                                        *)

\* The hits of the tenant's documents that pass the filter now.
PassingHits == {HitOf(<<d, Raw>>) : d \in {e \in Document : <<e, Raw>> \in matching}}

\* They are hits: every document has a version.
LEMMA PassingHitsFit ==
    ASSUME TypeOK
    PROVE  PassingHits \subseteq Hit
<1>1. ASSUME NEW d \in Document PROVE HitOf(<<d, Raw>>) \in Hit
  <2>1. HitOf(<<d, Raw>>) = [document |-> d, version |-> latest[d], record |-> Raw]
    BY DEF HitOf, VersionOf
  <2>2. latest[d] \in Nat \ {0}
    BY DEF TypeOK
  <2> QED BY <2>1, <2>2 DEF Hit
<1> QED BY <1>1 DEF PassingHits

\* documents_by_ids returns such hits only, whatever the points are.
LEMMA RecheckedFits ==
    ASSUME TypeOK, NEW points \in Seq(Document \cup Foreign)
    PROVE  Rechecked(points) \in Seq(PassingHits)
<1>1. PICK g : /\ g = [i \in 0..Len(points) |->
                         IF i = 0 THEN <<>> ELSE KeptStep(points, i, g[i - 1])]
               /\ Rechecked(points) = g[Len(points)]
  BY RecheckedRuns
<1> DEFINE T == {i \in 0..Len(points) : g[i] \in Seq(PassingHits)}
<1>2. 0 \in T
  BY <1>1
<1>3. ASSUME NEW i \in 1..Len(points), i - 1 \in T PROVE i \in T
  <2>1. g[i - 1] \in Seq(PassingHits) /\ g[i] = KeptStep(points, i, g[i - 1])
    BY <1>1, <1>3
  <2>2. CASE <<points[i], Raw>> \in matching
    <3>1. points[i] \in Document
      BY <2>2 DEF TypeOK, Item
    <3>2. HitOf(<<points[i], Raw>>) \in PassingHits
      BY <2>2, <3>1 DEF PassingHits
    <3> DEFINE hit == HitOf(<<points[i], Raw>>)
    <3>3. g[i] = Append(g[i - 1], hit)
      BY <2>1, <2>2 DEF KeptStep
    <3> HIDE DEF hit
    <3>4. hit \in PassingHits
      BY <3>2 DEF hit
    <3>5. Append(g[i - 1], hit) \in Seq(PassingHits)
      BY <2>1, <3>4
    <3>6. i \in 0..Len(points)
      OBVIOUS
    <3> QED BY <3>3, <3>5, <3>6
  <2>3. CASE <<points[i], Raw>> \notin matching
    BY <2>1, <2>3 DEF KeptStep
  <2> QED BY <2>2, <2>3
<1>4. 0..Len(points) \subseteq T
  <2> HIDE DEF T
  <2> QED BY <1>2, <1>3, Induction
<1>5. Len(points) \in T
  <2> HIDE DEF T
  <2> QED BY <1>4
<1> QED BY <1>1, <1>5

-----------------------------------------------------------------------------
(* Fusion: the dictionaries.                                               *)

Entry == [hit : Hit, score : Nat]
DocumentsOf(f) == {f[k].hit.document : k \in DOMAIN f}
HitsOf(f) == {f[k].hit : k \in DOMAIN f}

\* A dictionary has a document once.
Dictionary(f) ==
    /\ f \in Seq(Entry)
    /\ \A i, j \in DOMAIN f : f[i].hit.document = f[j].hit.document => i = j

\* What the dictionaries hold of a document.
LEMMA EntryFits ==
    ASSUME NEW f \in Seq(Entry), NEW k \in DOMAIN f
    PROVE  f[k].hit \in Hit /\ f[k].score \in Nat
<1>1. f[k] \in Entry
  OBVIOUS
<1> QED BY <1>1 DEF Entry

\* A reciprocal rank is a number of the unit.
LEMMA ReciprocalType ==
    ASSUME NEW rank \in Nat
    PROVE  Reciprocal(rank) \in Nat
BY RetrievalAssumption DEF Reciprocal

\* What the document d gains by the hit.
Part(hit, rank, d) == IF hit.document = d THEN Reciprocal(rank) ELSE 0

LEMMA PartType ==
    ASSUME NEW hit, NEW rank \in Nat, NEW d
    PROVE  Part(hit, rank, d) \in Nat
BY ReciprocalType DEF Part

\* The dictionaries a hold the hit beside what f holds.
Extends(a, f, hit, rank) ==
    /\ DocumentsOf(a) = DocumentsOf(f) \cup {hit.document}
    /\ HitsOf(a) \subseteq HitsOf(f) \cup {hit}
    /\ \A k \in DOMAIN a :
         \/ /\ k \in DOMAIN f
            /\ a[k].hit.document = f[k].hit.document
            /\ a[k].score = f[k].score + Part(hit, rank, a[k].hit.document)
         \/ /\ a[k].hit.document \notin DocumentsOf(f)
            /\ a[k].score = Part(hit, rank, a[k].hit.document)

\* What the next hit of a ranking does to the dictionaries.
LEMMA AddedAdds ==
    ASSUME NEW list, NEW f, Dictionary(f), NEW hit \in Hit, NEW rank \in Nat
    PROVE  /\ Dictionary(Added(list, hit, rank, f))
           /\ Extends(Added(list, hit, rank, f), f, hit, rank)
<1> DEFINE a == Added(list, hit, rank, f)
           d == hit.document
           places == {k \in DOMAIN f : f[k].hit.document = d}
<1>1. f \in Seq(Entry) /\ Len(f) \in Nat /\ DOMAIN f = 1..Len(f)
  BY DEF Dictionary
<1>2. Reciprocal(rank) \in Nat
  BY ReciprocalType
<1>3. CASE places = {}
  <2>1. EntryOf(f, d) = 0
    BY <1>3 DEF EntryOf
  <2>2. a = Append(f, [hit |-> hit, score |-> Reciprocal(rank)])
    BY <2>1 DEF Added
  <2>3. [hit |-> hit, score |-> Reciprocal(rank)] \in Entry
    BY <1>2 DEF Entry
  <2>4. /\ a \in Seq(Entry) /\ DOMAIN a = 1..Len(f) + 1
        /\ \A k \in 1..Len(f) : a[k] = f[k]
        /\ a[Len(f) + 1].hit = hit /\ a[Len(f) + 1].score = Reciprocal(rank)
    BY <1>1, <2>2, <2>3
  <2>5. d \notin DocumentsOf(f)
    BY <1>3 DEF DocumentsOf
  <2> HIDE DEF a, d
  <2>6. Dictionary(a)
    BY <1>1, <2>4, <2>5 DEF Dictionary, DocumentsOf, d
  <2>7. DocumentsOf(a) = DocumentsOf(f) \cup {d}
    BY <1>1, <2>4 DEF DocumentsOf, d
  <2>8. HitsOf(a) \subseteq HitsOf(f) \cup {hit}
    BY <1>1, <2>4 DEF HitsOf
  <2>9. ASSUME NEW k \in DOMAIN a
        PROVE  \/ /\ k \in DOMAIN f
                  /\ a[k].hit.document = f[k].hit.document
                  /\ a[k].score = f[k].score + Part(hit, rank, a[k].hit.document)
               \/ /\ a[k].hit.document \notin DocumentsOf(f)
                  /\ a[k].score = Part(hit, rank, a[k].hit.document)
    <3>1. CASE k \in 1..Len(f)
      <4>1. f[k].score \in Nat
        BY <1>1, <3>1, EntryFits
      <4>2. f[k].hit.document # d
        BY <1>1, <2>5, <3>1 DEF DocumentsOf
      <4>3. Part(hit, rank, f[k].hit.document) = 0
        BY <4>2 DEF Part, d
      <4> QED BY <1>1, <2>4, <3>1, <4>1, <4>3
    <3>2. CASE k = Len(f) + 1
      BY <1>1, <2>4, <2>5, <3>2 DEF d, Part
    <3> QED BY <1>1, <2>4, <3>1, <3>2
  <2> QED BY <2>6, <2>7, <2>8, <2>9 DEF a, d, Extends
<1>4. CASE places # {}
  <2> DEFINE p == EntryOf(f, d)
  <2>1. p \in DOMAIN f /\ f[p].hit.document = d
    BY <1>4 DEF EntryOf
  <2>2. p # 0 /\ p \in 1..Len(f)
    BY <1>1, <2>1
  <2> DEFINE new == [hit |-> IF list = 1 THEN hit ELSE f[p].hit,
                     score |-> f[p].score + Reciprocal(rank)]
  <2>3. f[p] \in Entry
    BY <1>1, <2>2
  <2>4. new \in Entry
    BY <1>2, <2>3 DEF Entry
  <2>5. a = [f EXCEPT ![p] = new]
    <3>1. a = [f EXCEPT ![p].score = Accumulated(@, Reciprocal(rank)),
                        ![p].hit = IF list = 1 THEN hit ELSE @]
      BY <2>2 DEF Added
    <3> QED BY <1>1, <2>2, <2>3, <3>1 DEF Accumulated, Entry
  <2>6. /\ a \in Seq(Entry) /\ DOMAIN a = DOMAIN f
        /\ \A k \in DOMAIN f \ {p} : a[k] = f[k]
        /\ a[p].hit \in {hit, f[p].hit} /\ a[p].score = f[p].score + Reciprocal(rank)
        /\ a[p].hit.document = d
    <3> HIDE DEF p, a
    <3> QED BY <1>1, <2>1, <2>2, <2>4, <2>5
  <2>7. \A k \in DOMAIN f : a[k].hit.document = f[k].hit.document
    BY <2>1, <2>6
  <2> HIDE DEF a, d, p
  <2>8. Dictionary(a)
    BY <2>6, <2>7 DEF Dictionary
  <2>9. DocumentsOf(a) = DocumentsOf(f) \cup {d}
    BY <2>1, <2>6, <2>7 DEF DocumentsOf
  <2>10. HitsOf(a) \subseteq HitsOf(f) \cup {hit}
    BY <2>1, <2>6 DEF HitsOf
  <2>11. ASSUME NEW k \in DOMAIN a
         PROVE  /\ k \in DOMAIN f
                /\ a[k].hit.document = f[k].hit.document
                /\ a[k].score = f[k].score + Part(hit, rank, a[k].hit.document)
    <3>1. CASE k = p
      BY <2>1, <2>6, <2>7, <3>1 DEF Part, d
    <3>2. CASE k # p
      <4>1. f[k].score \in Nat
        BY <1>1, <2>6, EntryFits
      <4>2. f[k].hit.document # d
        BY <2>1, <2>6, <3>2 DEF Dictionary
      <4>3. Part(hit, rank, f[k].hit.document) = 0
        BY <4>2 DEF Part, d
      <4> QED BY <2>6, <2>7, <3>2, <4>1, <4>3
    <3> QED BY <3>1, <3>2
  <2> QED BY <2>8, <2>9, <2>10, <2>11 DEF a, d, Extends
<1> QED BY <1>3, <1>4

\* The dictionaries hold the tally of every document: those that they leave out
\* have none.
Tallied(f, tally) ==
    /\ \A k \in DOMAIN f : f[k].score = tally[f[k].hit.document]
    /\ \A d \in Document \ DocumentsOf(f) : tally[d] = 0

\* The next hit of a ranking raises the tally of its document.
LEMMA AddedTallies ==
    ASSUME NEW list, NEW f, Dictionary(f), NEW hit \in Hit, NEW rank \in Nat,
           NEW tally \in [Document -> Nat], Tallied(f, tally)
    PROVE  Tallied(Added(list, hit, rank, f),
                   [d \in Document |-> tally[d] + Part(hit, rank, d)])
<1> DEFINE a == Added(list, hit, rank, f)
           next == [d \in Document |-> tally[d] + Part(hit, rank, d)]
<1>1. /\ Dictionary(a)
      /\ DocumentsOf(a) = DocumentsOf(f) \cup {hit.document}
      /\ \A k \in DOMAIN a :
            \/ /\ k \in DOMAIN f
               /\ a[k].hit.document = f[k].hit.document
               /\ a[k].score = f[k].score + Part(hit, rank, a[k].hit.document)
            \/ /\ a[k].hit.document \notin DocumentsOf(f)
               /\ a[k].score = Part(hit, rank, a[k].hit.document)
  <2>1. Dictionary(a) /\ Extends(a, f, hit, rank)
    BY AddedAdds
  <2> QED BY <2>1 DEF Extends
<1> HIDE DEF a
<1>2. \A d \in Document : Part(hit, rank, d) \in Nat
  BY PartType
<1>3. ASSUME NEW k \in DOMAIN a PROVE a[k].score = next[a[k].hit.document]
  <2> DEFINE d == a[k].hit.document
  <2>1. d \in Document
    BY <1>1, EntryFits DEF Dictionary, Hit
  <2>2. next[d] = tally[d] + Part(hit, rank, d)
    BY <2>1
  <2>3. CASE /\ k \in DOMAIN f /\ d = f[k].hit.document
             /\ a[k].score = f[k].score + Part(hit, rank, d)
    <3>1. f[k].score = tally[d]
      BY <2>3 DEF Tallied
    <3> QED BY <2>2, <2>3, <3>1
  <2>4. CASE d \notin DocumentsOf(f) /\ a[k].score = Part(hit, rank, d)
    <3>1. tally[d] = 0
      BY <2>1, <2>4 DEF Tallied
    <3>2. Part(hit, rank, d) \in Nat
      BY <1>2, <2>1
    <3> HIDE DEF next, d
    <3> QED BY <2>2, <2>4, <3>1, <3>2 DEF d
  <2> QED BY <1>1, <2>3, <2>4
<1>4. ASSUME NEW d \in Document \ DocumentsOf(a) PROVE next[d] = 0
  <2>1. d \notin DocumentsOf(f) /\ hit.document # d
    BY <1>1
  <2>2. tally[d] = 0 /\ Part(hit, rank, d) = 0
    BY <2>1 DEF Tallied, Part
  <2> QED BY <2>2
<1> QED BY <1>3, <1>4 DEF Tallied, a

\* The sum by i is a number, and grows by what the i-th hit gives.
LEMMA SumsFit ==
    ASSUME NEW d, NEW s, Len(s) \in Nat
    PROVE  /\ Sums(d, s) \in [0..Len(s) -> Nat]
           /\ Sums(d, s)[0] = 0
           /\ \A i \in 1..Len(s) : Sums(d, s)[i] = Sums(d, s)[i - 1] + Part(s[i], i, d)
<1> DEFINE g == Sums(d, s)
<1>1. g = [i \in 0..Len(s) |->
               IF i = 0 THEN 0
               ELSE g[i - 1] + IF s[i].document = d THEN Scale \div (60 + i) ELSE 0]
  BY SumsRun
<1> HIDE DEF g
<1>2. \A i \in 1..Len(s) :
         Part(s[i], i, d) = IF s[i].document = d THEN Scale \div (60 + i) ELSE 0
  BY DEF Part, Reciprocal
<1>3. \A i \in 1..Len(s) : g[i] = g[i - 1] + Part(s[i], i, d)
  <2> TAKE i \in 1..Len(s)
  <2>1. i \in 0..Len(s) /\ i # 0
    OBVIOUS
  <2> DEFINE part == IF s[i].document = d THEN Scale \div (60 + i) ELSE 0
  <2>2. g[i] = IF i = 0 THEN 0 ELSE g[i - 1] + part
    BY <1>1, <2>1
  <2>3. Part(s[i], i, d) = part
    BY <1>2
  <2> HIDE DEF part
  <2> QED BY <2>1, <2>2, <2>3
<1>4. \A i \in 1..Len(s) : Part(s[i], i, d) \in Nat
  BY PartType
<1>5. g[0] = 0
  BY <1>1
<1> DEFINE T == {i \in 0..Len(s) : g[i] \in Nat}
<1>6. 0..Len(s) \subseteq T
  <2>1. 0 \in T
    BY <1>5
  <2>2. \A i \in 1..Len(s) : i - 1 \in T => i \in T
    <3> TAKE i \in 1..Len(s)
    <3>1. g[i] = g[i - 1] + Part(s[i], i, d) /\ Part(s[i], i, d) \in Nat
      BY <1>3, <1>4
    <3> QED BY <3>1
  <2> HIDE DEF T
  <2> QED BY <2>1, <2>2, Induction
<1>7. DOMAIN g = 0..Len(s)
  BY <1>1
<1>8. g = [i \in DOMAIN g |-> g[i]]
  BY <1>1
<1> QED BY <1>3, <1>5, <1>6, <1>7, <1>8 DEF g

\* A pass of _fuse over a ranking adds the sums of the ranking to the tallies.
LEMMA ScoredTallies ==
    ASSUME NEW list, NEW s \in Seq(Hit), NEW f, Dictionary(f),
           NEW tally \in [Document -> Nat], Tallied(f, tally)
    PROVE  LET a == Scored(list, s, f) IN
           /\ Dictionary(a)
           /\ Tallied(a, [d \in Document |-> tally[d] + Sums(d, s)[Len(s)]])
           /\ DocumentsOf(a) = DocumentsOf(f) \cup {h.document : h \in ToSet(s)}
           /\ HitsOf(a) \subseteq HitsOf(f) \cup ToSet(s)
<1>1. PICK g : /\ g = [i \in 0..Len(s) |->
                         IF i = 0 THEN f ELSE Added(list, s[i], i, g[i - 1])]
               /\ Scored(list, s, f) = g[Len(s)]
  BY ScoredRuns
<1>2. g[0] = f /\ \A i \in 1..Len(s) : g[i] = Added(list, s[i], i, g[i - 1])
  <2>1. Len(s) \in Nat
    OBVIOUS
  <2>2. g[0] = f
    BY <1>1, <2>1
  <2>3. ASSUME NEW i \in 1..Len(s) PROVE g[i] = Added(list, s[i], i, g[i - 1])
    <3>1. i \in 0..Len(s) /\ i # 0
      BY <2>1
    <3> QED BY <1>1, <3>1
  <2> QED BY <2>2, <2>3
<1> DEFINE Tally(i) == [d \in Document |-> tally[d] + Sums(d, s)[i]]
           Good(i) ==
              /\ Dictionary(g[i])
              /\ Tallied(g[i], Tally(i))
              /\ DocumentsOf(g[i]) = DocumentsOf(f) \cup {s[j].document : j \in 1..i}
              /\ HitsOf(g[i]) \subseteq HitsOf(f) \cup {s[j] : j \in 1..i}
           T == {i \in 0..Len(s) : Good(i)}
<1>3. \A i \in 0..Len(s) : Tally(i) \in [Document -> Nat]
  <2>1. \A d \in Document, i \in 0..Len(s) : tally[d] + Sums(d, s)[i] \in Nat
    BY SumsFit
  <2> QED BY <2>1
<1>4. 0 \in T
  <2>1. Tally(0) = tally
    <3>1. \A d \in Document : tally[d] + Sums(d, s)[0] = tally[d]
      BY SumsFit
    <3> QED BY <3>1
  <2> QED BY <1>2, <2>1
<1>5. ASSUME NEW i \in 1..Len(s), i - 1 \in T PROVE i \in T
  <2>1. Good(i - 1) /\ i - 1 \in 0..Len(s) /\ i \in 0..Len(s) /\ s[i] \in Hit /\ i \in Nat
    BY <1>5
  <2>2. g[i] = Added(list, s[i], i, g[i - 1])
    BY <1>2
  <2>3. /\ Dictionary(g[i])
        /\ DocumentsOf(g[i]) = DocumentsOf(g[i - 1]) \cup {s[i].document}
        /\ HitsOf(g[i]) \subseteq HitsOf(g[i - 1]) \cup {s[i]}
    <3>1. Dictionary(g[i - 1])
      BY <2>1
    <3>2. Dictionary(g[i]) /\ Extends(g[i], g[i - 1], s[i], i)
      BY <2>1, <2>2, <3>1, AddedAdds
    <3> QED BY <3>2 DEF Extends
  <2>4. Tallied(g[i], [d \in Document |-> Tally(i - 1)[d] + Part(s[i], i, d)])
    <3>1. Tally(i - 1) \in [Document -> Nat]
      BY <1>3, <2>1
    <3>2. Dictionary(g[i - 1]) /\ Tallied(g[i - 1], Tally(i - 1))
      BY <2>1
    <3> HIDE DEF Tally
    <3> QED BY <2>1, <2>2, <3>1, <3>2, AddedTallies
  <2>5. [d \in Document |-> Tally(i - 1)[d] + Part(s[i], i, d)] = Tally(i)
    <3>1. ASSUME NEW d \in Document
          PROVE  Tally(i - 1)[d] + Part(s[i], i, d) = tally[d] + Sums(d, s)[i]
      <4>1. Sums(d, s)[i] = Sums(d, s)[i - 1] + Part(s[i], i, d)
        BY SumsFit
      <4>2. Sums(d, s)[i - 1] \in Nat /\ Part(s[i], i, d) \in Nat
        <5>1. Sums(d, s)[i - 1] \in Nat
          BY <2>1, SumsFit
        <5>2. Part(s[i], i, d) \in Nat
          BY <2>1, PartType
        <5> QED BY <5>1, <5>2
      <4>3. Tally(i - 1)[d] = tally[d] + Sums(d, s)[i - 1]
        OBVIOUS
      <4> HIDE DEF Tally
      <4> QED BY <4>1, <4>2, <4>3
    <3> QED BY <3>1
  <2>6. 1..i = 1..(i - 1) \cup {i}
    OBVIOUS
  <2>7. DocumentsOf(g[i]) = DocumentsOf(f) \cup {s[j].document : j \in 1..i}
    <3>1. {s[j].document : j \in 1..i} = {s[j].document : j \in 1..(i - 1)} \cup {s[i].document}
      BY <2>6
    <3> QED BY <2>1, <2>3, <3>1
  <2>8. HitsOf(g[i]) \subseteq HitsOf(f) \cup {s[j] : j \in 1..i}
    <3>1. {s[j] : j \in 1..i} = {s[j] : j \in 1..(i - 1)} \cup {s[i]}
      BY <2>6
    <3> QED BY <2>1, <2>3, <3>1
  <2>9. Tallied(g[i], Tally(i))
    BY <2>4, <2>5
  <2> HIDE DEF Tally
  <2> QED BY <2>1, <2>3, <2>7, <2>8, <2>9
<1>6. 0..Len(s) \subseteq T
  <2>1. Len(s) \in Nat
    OBVIOUS
  <2> HIDE DEF T
  <2> QED BY <1>4, <1>5, <2>1, Induction
<1>7. Good(Len(s))
  <2>1. Len(s) \in 0..Len(s)
    OBVIOUS
  <2>2. Len(s) \in T
    BY <1>6, <2>1
  <2> QED BY <2>2
<1>8. ToSet(s) = {s[j] : j \in 1..Len(s)}
  BY DEF ToSet
<1>9. {h.document : h \in ToSet(s)} = {s[j].document : j \in 1..Len(s)}
  BY <1>8
<1> QED BY <1>1, <1>7, <1>8, <1>9

-----------------------------------------------------------------------------
(* Fusion: the order.                                                      *)

\* The entries of f have scores that can be compared.
Scores(f) ==
    /\ Len(f) \in Nat
    /\ f = [i \in 1..Len(f) |-> f[i]]
    /\ \A i \in 1..Len(f) : f[i].score \in Nat

\* The entries that come before the i-th.
Ahead(f, i) == {j \in DOMAIN f : Before(f, j, i)}

\* There are fewer than all, and the entry itself is not among them.
LEMMA AheadIsCounted ==
    ASSUME NEW f, Scores(f), NEW i \in 1..Len(f)
    PROVE  /\ IsFiniteSet(Ahead(f, i))
           /\ Cardinality(Ahead(f, i)) \in 0..Len(f) - 1
           /\ i \notin Ahead(f, i)
<1>1. Len(f) \in Nat /\ DOMAIN f = 1..Len(f) /\ f[i].score \in Nat
  BY DEF Scores
<1>2. i \notin Ahead(f, i)
  BY <1>1 DEF Ahead, Before
<1>3. IsFiniteSet(1..Len(f)) /\ Cardinality(1..Len(f)) = Len(f)
  BY <1>1, FS_Interval
<1>4. IsFiniteSet((1..Len(f)) \ {i}) /\ Cardinality((1..Len(f)) \ {i}) = Len(f) - 1
  BY <1>3, FS_RemoveElement
<1>5. Ahead(f, i) \in SUBSET ((1..Len(f)) \ {i})
  BY <1>1, <1>2 DEF Ahead
<1>6. IsFiniteSet(Ahead(f, i)) /\ Cardinality(Ahead(f, i)) <= Len(f) - 1
  BY <1>4, <1>5, FS_Subset
<1>7. Cardinality(Ahead(f, i)) \in Nat
  BY <1>6, FS_CardinalityType
<1> QED BY <1>1, <1>2, <1>6, <1>7

\* What comes before has fewer entries before it.
LEMMA AheadGrows ==
    ASSUME NEW f, Scores(f), NEW i \in 1..Len(f), NEW j \in 1..Len(f),
           Before(f, j, i)
    PROVE  Cardinality(Ahead(f, j)) < Cardinality(Ahead(f, i))
<1>1. Len(f) \in Nat /\ DOMAIN f = 1..Len(f) /\ \A k \in 1..Len(f) : f[k].score \in Nat
  BY DEF Scores
<1>2. Ahead(f, j) \cup {j} \in SUBSET Ahead(f, i)
  <2>1. \A k \in 1..Len(f) : Before(f, k, j) => Before(f, k, i)
    BY <1>1 DEF Before
  <2> QED BY <1>1, <2>1 DEF Ahead
<1>3. /\ IsFiniteSet(Ahead(f, j)) /\ j \notin Ahead(f, j)
      /\ Cardinality(Ahead(f, j)) \in Int
  BY AheadIsCounted
<1>4. /\ IsFiniteSet(Ahead(f, i)) /\ Cardinality(Ahead(f, i)) \in Int
  BY AheadIsCounted
<1>5. Cardinality(Ahead(f, j) \cup {j}) = Cardinality(Ahead(f, j)) + 1
  BY <1>3, FS_AddElement
<1>6. Cardinality(Ahead(f, j) \cup {j}) <= Cardinality(Ahead(f, i))
  BY <1>2, <1>4, FS_Subset
<1> QED BY <1>3, <1>4, <1>5, <1>6

\* Of two entries one comes before the other.
LEMMA BeforeIsTotal ==
    ASSUME NEW f, Scores(f), NEW i \in 1..Len(f), NEW j \in 1..Len(f), i # j
    PROVE  Before(f, i, j) \/ Before(f, j, i)
BY DEF Scores, Before

\* q lists the places of f by falling scores.
Sorts(f, q) ==
    /\ q \in [1..Len(f) -> 1..Len(f)]
    /\ \A i \in 1..Len(f) : \E p \in 1..Len(f) : q[p] = i
    /\ \A p, o \in 1..Len(f) : q[p] = q[o] => p = o
    /\ \A p, o \in 1..Len(f) : p < o => f[q[p]].score >= f[q[o]].score

\* The sorted dictionaries are the dictionaries in such an order.
LEMMA SortedSorts ==
    ASSUME NEW f, Scores(f)
    PROVE  \E q : /\ Sorts(f, q)
                  /\ Sorted(f) = [p \in 1..Len(f) |-> f[q[p]]]
<1> DEFINE n == Len(f)
           place == [i \in 1..n |-> 1 + Cardinality(Ahead(f, i))]
           q == [p \in DOMAIN f |->
                   CHOOSE i \in DOMAIN f :
                       1 + Cardinality({j \in DOMAIN f : Before(f, j, i)}) = p]
<1>1. n \in Nat /\ DOMAIN f = 1..n /\ \A k \in 1..n : f[k].score \in Nat
  BY DEF Scores
<1>2. place \in [1..n -> 1..n]
  <2>1. ASSUME NEW i \in 1..n PROVE 1 + Cardinality(Ahead(f, i)) \in 1..n
    <3>1. Cardinality(Ahead(f, i)) \in 0..n - 1
      BY AheadIsCounted
    <3> QED BY <1>1, <3>1
  <2> QED BY <2>1
<1>3. ASSUME NEW i \in 1..n, NEW j \in 1..n, Before(f, j, i) PROVE place[j] < place[i]
  <2>1. Cardinality(Ahead(f, j)) < Cardinality(Ahead(f, i))
    BY <1>3, AheadGrows
  <2>2. Cardinality(Ahead(f, j)) \in 0..n - 1 /\ Cardinality(Ahead(f, i)) \in 0..n - 1
    BY AheadIsCounted
  <2> QED BY <1>1, <2>1, <2>2
<1> HIDE DEF place
<1>4. \A i, j \in 1..n : place[i] = place[j] => i = j
  <2> SUFFICES ASSUME NEW i \in 1..n, NEW j \in 1..n, place[i] = place[j], i # j
               PROVE FALSE
    OBVIOUS
  <2>1. CASE Before(f, i, j)
    <3>1. place[i] < place[j]
      BY <1>3, <2>1
    <3> QED BY <1>2, <3>1
  <2>2. CASE Before(f, j, i)
    <3>1. place[j] < place[i]
      BY <1>3, <2>2
    <3> QED BY <1>2, <3>1
  <2> QED BY <2>1, <2>2, BeforeIsTotal
<1>5. \A p \in 1..n : \E i \in 1..n : place[i] = p
  <2>1. place \in Injection(1..n, 1..n)
    BY <1>2, <1>4 DEF Injection, IsInjective
  <2>2. IsFiniteSet(1..n)
    BY <1>1, FS_Interval
  <2>3. place \in Surjection(1..n, 1..n)
    BY <2>1, <2>2, FS_Injection
  <2> QED BY <2>3 DEF Surjection
<1>6. \A p \in 1..n : q[p] \in 1..n /\ place[q[p]] = p
  <2>1. ASSUME NEW i \in DOMAIN f
        PROVE  place[i] = 1 + Cardinality({j \in DOMAIN f : Before(f, j, i)})
    BY <1>1 DEF place, Ahead
  <2> TAKE p \in 1..n
  <2>2. \E i \in DOMAIN f : 1 + Cardinality({j \in DOMAIN f : Before(f, j, i)}) = p
    BY <1>1, <1>5, <2>1
  <2>3. q[p] \in DOMAIN f /\ 1 + Cardinality({j \in DOMAIN f : Before(f, j, q[p])}) = p
    BY <1>1, <2>2
  <2> QED BY <1>1, <2>1, <2>3
<1>7. q \in [1..n -> 1..n]
  BY <1>1, <1>6
<1>8. Sorted(f) = [p \in 1..n |-> f[q[p]]]
  <2>1. Sorted(f) = [p \in DOMAIN f |-> f[q[p]]]
    BY DEF Sorted
  <2> QED BY <1>1, <2>1
<1> HIDE DEF q
<1>9. \A i \in 1..n : \E p \in 1..n : q[p] = i
  <2> TAKE i \in 1..n
  <2>1. place[i] \in 1..n
    BY <1>2
  <2>2. q[place[i]] = i
    BY <1>4, <1>6, <2>1
  <2> QED BY <2>1, <2>2
<1>10. \A p, o \in 1..n : q[p] = q[o] => p = o
  BY <1>6
<1>11. ASSUME NEW p \in 1..n, NEW o \in 1..n, p < o
       PROVE  f[q[p]].score >= f[q[o]].score
  <2>1. q[p] \in 1..n /\ q[o] \in 1..n /\ place[q[p]] = p /\ place[q[o]] = o
    BY <1>6
  <2>2. ~ Before(f, q[o], q[p])
    <3>1. Before(f, q[o], q[p]) => place[q[o]] < place[q[p]]
      BY <1>3, <2>1
    <3> QED BY <1>11, <2>1, <3>1
  <2>3. q[p] # q[o]
    BY <1>11, <2>1
  <2>4. Before(f, q[p], q[o])
    BY <2>1, <2>2, <2>3, BeforeIsTotal
  <2> QED BY <1>1, <2>1, <2>4 DEF Before
<1>12. Sorts(f, q)
  BY <1>7, <1>9, <1>10, <1>11 DEF Sorts
<1> QED BY <1>8, <1>12

\* The first n of a sequence.
LEMMA FirstTakes ==
    ASSUME NEW s, Len(s) \in Nat, NEW n \in Nat
    PROVE  /\ First(s, n) = [i \in 1..(IF Len(s) < n THEN Len(s) ELSE n) |-> s[i]]
           /\ Len(First(s, n)) = IF Len(s) < n THEN Len(s) ELSE n
<1> DEFINE m == IF Len(s) < n THEN Len(s) ELSE n
<1>1. m \in Nat /\ First(s, n) = SubSeq(s, 1, m)
  BY DEF First
<1> HIDE DEF m
<1>2. SubSeq(s, 1, m) = [i \in 1..m |-> s[i]]
  BY <1>1
<1>3. Len([i \in 1..m |-> s[i]]) = m
  BY <1>1
<1> QED BY <1>1, <1>2, <1>3 DEF m

\* The dictionaries after both passes.
Fused(ranked, rechecked) == Scored(2, rechecked, Scored(1, ranked, <<>>))

\* The documents of two rankings.
Found(ranked, rechecked) == {h.document : h \in ToSet(ranked) \cup ToSet(rechecked)}

\* After both passes they hold every document found once, with its score.
LEMMA FusedTallies ==
    ASSUME NEW ranked \in Seq(Hit), NEW rechecked \in Seq(Hit)
    PROVE  LET f == Fused(ranked, rechecked) IN
           /\ Dictionary(f)
           /\ \A k \in DOMAIN f :
                f[k].score = ScoreOf(f[k].hit.document, ranked, rechecked)
           /\ DocumentsOf(f) = Found(ranked, rechecked)
           /\ HitsOf(f) \subseteq ToSet(ranked) \cup ToSet(rechecked)
<1> DEFINE none == [d \in Document |-> 0]
           f1 == Scored(1, ranked, <<>>)
           t1 == [d \in Document |-> none[d] + Sums(d, ranked)[Len(ranked)]]
           f2 == Scored(2, rechecked, f1)
           t2 == [d \in Document |-> t1[d] + Sums(d, rechecked)[Len(rechecked)]]
<1>1. Dictionary(<<>>) /\ Tallied(<<>>, none) /\ none \in [Document -> Nat]
  BY DEF Dictionary, Tallied
<1>2. DocumentsOf(<<>>) = {} /\ HitsOf(<<>>) = {}
  BY DEF DocumentsOf, HitsOf
<1>3. /\ Dictionary(f1)
      /\ Tallied(f1, t1)
      /\ DocumentsOf(f1) = DocumentsOf(<<>>) \cup {h.document : h \in ToSet(ranked)}
      /\ HitsOf(f1) \subseteq HitsOf(<<>>) \cup ToSet(ranked)
  <2> HIDE DEF none
  <2> QED BY <1>1, ScoredTallies
<1>4. \A d \in Document :
         /\ Sums(d, ranked)[Len(ranked)] \in Nat
         /\ Sums(d, rechecked)[Len(rechecked)] \in Nat
  <2> TAKE d \in Document
  <2>1. Len(ranked) \in Nat /\ Len(rechecked) \in Nat
    OBVIOUS
  <2>2. Sums(d, ranked) \in [0..Len(ranked) -> Nat]
    BY <2>1, SumsFit
  <2>3. Sums(d, rechecked) \in [0..Len(rechecked) -> Nat]
    BY <2>1, SumsFit
  <2> QED BY <2>1, <2>2, <2>3
<1>5. t1 \in [Document -> Nat]
  BY <1>4
<1>6. /\ Dictionary(f2)
      /\ Tallied(f2, t2)
      /\ DocumentsOf(f2) = DocumentsOf(f1) \cup {h.document : h \in ToSet(rechecked)}
      /\ HitsOf(f2) \subseteq HitsOf(f1) \cup ToSet(rechecked)
  <2> HIDE DEF t1, f1
  <2> QED BY <1>3, <1>5, ScoredTallies
<1>7. f2 = Fused(ranked, rechecked)
  BY DEF Fused
<1>8. \A d \in Document : t2[d] = ScoreOf(d, ranked, rechecked)
  BY <1>4 DEF ScoreOf
<1> HIDE DEF t2, f2, t1, f1
<1>9. \A k \in DOMAIN f2 : f2[k].score = ScoreOf(f2[k].hit.document, ranked, rechecked)
  <2> TAKE k \in DOMAIN f2
  <2>1. f2[k].hit.document \in Document
    BY <1>6, EntryFits DEF Dictionary, Hit
  <2> QED BY <1>6, <1>8, <2>1 DEF Tallied
<1>10. DocumentsOf(f2) = Found(ranked, rechecked)
  BY <1>2, <1>3, <1>6 DEF Found
<1>11. HitsOf(f2) \subseteq ToSet(ranked) \cup ToSet(rechecked)
  BY <1>2, <1>3, <1>6
<1> QED BY <1>6, <1>7, <1>9, <1>10, <1>11

\* A response lists the hits of the dictionaries in the order q, up to the m-th.
Lists(r, f, q, m) ==
    /\ Sorts(f, q)
    /\ m \in 0..Len(f)
    /\ m = Limit \/ m = Len(f)
    /\ r = [p \in 1..m |-> f[q[p]].hit]

\* _fuse is such a listing, with as many entries as there are or as it may have.
LEMMA FuseLists ==
    ASSUME NEW ranked \in Seq(Hit), NEW rechecked \in Seq(Hit)
    PROVE  \E q, m : Lists(Fuse(ranked, rechecked), Fused(ranked, rechecked), q, m)
<1> DEFINE f == Fused(ranked, rechecked)
           m == IF Len(f) < Limit THEN Len(f) ELSE Limit
<1>1. f \in Seq(Entry)
  BY FusedTallies DEF Dictionary
<1>2. Fuse(ranked, rechecked)
        = [i \in DOMAIN First(Sorted(f), Limit) |-> First(Sorted(f), Limit)[i].hit]
  BY DEF Fuse, Fused
<1> HIDE DEF f
<1>3. Scores(f)
  BY <1>1, EntryFits DEF Scores
<1>4. PICK q : Sorts(f, q) /\ Sorted(f) = [p \in 1..Len(f) |-> f[q[p]]]
  BY <1>3, SortedSorts
<1>5. Len(Sorted(f)) = Len(f) /\ Len(f) \in Nat /\ Limit \in Nat
  BY <1>1, <1>4, RetrievalAssumption
<1>6. First(Sorted(f), Limit) = [p \in 1..m |-> Sorted(f)[p]]
  BY <1>5, FirstTakes
<1>7. \A p \in 1..m : Sorted(f)[p] = f[q[p]]
  BY <1>4, <1>5
<1>8. Fuse(ranked, rechecked) = [p \in 1..m |-> f[q[p]].hit]
  BY <1>2, <1>6, <1>7
<1>9. m \in 0..Len(f) /\ (m = Limit \/ m = Len(f))
  BY <1>5
<1> HIDE DEF m
<1>10. Lists(Fuse(ranked, rechecked), f, q, m)
  BY <1>4, <1>8, <1>9 DEF Lists
<1> QED BY <1>10 DEF f

\* What a listing is like.
LEMMA ListsFit ==
    ASSUME NEW f \in Seq(Entry), NEW r, NEW q, NEW m, Lists(r, f, q, m)
    PROVE  /\ r \in Seq(HitsOf(f))
           /\ Len(r) = m
           /\ \A p \in 1..m : p \in 1..Len(f) /\ q[p] \in DOMAIN f /\ r[p] = f[q[p]].hit
<1>1. m \in Nat /\ Len(f) \in Nat /\ m <= Len(f) /\ DOMAIN f = 1..Len(f)
  BY DEF Lists
<1>2. \A p \in 1..m : p \in 1..Len(f)
  BY <1>1
<1>3. \A p \in 1..m : q[p] \in DOMAIN f
  BY <1>1, <1>2 DEF Lists, Sorts
<1>4. \A p \in 1..m : f[q[p]].hit \in HitsOf(f)
  BY <1>3 DEF HitsOf
<1>5. r = [p \in 1..m |-> f[q[p]].hit]
  BY DEF Lists
<1>6. r \in [1..m -> HitsOf(f)]
  BY <1>4, <1>5
<1>7. r \in Seq(HitsOf(f)) /\ Len(r) = m
  BY <1>1, <1>6
<1> QED BY <1>2, <1>3, <1>5, <1>7

\* A response lists no other hits than those of the two rankings.
LEMMA FuseFits ==
    ASSUME NEW ranked \in Seq(Hit), NEW rechecked \in Seq(Hit)
    PROVE  Fuse(ranked, rechecked) \in Seq(ToSet(ranked) \cup ToSet(rechecked))
<1> DEFINE f == Fused(ranked, rechecked)
           r == Fuse(ranked, rechecked)
           S == ToSet(ranked) \cup ToSet(rechecked)
<1>1. f \in Seq(Entry) /\ HitsOf(f) \subseteq S
  BY FusedTallies DEF Dictionary
<1>2. PICK q, m : Lists(r, f, q, m)
  BY FuseLists
<1> HIDE DEF f, r, S
<1>3. r \in Seq(HitsOf(f))
  BY <1>1, <1>2, ListsFit
<1>4. r \in Seq(S)
  BY <1>1, <1>3
<1> QED BY <1>4 DEF r, S

\* The response of a hybrid search is as reciprocal-rank fusion demands, for all
\* rankings.
LEMMA FuseRanks ==
    ASSUME NEW ranked \in Seq(Hit), NEW rechecked \in Seq(Hit)
    PROVE  RanksByScore(Fuse(ranked, rechecked), ranked, rechecked)
<1> DEFINE f == Fused(ranked, rechecked)
           r == Fuse(ranked, rechecked)
           found == {h.document : h \in ToSet(ranked) \cup ToSet(rechecked)}
           listed == {h.document : h \in ToSet(r)}
           score == [d \in found |-> ScoreOf(d, ranked, rechecked)]
<1>1. /\ Dictionary(f)
      /\ \A k \in DOMAIN f : f[k].score = ScoreOf(f[k].hit.document, ranked, rechecked)
      /\ DocumentsOf(f) = found
  BY FusedTallies DEF Found
<1>2. PICK q, m : Lists(r, f, q, m)
  BY FuseLists
<1> HIDE DEF f, r
<1>3. /\ f \in Seq(Entry) /\ Len(f) \in Nat /\ DOMAIN f = 1..Len(f)
      /\ m \in Nat /\ m <= Len(f)
  BY <1>1, <1>2 DEF Dictionary, Lists
<1>4. m = Limit \/ m = Len(f)
  BY <1>2 DEF Lists
<1>5. /\ Len(r) = m /\ r \in Seq(HitsOf(f))
      /\ \A p \in 1..m : p \in 1..Len(f) /\ q[p] \in DOMAIN f /\ r[p] = f[q[p]].hit
  BY <1>2, <1>3, ListsFit
<1> DEFINE doc == [p \in 1..Len(f) |-> f[q[p]].hit.document]
<1>6. DOMAIN r = 1..m
  BY <1>3, <1>5
<1>7. \A p \in 1..m : p \in 1..Len(f) /\ r[p].document = doc[p]
  BY <1>5
<1>8. listed = {doc[p] : p \in 1..m}
  <2>1. ToSet(r) = {r[p] : p \in 1..m}
    BY <1>6 DEF ToSet
  <2>2. listed = {r[p].document : p \in 1..m}
    BY <2>1
  <2> HIDE DEF listed, doc
  <2> QED BY <1>7, <2>2
<1>9. found = {doc[p] : p \in 1..Len(f)}
  <2>1. found = {f[k].hit.document : k \in 1..Len(f)}
    BY <1>1, <1>3 DEF DocumentsOf
  <2> HIDE DEF found
  <2>2. ASSUME NEW d \in found PROVE \E p \in 1..Len(f) : d = doc[p]
    <3>1. PICK k \in 1..Len(f) : d = f[k].hit.document
      BY <2>1
    <3>2. PICK p \in 1..Len(f) : q[p] = k
      BY <1>2 DEF Lists, Sorts
    <3> QED BY <3>1, <3>2
  <2>3. ASSUME NEW p \in 1..Len(f) PROVE doc[p] \in found
    <3>1. q[p] \in 1..Len(f)
      BY <1>2 DEF Lists, Sorts
    <3> QED BY <2>1, <3>1
  <2> QED BY <2>2, <2>3
<1>10. \A p, o \in 1..Len(f) : doc[p] = doc[o] => p = o
  BY <1>1, <1>2, <1>3 DEF Lists, Sorts, Dictionary
<1>11. ASSUME NEW p \in 1..Len(f), NEW o \in 1..Len(f), p < o
       PROVE  score[doc[p]] >= score[doc[o]]
  <2>1. doc[p] \in found /\ doc[o] \in found
    BY <1>9
  <2> HIDE DEF found
  <2>2. q[p] \in DOMAIN f /\ q[o] \in DOMAIN f /\ f[q[p]].score >= f[q[o]].score
    BY <1>2, <1>3, <1>11 DEF Lists, Sorts
  <2>3. f[q[p]].score = score[doc[p]] /\ f[q[o]].score = score[doc[o]]
    BY <1>1, <2>1, <2>2
  <2> QED BY <2>2, <2>3
<1>12. \A d \in found : score[d] \in Nat
  <2> SUFFICES ASSUME NEW d \in found PROVE score[d] \in Nat
    OBVIOUS
  <2>1. PICK k \in DOMAIN f : d = f[k].hit.document
    BY <1>1 DEF DocumentsOf
  <2>2. f[k].score \in Nat
    BY <1>3, EntryFits
  <2>3. score[d] = f[k].score
    BY <1>1, <2>1
  <2> QED BY <2>2, <2>3
<1> HIDE DEF doc, found, listed, score
<1>13. Cardinality(listed) = Len(r)
  <2> DEFINE b == [p \in 1..m |-> doc[p]]
  <2>1. b \in Bijection(1..m, listed)
    <3>1. b \in [1..m -> listed]
      BY <1>8
    <3>2. \A p, o \in 1..m : b[p] = b[o] => p = o
      BY <1>7, <1>10
    <3>3. \A d \in listed : \E p \in 1..m : b[p] = d
      BY <1>8
    <3> HIDE DEF b
    <3> QED BY <3>1, <3>2, <3>3 DEF Bijection, Injection, Surjection, IsInjective
  <2>2. ExistsBijection(1..m, listed)
    BY <2>1 DEF ExistsBijection
  <2>3. IsFiniteSet(1..m) /\ Cardinality(1..m) = m
    <3>1. IsFiniteSet(1..m) /\ Cardinality(1..m) = IF 1 > m THEN 0 ELSE m - 1 + 1
      BY <1>3, FS_Interval
    <3> QED BY <1>3, <3>1
  <2>4. Cardinality(listed) = Cardinality(1..m)
    BY <2>2, <2>3, FS_Bijection
  <2> QED BY <1>5, <2>3, <2>4
<1>14. Len(r) = Limit \/ listed = found
  BY <1>5, <1>8, <1>9, <1>4
<1>15. \A i, j \in DOMAIN r : i < j => score[r[i].document] >= score[r[j].document]
  <2>1. \A i \in DOMAIN r : i \in 1..Len(f) /\ r[i].document = doc[i]
    BY <1>6, <1>7
  <2> QED BY <1>11, <2>1
<1>16. \A d \in found \ listed : \A e \in listed : score[d] <= score[e]
  <2> SUFFICES ASSUME NEW d \in found \ listed, NEW e \in listed
               PROVE  score[d] <= score[e]
    OBVIOUS
  <2>1. PICK p \in 1..Len(f) : d = doc[p]
    BY <1>9
  <2>2. PICK o \in 1..m : e = doc[o]
    BY <1>8
  <2>3. p \notin 1..m
    BY <1>8, <2>1
  <2>4. o \in 1..Len(f)
    BY <1>7
  <2>5. o < p
    BY <1>3, <2>3, <2>4
  <2>6. score[doc[o]] >= score[doc[p]]
    BY <1>11, <2>4, <2>5
  <2>7. e \in found
    BY <1>9, <2>2, <2>4
  <2>8. score[d] \in Nat /\ score[e] \in Nat
    BY <1>12, <2>7
  <2> QED BY <2>1, <2>2, <2>6, <2>8
<1> QED BY <1>13, <1>14, <1>15, <1>16 DEF RanksByScore, r, score, found, listed

-----------------------------------------------------------------------------
(* The invariant.                                                          *)

\* The row that a hit is read from, with its version.
RowOf(h) == <<<<h.document, h.record>>, h.version>>
AllSeen(s) == \A i \in DOMAIN s : RowOf(s[i]) \in seen

IInv ==
    /\ TypeOK
    /\ AllSeen(keyword) /\ AllSeen(results)
    /\ pc = "idle" => keyword = <<>> /\ results = <<>>
    /\ pc # "idle" => Passing \subseteq seen
    /\ pc \notin {"done", "unavailable"} => answer = NoAnswer
    /\ AnswersAreGrounded

-----------------------------------------------------------------------------
(* What is read, and what a response is put together from.                 *)

\* The types of the tables.
TablesOK ==
    /\ latest \in [Document -> Nat \ {0}]
    /\ record \in [Document -> [RecordType -> Nat]]
    /\ matching \subseteq Item

\* A row that passes the filter has a version, and its hit says which row it is.
LEMMA PassingRows ==
    ASSUME TablesOK
    PROVE  /\ Passing \subseteq Item \X (Nat \ {0})
           /\ \A i \in matching : Exists(i) => /\ HitOf(i) \in Hit
                                               /\ RowOf(HitOf(i)) = <<i, VersionOf(i)>>
                                               /\ RowOf(HitOf(i)) \in Passing
<1>1. ASSUME NEW i \in matching, Exists(i)
      PROVE  /\ HitOf(i) \in Hit
             /\ RowOf(HitOf(i)) = <<i, VersionOf(i)>>
             /\ i \in Item /\ VersionOf(i) \in Nat \ {0}
  <2>1. i \in Item /\ i[1] \in Document /\ i[2] \in RecordType \cup {Raw} /\ i = <<i[1], i[2]>>
    BY DEF TablesOK, Item
  <2>2. VersionOf(i) \in Nat
    <3>1. CASE i[2] = Raw
      BY <2>1, <3>1 DEF TablesOK, VersionOf
    <3>2. CASE i[2] # Raw
      BY <2>1, <3>2 DEF TablesOK, VersionOf
    <3> QED BY <3>1, <3>2
  <2>3. VersionOf(i) \in Nat \ {0}
    BY <1>1, <2>2 DEF Exists
  <2>4. HitOf(i) = [document |-> i[1], version |-> VersionOf(i), record |-> i[2]]
    BY DEF HitOf
  <2>5. HitOf(i) \in Hit
    BY <2>1, <2>3, <2>4 DEF Hit
  <2>6. RowOf(HitOf(i)) = <<i, VersionOf(i)>>
    BY <2>1, <2>4 DEF RowOf
  <2> QED BY <2>1, <2>3, <2>5, <2>6
<1>2. Passing = {<<i, VersionOf(i)>> : i \in {j \in matching : Exists(j)}}
  BY DEF Passing
<1> QED BY <1>1, <1>2

\* The hits of the tenant's documents that pass the filter are seen.
LEMMA RecheckedSeen ==
    ASSUME TypeOK, Passing \subseteq seen, NEW points \in Seq(Document \cup Foreign)
    PROVE  Rechecked(points) \in Seq(Hit) /\ AllSeen(Rechecked(points))
<1>1. Rechecked(points) \in Seq(PassingHits)
  BY RecheckedFits
<1>2. PassingHits \subseteq Hit
  BY PassingHitsFit
<1>3. ASSUME NEW h \in PassingHits PROVE RowOf(h) \in seen
  <2>1. PICK d \in Document : <<d, Raw>> \in matching /\ h = HitOf(<<d, Raw>>)
    BY DEF PassingHits
  <2>2. Exists(<<d, Raw>>)
    <3>1. VersionOf(<<d, Raw>>) = latest[d]
      BY DEF VersionOf
    <3>2. latest[d] \in Nat \ {0}
      BY DEF TypeOK
    <3> QED BY <3>1, <3>2 DEF Exists
  <2> QED BY <2>1, <2>2, PassingRows DEF TypeOK, TablesOK
<1> DEFINE r == Rechecked(points)
<1> HIDE DEF r
<1>4. r \in Seq(PassingHits) => r \in Seq(Hit) /\ AllSeen(r)
  BY <1>2, <1>3 DEF AllSeen
<1> QED BY <1>1, <1>4 DEF r

\* A ranking of keywords ranks rows of the view.
LEMMA SearchedFits ==
    ASSUME TypeOK, NEW view, NEW s \in SetToAllKPermutations(Searched(view))
    PROVE  s \in Seq(Searched(view))
<1>1. IsFiniteSet(Item)
  <2>1. IsFiniteSet(RecordType \cup {Raw})
    BY RetrievalAssumption, FS_AddElement
  <2> QED BY <2>1, RetrievalAssumption, FS_Product DEF Item
<1>2. Searched(view) \in SUBSET Item
  BY DEF Searched, TypeOK
<1>3. PICK T \in SUBSET Searched(view) : s \in SetToSeqs(T)
  BY DEF SetToAllKPermutations
<1>4. T \in SUBSET Item
  BY <1>2, <1>3
<1>5. Cardinality(T) \in Nat
  BY <1>1, <1>4, FS_Subset, FS_CardinalityType
<1>6. s \in [1..Cardinality(T) -> T]
  BY <1>3 DEF SetToSeqs
<1> QED BY <1>3, <1>5, <1>6

\* The answer of Qdrant names documents, of the tenant or not.
LEMMA PointsFit ==
    ASSUME NEW s \in SetToAllKPermutations(Document \cup Foreign)
    PROVE  s \in Seq(Document \cup Foreign)
<1>1. IsFiniteSet(Document \cup Foreign)
  BY RetrievalAssumption, FS_Union
<1>2. PICK T \in SUBSET (Document \cup Foreign) : s \in SetToSeqs(T)
  BY DEF SetToAllKPermutations
<1>3. Cardinality(T) \in Nat
  BY <1>1, FS_Subset, FS_CardinalityType
<1>4. s \in [1..Cardinality(T) -> T]
  BY <1>2 DEF SetToSeqs
<1> QED BY <1>2, <1>3, <1>4

LEMMA FirstFits ==
    ASSUME NEW S, NEW s \in Seq(S), NEW n \in Nat
    PROVE  /\ First(s, n) \in Seq(S)
           /\ \A i \in DOMAIN First(s, n) : i \in DOMAIN s /\ First(s, n)[i] = s[i]
<1> DEFINE m == IF Len(s) < n THEN Len(s) ELSE n
<1>1. Len(s) \in Nat /\ m \in Nat /\ m <= Len(s) /\ DOMAIN s = 1..Len(s)
  OBVIOUS
<1>2. First(s, n) = [i \in 1..m |-> s[i]]
  BY <1>1, FirstTakes
<1> HIDE DEF m
<1> QED BY <1>1, <1>2

\* A response that is sorted by date lists the same hits.
LEMMA OrderedFits ==
    ASSUME NEW S, NEW s \in Seq(S), NEW r \in Ordered(s)
    PROVE  r \in Seq(S)
<1>1. CASE r = s
  BY <1>1
<1>2. ASSUME NEW p \in Bijection(DOMAIN s, DOMAIN s), r = [i \in DOMAIN s |-> s[p[i]]]
      PROVE  r \in Seq(S)
  <2>1. p \in [DOMAIN s -> DOMAIN s]
    BY DEF Bijection, Injection
  <2>2. DOMAIN s = 1..Len(s) /\ Len(s) \in Nat
    OBVIOUS
  <2> QED BY <1>2, <2>1, <2>2
<1> QED BY <1>1, <1>2 DEF Ordered

\* What a response is put together from are hits of the keyword results and of
\* the rechecked candidates.
LEMMA RespondFits ==
    ASSUME IInv, NEW rechecked \in Seq(Hit), AllSeen(rechecked),
           Respond(rechecked)
    PROVE  /\ results' \in Seq(Hit)
           /\ \A i \in DOMAIN results' : RowOf(results'[i]) \in seen
           /\ pc' \in {"drafting", "done"}
<1> DEFINE S == {h \in Hit : RowOf(h) \in seen}
<1>1. keyword \in Seq(Hit) /\ AllSeen(keyword) /\ Limit \in Nat
  BY RetrievalAssumption DEF IInv, TypeOK
<1>2. keyword \in Seq(S) /\ rechecked \in Seq(S)
  BY <1>1 DEF AllSeen
<1>3. ASSUME results' = keyword PROVE results' \in Seq(S)
  BY <1>2, <1>3
<1>4. ASSUME results' = First(rechecked, Limit) PROVE results' \in Seq(S)
  BY <1>1, <1>2, <1>4, FirstFits
<1>5. ASSUME results' \in Ordered(Fuse(keyword, rechecked)) PROVE results' \in Seq(S)
  <2>1. Fuse(keyword, rechecked) \in Seq(ToSet(keyword) \cup ToSet(rechecked))
    BY <1>1, FuseFits
  <2>2. ToSet(keyword) \cup ToSet(rechecked) \subseteq S
    BY <1>2 DEF ToSet
  <2>3. Fuse(keyword, rechecked) \in Seq(S)
    <3> HIDE DEF S
    <3> QED BY <2>1, <2>2
  <2> QED BY <1>5, <2>3, OrderedFits
<1>6. results' \in Seq(S)
  BY <1>3, <1>4, <1>5 DEF Respond
<1>7. pc' \in {"drafting", "done"}
  BY DEF Respond
<1> QED BY <1>6, <1>7

\* The rows that pass now are rows with a version.
PassingOK == Passing \subseteq Item \X (Nat \ {0})

LEMMA PassingType == TablesOK => PassingOK
BY PassingRows DEF PassingOK

LEMMA PassingTypeNext == TablesOK' => PassingOK'
BY PassingType, PTL

-----------------------------------------------------------------------------
(* Answers.                                                                *)

\* No answer and an answer without evidence cite nothing.
LEMMA NothingIsGrounded ==
    ASSUME NEW a, a \in {NoAnswer, Insufficient}
    PROVE  /\ a.status \in {"none", "insufficient_evidence"}
           /\ a.claims = <<>> /\ a.citations = {}
BY DEF NoAnswer, Insufficient

\* An answer a with n results.
Answered(a, n) ==
    /\ a.status = "answered"
    /\ Len(a.claims) \in 1..MaxClaims
    /\ \A i \in DOMAIN a.claims : Cardinality(a.claims[i]) >= MinCitations
    /\ a.citations = UNION {a.claims[i] : i \in DOMAIN a.claims}
    /\ a.citations \subseteq 1..n

\* _validate_claims returns nothing else.
LEMMA ValidatedFits ==
    ASSUME NEW k \in Nat, NEW S, NEW claims \in SeqOf(S, k)
    PROVE  \/ Validated(claims) = Insufficient
           \/ Answered(Validated(claims), Len(results))
<1> DEFINE n == Len(results)
           a == [status |-> "answered",
                 claims |-> [i \in DOMAIN claims |-> ToSet(claims[i])],
                 citations |-> UNION {ToSet(claims[i]) : i \in DOMAIN claims}]
<1>1. PICK m \in 0..k : claims \in [1..m -> S]
  BY DEF SeqOf
<1>2. m \in Nat /\ Len(claims) = m /\ DOMAIN claims = 1..m
  BY <1>1
<1> SUFFICES ASSUME Validated(claims) # Insufficient
             PROVE  Answered(Validated(claims), n)
  OBVIOUS
<1>3. /\ claims # <<>> /\ Len(claims) <= MaxClaims
      /\ \A i \in DOMAIN claims : Supported(claims[i], n)
      /\ Validated(claims) = a
  BY <1>2, RetrievalAssumption DEF Validated
<1>4. m # 0
  BY <1>1, <1>2, <1>3
<1>5. /\ a.status = "answered"
      /\ a.claims = [i \in 1..m |-> ToSet(claims[i])]
      /\ a.citations = UNION {ToSet(claims[i]) : i \in 1..m}
  BY <1>2
<1> HIDE DEF a
<1>6. Len(a.claims) = m /\ DOMAIN a.claims = 1..m
  BY <1>2, <1>5
<1>7. \A i \in 1..m : a.claims[i] = ToSet(claims[i])
  BY <1>5
<1>8. Len(a.claims) \in 1..MaxClaims
  BY <1>2, <1>3, <1>4, <1>6, RetrievalAssumption
<1>9. \A i \in 1..m : /\ Cardinality(a.claims[i]) >= MinCitations
                      /\ a.claims[i] \subseteq 1..n
  BY <1>2, <1>3, <1>7 DEF Supported
<1>10. a.citations = UNION {a.claims[i] : i \in 1..m}
  BY <1>5, <1>7
<1>11. a.citations \subseteq 1..n
  BY <1>9, <1>10
<1> QED BY <1>3, <1>5, <1>6, <1>8, <1>9, <1>10, <1>11 DEF Answered

\* An answer of the shapes above is grounded.
LEMMA Grounded ==
    ASSUME results \in Seq(Hit),
           answer \in {NoAnswer, Insufficient} \/ Answered(answer, Len(results))
    PROVE  /\ AnswersAreGrounded
           /\ answer.status \in {"none", "answered", "insufficient_evidence"}
<1>1. CASE answer \in {NoAnswer, Insufficient}
  BY <1>1, NothingIsGrounded DEF AnswersAreGrounded
<1>2. CASE Answered(answer, Len(results))
  <2>1. DOMAIN results = 1..Len(results)
    OBVIOUS
  <2> QED BY <1>2, <2>1 DEF AnswersAreGrounded, Answered
<1> QED BY <1>1, <1>2

-----------------------------------------------------------------------------
(* The steps.                                                              *)

\* What the conjuncts of the invariant are about.
SearchOK ==
    /\ pc \in {"idle", "keyword", "candidates", "recheck", "fusing", "drafting",
               "done", "unavailable"}
    /\ request \in Request
    /\ keyword \in Seq(Hit) /\ results \in Seq(Hit)
    /\ candidates \in Seq(Document \cup Foreign)
    /\ available \in BOOLEAN
AnswerOK == answer.status \in {"none", "answered", "insufficient_evidence"}

LEMMA TypeParts ==
    TypeOK <=> /\ TablesOK /\ changes \in 0..MaxChanges
               /\ SearchOK /\ AnswerOK /\ seen \subseteq Item \X (Nat \ {0})
BY DEF TypeOK, TablesOK, SearchOK, AnswerOK

LEMMA InitInv == Init => IInv
<1> SUFFICES ASSUME Init PROVE IInv
  OBVIOUS
<1>1. TablesOK
  BY DEF Init, TablesOK
<1>2. SearchOK
  <2>1. request \in Request
    BY DEF Init, Request, ModeOf
  <2>2. /\ pc = "idle" /\ available = FALSE
        /\ keyword = <<>> /\ results = <<>> /\ candidates = <<>>
    BY DEF Init
  <2>3. keyword \in Seq(Hit) /\ results \in Seq(Hit)
    BY <2>2
  <2>4. candidates \in Seq(Document \cup Foreign)
    BY <2>2
  <2> QED BY <2>1, <2>2, <2>3, <2>4 DEF SearchOK
<1>3. AnswerOK /\ AnswersAreGrounded
  <2>1. results \in Seq(Hit) /\ answer = NoAnswer
    BY DEF Init
  <2> QED BY <2>1, Grounded DEF AnswerOK
<1>4. TypeOK
  BY <1>1, <1>2, <1>3, TypeParts, RetrievalAssumption DEF Init
<1>5. keyword = <<>> /\ results = <<>> /\ pc = "idle" /\ answer = NoAnswer
  BY DEF Init
<1> QED BY <1>3, <1>4, <1>5 DEF IInv, AllSeen

\* The tables change beside the search.
LEMMA ChangeInv ==
    ASSUME IInv, TablesOK', changes' \in 0..MaxChanges, Noted,
           UNCHANGED <<pc, request, search, answer>>
    PROVE  IInv'
<1>1. seen' \subseteq Item \X (Nat \ {0})
  <2>1. Passing' \subseteq Item \X (Nat \ {0})
    BY PassingTypeNext DEF PassingOK
  <2> QED BY <2>1 DEF IInv, TypeOK, Noted
<1>2. /\ pc' = pc /\ request' = request /\ keyword' = keyword /\ results' = results
      /\ candidates' = candidates /\ available' = available /\ answer' = answer
  BY DEF search
<1>3. TypeOK'
  BY <1>1, <1>2 DEF IInv, TypeOK, TablesOK
<1>4. AnswersAreGrounded'
  BY <1>2 DEF IInv, AnswersAreGrounded
<1>5. CASE pc = "idle"
  BY <1>2, <1>3, <1>4, <1>5 DEF IInv, AllSeen
<1>6. CASE pc # "idle"
  <2>1. seen' = seen \cup Passing'
    BY <1>6 DEF Noted
  <2>2. AllSeen(keyword)' /\ AllSeen(results)'
    BY <1>2, <2>1 DEF IInv, AllSeen, RowOf
  <2>3. Passing' \subseteq seen'
    BY <2>1
  <2> QED BY <1>2, <1>3, <1>4, <1>6, <2>2, <2>3 DEF IInv
<1> QED BY <1>5, <1>6

LEMMA NewVersionInv ==
    ASSUME IInv, NEW d \in Document, NEW t \in RecordType, NewVersion(d, t)
    PROVE  IInv'
<1>1. TablesOK
  BY DEF IInv, TypeOK, TablesOK
<1>2. latest' \in [Document -> Nat \ {0}] /\ latest'[d] \in Nat
  BY <1>1 DEF NewVersion, TablesOK
<1>3. record' \in [Document -> [RecordType -> Nat]]
  <2>1. record' = [record EXCEPT ![d] = [record[d] EXCEPT ![t] = latest'[d]]]
    BY <1>1 DEF NewVersion, TablesOK
  <2>2. record[d] \in [RecordType -> Nat]
    BY <1>1 DEF TablesOK
  <2>3. [record[d] EXCEPT ![t] = latest'[d]] \in [RecordType -> Nat]
    BY <1>2, <2>2
  <2> QED BY <1>1, <2>1, <2>3 DEF TablesOK
<1>4. TablesOK' /\ Noted /\ changes' \in 0..MaxChanges
  <2>1. changes \in 0..MaxChanges
    BY DEF IInv, TypeOK
  <2> QED BY <1>1, <1>2, <1>3, <2>1, RetrievalAssumption DEF NewVersion, Change, TablesOK
<1>5. UNCHANGED <<pc, request, search, answer>>
  BY DEF NewVersion, Change
<1> QED BY <1>4, <1>5, ChangeInv

LEMMA RetagInv ==
    ASSUME IInv, NEW item \in Item, Retag(item)
    PROVE  IInv'
<1>1. TablesOK /\ changes \in 0..MaxChanges
  BY DEF IInv, TypeOK, TablesOK
<1>2. TablesOK' /\ Noted /\ changes' \in 0..MaxChanges
  BY <1>1, RetrievalAssumption DEF Retag, Change, TablesOK
<1>3. UNCHANGED <<pc, request, search, answer>>
  BY DEF Retag, Change
<1> QED BY <1>2, <1>3, ChangeInv

\* The search goes on beside the tables: what is left to show of a step that
\* leaves the tables and the rows seen as they are.
LEMMA SearchInv ==
    ASSUME IInv, UNCHANGED <<tables, seen>>, pc # "idle", pc' # "idle",
           SearchOK', AnswerOK', AnswersAreGrounded',
           \A i \in DOMAIN keyword' : RowOf(keyword'[i]) \in seen,
           \A i \in DOMAIN results' : RowOf(results'[i]) \in seen,
           pc' \notin {"done", "unavailable"} => answer' = NoAnswer
    PROVE  IInv'
<1>1. /\ latest' = latest /\ record' = record /\ matching' = matching
      /\ changes' = changes /\ seen' = seen
  BY DEF tables
<1>2. TypeOK'
  BY <1>1 DEF IInv, TypeOK, SearchOK, AnswerOK
<1>3. Passing' = Passing
  BY <1>1 DEF Passing, Exists, VersionOf
<1>4. AllSeen(keyword)' /\ AllSeen(results)'
  BY <1>1 DEF AllSeen, RowOf
<1> QED BY <1>1, <1>2, <1>3, <1>4 DEF IInv

\* An answer that stays is as grounded as it was, unless the results change.
LEMMA SameAnswer ==
    ASSUME IInv, answer' = answer, results' = results \/ answer = NoAnswer
    PROVE  AnswerOK' /\ AnswersAreGrounded'
<1>1. AnswerOK'
  BY DEF IInv, TypeOK, AnswerOK
<1>2. CASE results' = results
  BY <1>1, <1>2 DEF IInv, AnswersAreGrounded
<1>3. CASE answer = NoAnswer
  <2>1. answer'.status = "none" /\ answer'.claims = <<>> /\ answer'.citations = {}
    BY <1>3 DEF NoAnswer
  <2> QED BY <1>1, <2>1 DEF AnswersAreGrounded
<1> QED BY <1>2, <1>3

LEMMA BeginInv ==
    ASSUME IInv, NEW q \in Request, Begin(q)
    PROVE  IInv'
<1>1. /\ latest' = latest /\ record' = record /\ matching' = matching
      /\ changes' = changes /\ seen' = Passing /\ pc = "idle"
      /\ keyword' = keyword /\ results' = results /\ answer' = answer
      /\ candidates' = candidates /\ request' = q
      /\ pc' \in {"keyword", "candidates", "unavailable"}
  BY DEF Begin, tables
<1>2. available' \in BOOLEAN
  BY DEF Begin, Semantic, Request
<1>3. keyword = <<>> /\ results = <<>> /\ answer = NoAnswer
  BY <1>1 DEF IInv
<1>4. Passing \subseteq Item \X (Nat \ {0})
  BY PassingType DEF PassingOK, IInv, TypeOK, TablesOK
<1>5. TypeOK'
  BY <1>1, <1>2, <1>4 DEF IInv, TypeOK
<1>6. Passing' = Passing
  BY <1>1 DEF Passing, Exists, VersionOf
<1>7. AllSeen(keyword)' /\ AllSeen(results)'
  BY <1>1, <1>3 DEF AllSeen
<1>8. AnswersAreGrounded'
  BY <1>1, SameAnswer
<1> QED BY <1>1, <1>3, <1>5, <1>6, <1>7, <1>8 DEF IInv

LEMMA KeywordInv ==
    ASSUME IInv, NEW ranking \in SetToAllKPermutations(Searched(request.view)),
           Keyword(ranking)
    PROVE  IInv'
<1>1. ranking \in Seq(Searched(request.view))
  BY SearchedFits DEF IInv
<1>2. ASSUME NEW i \in 1..Len(ranking)
      PROVE  HitOf(ranking[i]) \in Hit /\ RowOf(HitOf(ranking[i])) \in seen
  <2>1. ranking[i] \in matching /\ Exists(ranking[i])
    BY <1>1 DEF Searched
  <2>2. TablesOK
    BY DEF IInv, TypeOK, TablesOK
  <2>3. Passing \subseteq seen
    BY DEF IInv, Keyword
  <2> QED BY <2>1, <2>2, <2>3, PassingRows
<1>3. /\ keyword' = [i \in 1..Len(ranking) |-> HitOf(ranking[i])]
      /\ pc = "keyword" /\ pc' \in {"candidates", "fusing"}
      /\ UNCHANGED <<tables, seen>>
      /\ request' = request /\ candidates' = candidates /\ available' = available
      /\ results' = results /\ answer' = answer
  BY DEF Keyword
<1>4. keyword' \in Seq(Hit) /\ \A i \in DOMAIN keyword' : RowOf(keyword'[i]) \in seen
  <2>1. Len(ranking) \in Nat
    BY <1>1
  <2> QED BY <1>2, <1>3, <2>1
<1>5. SearchOK'
  BY <1>3, <1>4 DEF SearchOK, IInv, TypeOK
<1>6. AnswerOK' /\ AnswersAreGrounded'
  BY <1>3, SameAnswer
<1>7. answer = NoAnswer /\ \A i \in DOMAIN results : RowOf(results[i]) \in seen
  BY <1>3 DEF IInv, AllSeen
<1> QED BY <1>3, <1>4, <1>5, <1>6, <1>7, SearchInv

\* A step that only moves the program counter, the candidates and the flag.
LEMMA OnlyCandidates ==
    ASSUME IInv, pc = "candidates", pc' \in {"recheck", "fusing", "unavailable"},
           UNCHANGED <<tables, request, keyword, results, answer, seen>>,
           candidates' \in Seq(Document \cup Foreign), available' \in BOOLEAN
    PROVE  IInv'
<1>1. SearchOK'
  BY DEF SearchOK, IInv, TypeOK
<1>2. AnswerOK' /\ AnswersAreGrounded'
  BY SameAnswer
<1>3. answer = NoAnswer /\ UNCHANGED <<tables, seen>>
  BY DEF IInv
<1>4. /\ \A i \in DOMAIN keyword' : RowOf(keyword'[i]) \in seen
      /\ \A i \in DOMAIN results' : RowOf(results'[i]) \in seen
  BY DEF IInv, AllSeen
<1> QED BY <1>1, <1>2, <1>3, <1>4, SearchInv

LEMMA CandidatesInv ==
    ASSUME IInv, NEW points \in SetToAllKPermutations(Document \cup Foreign),
           Candidates(points)
    PROVE  IInv'
<1>1. points \in Seq(Document \cup Foreign) /\ available \in BOOLEAN
  BY PointsFit DEF IInv, TypeOK
<1> QED BY <1>1, OnlyCandidates DEF Candidates

LEMMA NoCandidatesInv ==
    ASSUME IInv, NoCandidates
    PROVE  IInv'
<1>1. candidates \in Seq(Document \cup Foreign)
  BY DEF IInv, TypeOK
<1> QED BY <1>1, OnlyCandidates DEF NoCandidates

\* The two ways to the response.
LEMMA RespondInv ==
    ASSUME IInv, NEW rechecked \in Seq(Hit), AllSeen(rechecked),
           pc \in {"recheck", "fusing"}, Respond(rechecked),
           UNCHANGED <<tables, request, keyword, candidates, available, answer, seen>>
    PROVE  IInv'
<1>1. /\ results' \in Seq(Hit) /\ pc' \in {"drafting", "done"}
      /\ \A i \in DOMAIN results' : RowOf(results'[i]) \in seen
  BY RespondFits
<1>2. SearchOK'
  BY <1>1 DEF SearchOK, IInv, TypeOK
<1>3. answer = NoAnswer /\ UNCHANGED <<tables, seen>>
  BY DEF IInv
<1>4. AnswerOK' /\ AnswersAreGrounded'
  BY <1>3, SameAnswer
<1>5. \A i \in DOMAIN keyword' : RowOf(keyword'[i]) \in seen
  BY DEF IInv, AllSeen
<1> QED BY <1>1, <1>2, <1>3, <1>4, <1>5, SearchInv

LEMMA RecheckInv ==
    ASSUME IInv, Recheck
    PROVE  IInv'
<1>1. Rechecked(candidates) \in Seq(Hit) /\ AllSeen(Rechecked(candidates))
  BY RecheckedSeen DEF IInv, TypeOK, Recheck
<1> QED BY <1>1, RespondInv DEF Recheck

LEMMA WithoutSemanticInv ==
    ASSUME IInv, WithoutSemantic
    PROVE  IInv'
<1>1. <<>> \in Seq(Hit) /\ AllSeen(<<>>)
  BY DEF AllSeen
<1> QED BY <1>1, RespondInv DEF WithoutSemantic

LEMMA DraftInv ==
    ASSUME IInv, NEW claims \in SeqOf(Claim(Len(results)), MaxClaims + 1), Draft(claims)
    PROVE  IInv'
<1>1. /\ pc = "drafting" /\ pc' = "done" /\ UNCHANGED <<tables, seen>>
      /\ request' = request /\ keyword' = keyword /\ candidates' = candidates
      /\ available' = available /\ results' = results
  BY DEF Draft, search
<1>2. SearchOK'
  BY <1>1 DEF SearchOK, IInv, TypeOK
<1>3. answer' = Insufficient \/ Answered(answer', Len(results))
  <2>1. MaxClaims + 1 \in Nat
    BY RetrievalAssumption
  <2>2. \/ Validated(claims) = Insufficient
        \/ Answered(Validated(claims), Len(results))
    BY <2>1, ValidatedFits
  <2> QED BY <2>2 DEF Draft
<1>4. AnswerOK' /\ AnswersAreGrounded'
  <2>1. results' \in Seq(Hit) /\ Len(results') = Len(results) /\ DOMAIN results' = 1..Len(results)
    BY <1>1 DEF IInv, TypeOK
  <2>2. CASE answer' = Insufficient
    BY <2>2, NothingIsGrounded DEF AnswersAreGrounded, AnswerOK
  <2>3. CASE Answered(answer', Len(results))
    BY <2>1, <2>3 DEF AnswersAreGrounded, AnswerOK, Answered
  <2> QED BY <1>3, <2>2, <2>3
<1>5. /\ \A i \in DOMAIN keyword' : RowOf(keyword'[i]) \in seen
      /\ \A i \in DOMAIN results' : RowOf(results'[i]) \in seen
  BY <1>1 DEF IInv, AllSeen
<1> QED BY <1>1, <1>2, <1>4, <1>5, SearchInv

LEMMA NoDraftInv ==
    ASSUME IInv, NoDraft
    PROVE  IInv'
<1>1. /\ pc = "drafting" /\ pc' = "unavailable" /\ UNCHANGED <<tables, seen>>
      /\ request' = request /\ keyword' = keyword /\ candidates' = candidates
      /\ available' = available /\ results' = results /\ answer' = answer
  BY DEF NoDraft, search
<1>2. SearchOK'
  BY <1>1 DEF SearchOK, IInv, TypeOK
<1>3. AnswerOK' /\ AnswersAreGrounded'
  BY <1>1, SameAnswer
<1>4. /\ \A i \in DOMAIN keyword' : RowOf(keyword'[i]) \in seen
      /\ \A i \in DOMAIN results' : RowOf(results'[i]) \in seen
  BY <1>1 DEF IInv, AllSeen
<1> QED BY <1>1, <1>2, <1>3, <1>4, SearchInv

LEMMA FailInv ==
    ASSUME IInv, Fail
    PROVE  IInv'
<1>1. /\ pc \in {"keyword", "candidates", "recheck"} /\ pc' = "unavailable" /\ results' = <<>>
      /\ UNCHANGED <<tables, seen>>
      /\ request' = request /\ keyword' = keyword /\ candidates' = candidates
      /\ available' = available /\ answer' = answer
  BY DEF Fail
<1>2. SearchOK'
  BY <1>1 DEF SearchOK, IInv, TypeOK
<1>3. AnswerOK' /\ AnswersAreGrounded'
  <2>1. answer = NoAnswer
    BY <1>1 DEF IInv
  <2> QED BY <1>1, <2>1, SameAnswer
<1>4. /\ \A i \in DOMAIN keyword' : RowOf(keyword'[i]) \in seen
      /\ \A i \in DOMAIN results' : RowOf(results'[i]) \in seen
  BY <1>1 DEF IInv, AllSeen
<1> QED BY <1>1, <1>2, <1>3, <1>4, SearchInv

LEMMA FinishInv ==
    ASSUME IInv, Finish
    PROVE  IInv'
<1>1. /\ pc' = "idle" /\ keyword' = <<>> /\ candidates' = <<>> /\ available' = FALSE
      /\ results' = <<>> /\ answer' = NoAnswer /\ seen' = {}
      /\ UNCHANGED <<tables, request>>
  BY DEF Finish
<1>2. SearchOK'
  <2>1. keyword' \in Seq(Hit) /\ results' \in Seq(Hit)
    BY <1>1
  <2>2. candidates' \in Seq(Document \cup Foreign)
    BY <1>1
  <2>3. request' \in Request
    BY <1>1 DEF IInv, TypeOK
  <2> QED BY <1>1, <2>1, <2>2, <2>3 DEF SearchOK
<1>3. AnswerOK' /\ AnswersAreGrounded'
  BY <1>1, NothingIsGrounded DEF AnswerOK, AnswersAreGrounded
<1>4. TypeOK'
  BY <1>1, <1>2, <1>3 DEF SearchOK, AnswerOK, IInv, TypeOK, tables
<1> QED BY <1>1, <1>3, <1>4 DEF IInv, AllSeen

LEMMA StepInv == IInv /\ [Next]_vars => IInv'
<1> SUFFICES ASSUME IInv, [Next]_vars PROVE IInv'
  OBVIOUS
<1>1. CASE UNCHANGED vars
  BY <1>1 DEF vars, tables, search, IInv, TypeOK, AllSeen, RowOf, Passing, Exists,
              VersionOf, AnswersAreGrounded
<1>2. CASE Next
  BY <1>2, NewVersionInv, RetagInv, BeginInv, KeywordInv, CandidatesInv,
     NoCandidatesInv, RecheckInv, WithoutSemanticInv, DraftInv, NoDraftInv, FailInv,
     FinishInv DEF Next
<1> QED BY <1>1, <1>2

LEMMA Invariance == Spec => []IInv
BY InitInv, StepInv, PTL DEF Spec

-----------------------------------------------------------------------------
(* The theorems.                                                           *)

\* The tables, the search and its response have the types of the model.
THEOREM TypeCorrect == Spec => []TypeOK
<1>1. IInv => TypeOK
  BY DEF IInv
<1> QED BY <1>1, Invariance, PTL

\* No result of a search was never a row that passed the filter while the search
\* ran, whatever the points of Qdrant are and whatever changes in between.
THEOREM ResultsFiltered == Spec => []ResultsPassTheFilter
<1>1. IInv => ResultsPassTheFilter
  BY DEF IInv, AllSeen, RowOf, ResultsPassTheFilter
<1> QED BY <1>1, Invariance, PTL

\* An answer cites enough of what was retrieved and nothing else.
THEOREM AnswersGrounded == Spec => []AnswersAreGrounded
<1>1. IInv => AnswersAreGrounded
  BY DEF IInv
<1> QED BY <1>1, Invariance, PTL

\* A hybrid response lists documents by falling sums of their reciprocal ranks,
\* for rankings of any length with any documents in common.
THEOREM FusionRanks == Spec => FusionRanksByReciprocalRanks
<1> DEFINE semantic == IF pc = "recheck" THEN Rechecked(candidates) ELSE <<>>
           Ranked == request.mode = "hybrid" /\ ~ request.newest
                       /\ pc \in {"recheck", "fusing"} /\ pc' \in {"done", "drafting"}
                     => RanksByScore(results', keyword, semantic)
<1>1. ASSUME IInv, [Next]_vars PROVE Ranked
  <2> SUFFICES ASSUME request.mode = "hybrid", ~ request.newest,
                      pc \in {"recheck", "fusing"}, pc' \in {"done", "drafting"}
               PROVE  RanksByScore(results', keyword, semantic)
    OBVIOUS
  <2>1. Respond(semantic)
    BY <1>1 DEF Next, vars, NewVersion, Retag, Change, Begin, Keyword, Candidates,
                NoCandidates, Recheck, WithoutSemantic, Draft, NoDraft, Fail, Finish
  <2>2. results' \in Ordered(Fuse(keyword, semantic))
    BY <2>1 DEF Respond
  <2>3. results' = Fuse(keyword, semantic)
    BY <2>2 DEF Ordered
  <2>4. semantic \in Seq(Hit)
    <3>1. CASE pc = "recheck"
      BY <1>1, <3>1, RecheckedSeen DEF IInv, TypeOK
    <3>2. CASE pc # "recheck"
      BY <3>2
    <3> QED BY <3>1, <3>2
  <2>5. keyword \in Seq(Hit)
    BY <1>1 DEF IInv, TypeOK
  <2> HIDE DEF semantic
  <2> QED BY <2>3, <2>4, <2>5, FuseRanks
<1> QED BY <1>1, Invariance, PTL DEF Spec, FusionRanksByReciprocalRanks

-----------------------------------------------------------------------------
(* What the second look at the candidates keeps.                           *)

Documents(hits) == {hits[j].document : j \in DOMAIN hits}

\* The first n of the points that pass the filter now.
Kept(points, n) == {points[i] : i \in {j \in 1..n : <<points[j], Raw>> \in matching}}

LEMMA DocumentsAppend ==
    ASSUME NEW hits \in Seq(Hit), NEW hit \in Hit
    PROVE  Documents(Append(hits, hit)) = Documents(hits) \cup {hit.document}
<1> DEFINE longer == Append(hits, hit)
<1>1. /\ DOMAIN longer = DOMAIN hits \cup {Len(hits) + 1}
      /\ \A j \in DOMAIN hits : longer[j] = hits[j]
      /\ longer[Len(hits) + 1] = hit
  OBVIOUS
<1> HIDE DEF longer
<1> QED BY <1>1 DEF Documents

\* documents_by_ids drops no point that passes.
LEMMA RecheckedKeeps ==
    ASSUME TypeOK, NEW points \in Seq(Document \cup Foreign)
    PROVE  Documents(Rechecked(points)) = Kept(points, Len(points))
<1>1. PICK g : /\ g = [i \in 0..Len(points) |->
                         IF i = 0 THEN <<>> ELSE KeptStep(points, i, g[i - 1])]
               /\ Rechecked(points) = g[Len(points)]
  BY RecheckedRuns
<1> DEFINE T == {i \in 0..Len(points) :
                   g[i] \in Seq(Hit) /\ Documents(g[i]) = Kept(points, i)}
<1>2. 0 \in T
  BY <1>1 DEF Documents, Kept
<1>3. ASSUME NEW i \in 1..Len(points), i - 1 \in T PROVE i \in T
  <2>1. g[i - 1] \in Seq(Hit) /\ g[i] = KeptStep(points, i, g[i - 1])
    BY <1>1, <1>3
  <2>2. Documents(g[i - 1]) = Kept(points, i - 1)
    BY <1>3
  <2>3. i \in 0..Len(points) /\ 1..i = 1..(i - 1) \cup {i}
    OBVIOUS
  <2>4. CASE <<points[i], Raw>> \in matching
    <3> DEFINE hit == HitOf(<<points[i], Raw>>)
    <3>1. points[i] \in Document
      BY <2>4 DEF TypeOK, Item
    <3>2. hit \in PassingHits
      BY <2>4, <3>1 DEF PassingHits
    <3>3. hit \in Hit
      BY <3>2, PassingHitsFit
    <3>4. hit.document = points[i]
      BY DEF HitOf
    <3>5. g[i] = Append(g[i - 1], hit)
      BY <2>1, <2>4 DEF KeptStep
    <3> HIDE DEF hit
    <3>6. g[i] \in Seq(Hit)
      BY <2>1, <3>3, <3>5
    <3>7. Documents(g[i]) = Documents(g[i - 1]) \cup {points[i]}
      BY <2>1, <3>3, <3>4, <3>5, DocumentsAppend
    <3>8. Kept(points, i) = Kept(points, i - 1) \cup {points[i]}
      BY <2>3, <2>4 DEF Kept
    <3> QED BY <2>2, <2>3, <3>6, <3>7, <3>8
  <2>5. CASE <<points[i], Raw>> \notin matching
    <3>1. g[i] = g[i - 1]
      BY <2>1, <2>5 DEF KeptStep
    <3>2. Kept(points, i) = Kept(points, i - 1)
      BY <2>3, <2>5 DEF Kept
    <3> QED BY <2>1, <2>2, <2>3, <3>1, <3>2
  <2> QED BY <2>4, <2>5
<1>4. 0..Len(points) \subseteq T
  <2> HIDE DEF T
  <2> QED BY <1>2, <1>3, Induction
<1>5. Len(points) \in T
  <2> HIDE DEF T
  <2> QED BY <1>4
<1> QED BY <1>1, <1>5

\* A semantic search may list less than its limit only because no more of the
\* candidates pass the filter when they are looked up.
SemanticSearchIsComplete ==
    [][request.mode = "semantic" /\ pc = "recheck" /\ pc' \in {"done", "drafting"}
       => \/ Len(results') = Limit
          \/ Documents(results') = Kept(candidates, Len(candidates))]_vars

\* The second look of a semantic search drops no candidate that passes.
THEOREM SemanticComplete == Spec => SemanticSearchIsComplete
<1> DEFINE Complete == request.mode = "semantic" /\ pc = "recheck"
                         /\ pc' \in {"done", "drafting"}
                       => \/ Len(results') = Limit
                          \/ Documents(results') = Kept(candidates, Len(candidates))
<1>1. ASSUME IInv, [Next]_vars PROVE Complete
  <2> SUFFICES ASSUME request.mode = "semantic", pc = "recheck",
                      pc' \in {"done", "drafting"}, Len(results') # Limit
               PROVE  Documents(results') = Kept(candidates, Len(candidates))
    OBVIOUS
  <2>1. Respond(Rechecked(candidates))
    BY <1>1 DEF Next, vars, NewVersion, Retag, Change, Begin, Keyword, Candidates,
                NoCandidates, Recheck, WithoutSemantic, Draft, NoDraft, Fail, Finish
  <2> DEFINE hits == Rechecked(candidates)
  <2>2. results' = First(hits, Limit)
    BY <2>1 DEF Respond
  <2>3. hits \in Seq(Hit)
    BY <1>1, RecheckedSeen DEF IInv, TypeOK
  <2>4. candidates \in Seq(Document \cup Foreign) /\ TypeOK
    BY <1>1 DEF IInv, TypeOK
  <2>5. Documents(hits) = Kept(candidates, Len(candidates))
    BY <2>4, RecheckedKeeps
  <2> HIDE DEF hits
  <2>6. results' = hits
    BY <2>2, <2>3, RetrievalAssumption DEF First
  <2> QED BY <2>5, <2>6
<1> QED BY <1>1, Invariance, PTL DEF Spec, SemanticSearchIsComplete
=============================================================================
