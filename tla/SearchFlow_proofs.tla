--------------------------- MODULE SearchFlow_proofs ---------------------------
(***************************************************************************)
(* Theorems about SearchFlow: what a search answers, for any searches, any *)
(* documents they find and any order in which they end.                    *)
(***************************************************************************)
EXTENDS SearchFlow, FlowEngine_proofs

-----------------------------------------------------------------------------
(* Lists.  What Arranged returns is the list of the entries at I, each     *)
(* once: the number of those before an entry is its place.                 *)

Orders(R, I) ==
    /\ \A i \in I : <<i, i>> \notin R
    /\ \A i, j \in I : i # j => <<i, j>> \in R \/ <<j, i>> \in R
    /\ \A i, j, k \in I : <<i, j>> \in R /\ <<j, k>> \in R => <<i, k>> \in R

\* The entry at each place.
Places(at, I, R) ==
    /\ at \in [1..Cardinality(I) -> I]
    /\ \A i \in I : \E k \in 1..Cardinality(I) : at[k] = i
    /\ \A k, l \in 1..Cardinality(I) : k < l => <<at[k], at[l]>> \in R

\* How many entries come before an entry.
Before(i, I, R) == {j \in I : <<j, i>> \in R}

\* More come before an entry than before any that comes before it, and never
\* all.
LEMMA BeforeGrows ==
    ASSUME NEW I, IsFiniteSet(I), NEW R, Orders(R, I)
    PROVE  /\ \A i \in I : Cardinality(Before(i, I, R)) \in 0..(Cardinality(I) - 1)
           /\ \A i, j \in I : <<i, j>> \in R => Cardinality(Before(i, I, R)) < Cardinality(Before(j, I, R))
<1>1. ASSUME NEW S, S \subseteq I, NEW T, T \subseteq S, NEW x \in S, x \notin T
      PROVE  /\ Cardinality(T) < Cardinality(S)
             /\ Cardinality(T) \in Nat /\ Cardinality(S) \in Nat
  <2>1. IsFiniteSet(S) /\ IsFiniteSet(T)
    BY <1>1, FS_Subset
  <2>2. Cardinality(T) <= Cardinality(S) /\ Cardinality(T) # Cardinality(S)
    BY <1>1, <2>1, FS_Subset
  <2>3. QED
    BY <2>1, <2>2, FS_CardinalityType
<1>2. ASSUME NEW i \in I
      PROVE  Cardinality(Before(i, I, R)) \in 0..(Cardinality(I) - 1)
  <2>1. Before(i, I, R) \subseteq I /\ i \notin Before(i, I, R)
    BY DEF Orders, Before
  <2>2. QED
    BY <1>1, <2>1
<1>3. ASSUME NEW i \in I, NEW j \in I, <<i, j>> \in R
      PROVE  Cardinality(Before(i, I, R)) < Cardinality(Before(j, I, R))
  <2>1. /\ Before(j, I, R) \subseteq I /\ Before(i, I, R) \subseteq Before(j, I, R)
        /\ i \in Before(j, I, R) /\ i \notin Before(i, I, R)
    BY <1>3 DEF Orders, Before
  <2>2. QED
    BY <1>1, <2>1
<1>4. QED
  BY <1>2, <1>3

\* Every place is an entry's: as many places as entries, and none is taken
\* twice.
LEMMA EveryPlace ==
    ASSUME NEW I, IsFiniteSet(I), NEW R, Orders(R, I), NEW k \in 1..Cardinality(I)
    PROVE  \E i \in I : Cardinality(Before(i, I, R)) = k - 1
<1> DEFINE n == Cardinality(I)
           rank == [i \in I |-> Cardinality(Before(i, I, R))]
           Ranks == 0..(n - 1)
<1>1. n \in Nat /\ n > 0
  BY FS_CardinalityType
<1>2. IsFiniteSet(Ranks) /\ Cardinality(Ranks) = n
  <2>1. ASSUME NEW m \in Nat, m > 0
        PROVE  IsFiniteSet(0..(m - 1)) /\ Cardinality(0..(m - 1)) = m
    <3>1. 0 \in Int /\ m - 1 \in Int /\ ~(0 > m - 1) /\ (m - 1) - 0 + 1 = m
      BY <2>1
    <3>2. QED
      BY <3>1, FS_Interval
  <2>2. QED
    BY <1>1, <2>1
<1>3. rank \in [I -> Ranks]
  BY BeforeGrows
<1>4. ASSUME NEW i \in I, NEW j \in I, i # j
      PROVE  rank[i] # rank[j]
  <2>1. rank[i] \in Int /\ rank[j] \in Int
    BY <1>1, <1>3
  <2>2. <<i, j>> \in R \/ <<j, i>> \in R
    BY <1>4 DEF Orders
  <2>3. rank[i] < rank[j] \/ rank[j] < rank[i]
    BY <2>2, BeforeGrows
  <2>4. QED
    BY <2>1, <2>3
<1> HIDE DEF rank, Ranks, n
<1>5. rank \in Injection(I, Ranks)
  BY <1>3, <1>4 DEF Injection, IsInjective
<1>6. rank \in Surjection(I, Ranks)
  BY <1>2, <1>5, FS_Injection DEF n
<1>7. k - 1 \in Ranks
  BY <1>1 DEF Ranks, n
<1>8. PICK i \in I : rank[i] = k - 1
  BY <1>6, <1>7 DEF Surjection
<1>9. QED
  BY <1>8 DEF rank

LEMMA ArrangedPlaces ==
    ASSUME NEW I, IsFiniteSet(I), NEW R, Orders(R, I)
    PROVE  \E at : /\ Places(at, I, R)
                   /\ \A list : Arranged(list, I, R) = [k \in 1..Cardinality(I) |-> list[at[k]]]
<1> DEFINE n == Cardinality(I)
           at == [k \in 1..n |-> CHOOSE i \in I : Cardinality(Before(i, I, R)) = k - 1]
<1>1. n \in Nat
  BY FS_CardinalityType
<1>2. \A list : Arranged(list, I, R) = [k \in 1..n |-> list[at[k]]]
  BY DEF Arranged, Before
<1>3. \A k \in 1..n : at[k] \in I /\ Cardinality(Before(at[k], I, R)) = k - 1
  BY EveryPlace
<1>4. at \in [1..n -> I]
  BY <1>3
<1> HIDE DEF at
<1>5. ASSUME NEW i \in I, NEW j \in I, Cardinality(Before(i, I, R)) = Cardinality(Before(j, I, R))
      PROVE  i = j
  <2>1. /\ Cardinality(Before(i, I, R)) \in Int
        /\ ~(<<i, j>> \in R) /\ ~(<<j, i>> \in R)
    BY <1>1, <1>5, BeforeGrows
  <2>2. QED
    BY <2>1 DEF Orders
<1>6. ASSUME NEW i \in I
      PROVE  \E k \in 1..n : at[k] = i
  <2> DEFINE k == Cardinality(Before(i, I, R)) + 1
  <2>1. k \in 1..n /\ Cardinality(Before(i, I, R)) = k - 1
    BY <1>1, BeforeGrows
  <2>2. at[k] = i
    BY <1>3, <1>5, <2>1
  <2>3. QED
    BY <2>1, <2>2
<1>7. ASSUME NEW k \in 1..n, NEW l \in 1..n, k < l
      PROVE  <<at[k], at[l]>> \in R
  <2>1. at[k] # at[l]
    BY <1>1, <1>3, <1>7
  <2>2. ASSUME <<at[l], at[k]>> \in R
        PROVE  FALSE
    <3>1. l - 1 < k - 1
      BY <1>3, <2>2, BeforeGrows
    <3>2. QED
      BY <1>1, <1>7, <3>1
  <2>3. QED
    BY <1>3, <2>1, <2>2 DEF Orders
<1>8. Places(at, I, R)
  BY <1>4, <1>6, <1>7 DEF Places
<1>9. QED
  BY <1>2, <1>8

\* One list after another.
Joined(z, x, y) ==
    /\ Len(z) = Len(x) + Len(y)
    /\ \A k \in 1..Len(x) : z[k] = x[k]
    /\ \A k \in 1..Len(y) : z[Len(x) + k] = y[k]

LEMMA Concatenation ==
    ASSUME NEW S, NEW x \in Seq(S), NEW y \in Seq(S)
    PROVE  x \o y \in Seq(S) /\ Joined(x \o y, x, y)
  BY DEF Joined

\* A part of a list, in its order.
KeptBy(at, list, I) ==
    /\ at \in [1..Cardinality(I) -> I]
    /\ \A k \in 1..Cardinality(I) : Kept(list, I)[k] = list[at[k]]
    /\ \A i \in I : \E k \in 1..Cardinality(I) : at[k] = i
    /\ \A k, l \in 1..Cardinality(I) : k < l => at[k] < at[l]

LEMMA KeptPlaces ==
    ASSUME NEW S, NEW list \in Seq(S), NEW I, I \subseteq DOMAIN list
    PROVE  /\ Cardinality(I) \in Nat
           /\ Kept(list, I) \in Seq(S) /\ Len(Kept(list, I)) = Cardinality(I)
           /\ \E at : KeptBy(at, list, I)
<1> DEFINE n == Cardinality(I)
           R == {p \in I \X I : p[1] < p[2]}
<1>1. Len(list) \in Nat /\ DOMAIN list = 1..Len(list) /\ I \subseteq Int
  OBVIOUS
<1>2. IsFiniteSet(1..Len(list))
  BY <1>1, FS_Interval
<1>3. IsFiniteSet(I)
  BY <1>1, <1>2, FS_Subset
<1>4. n \in Nat
  BY <1>3, FS_CardinalityType
<1>5. \A i, j \in I : <<i, j>> \in R <=> i < j
  OBVIOUS
<1> HIDE DEF R
<1>6. Orders(R, I)
  BY <1>1, <1>5 DEF Orders
<1>7. PICK at : /\ Places(at, I, R)
                /\ \A l : Arranged(l, I, R) = [k \in 1..Cardinality(I) |-> l[at[k]]]
  BY <1>3, <1>6, ArrangedPlaces
<1>8. Kept(list, I) = [k \in 1..n |-> list[at[k]]]
  BY <1>7 DEF Kept, R
<1>9. /\ at \in [1..n -> I]
      /\ \A i \in I : \E k \in 1..n : at[k] = i
      /\ \A k, l \in 1..n : k < l => at[k] < at[l]
  BY <1>5, <1>7 DEF Places
<1>10. \A k \in 1..n : list[at[k]] \in S
  BY <1>1, <1>9
<1> HIDE DEF n
<1>11. Kept(list, I) \in Seq(S) /\ Len(Kept(list, I)) = n
  BY <1>4, <1>8, <1>10
<1>12. KeptBy(at, list, I)
  <2>1. \A k \in 1..n : Kept(list, I)[k] = list[at[k]]
    BY <1>8
  <2>2. QED
    BY <1>9, <2>1 DEF KeptBy, n
<1>13. QED
  BY <1>4, <1>11, <1>12 DEF n

-----------------------------------------------------------------------------
(* The runners                                                             *)

\* The merge keeps every text, once.
LEMMA UniqueTexts ==
    ASSUME NEW docs \in Seq(Documents)
    PROVE  /\ Unique(docs) \in Seq(Documents)
           /\ Texts(Unique(docs)) = Texts(docs)
           /\ \A i, j \in DOMAIN Unique(docs) : i < j => Unique(docs)[i].text # Unique(docs)[j].text
<1> DEFINE I == {i \in DOMAIN docs : \A j \in 1..(i - 1) : docs[j].text # docs[i].text}
           n == Cardinality(I)
           list == Kept(docs, I)
<1>1. Unique(docs) = list
  BY DEF Unique
<1>2. DOMAIN docs = 1..Len(docs) /\ Len(docs) \in Nat
  OBVIOUS
<1>3. /\ n \in Nat /\ list \in Seq(Documents) /\ Len(list) = n
      /\ \E at : KeptBy(at, docs, I)
  <2>1. I \subseteq DOMAIN docs
    OBVIOUS
  <2> HIDE DEF I
  <2>2. QED
    BY <2>1, KeptPlaces
<1>4. PICK at \in [1..n -> I] :
            /\ \A k \in 1..n : list[k] = docs[at[k]]
            /\ \A i \in I : \E k \in 1..n : at[k] = i
            /\ \A k, l \in 1..n : k < l => at[k] < at[l]
  BY <1>3 DEF KeptBy
<1> HIDE DEF list, n
<1>5. DOMAIN list = 1..n
  BY <1>3
<1>6. ASSUME NEW i \in DOMAIN docs
      PROVE  \E k \in 1..n : list[k].text = docs[i].text
  <2> DEFINE T == {j \in DOMAIN docs : docs[j].text = docs[i].text}
  <2>1. T \subseteq Nat /\ T # {}
    BY <1>2
  <2>2. PICK m \in T : \A j \in T : m <= j
    <3> HIDE DEF T
    <3>1. QED
      BY <2>1, Least
  <2>3. m \in I
    BY <1>2, <2>2
  <2>4. QED
    BY <1>4, <2>2, <2>3
<1>7. Texts(list) = Texts(docs)
  <2>1. \A k \in 1..n : \E i \in DOMAIN docs : list[k].text = docs[i].text
    BY <1>4
  <2>2. \A k \in DOMAIN list : list[k].text \in Texts(docs)
    BY <1>5, <2>1 DEF Texts
  <2>3. \A i \in DOMAIN docs : docs[i].text \in Texts(list)
    BY <1>5, <1>6 DEF Texts
  <2>4. QED
    BY <2>2, <2>3 DEF Texts
<1>8. ASSUME NEW k \in 1..n, NEW l \in 1..n, k < l
      PROVE  list[k].text # list[l].text
  <2>1. at[k] \in I /\ at[l] \in I /\ at[k] < at[l]
    BY <1>4, <1>8
  <2>2. at[k] \in 1..(at[l] - 1)
    BY <1>2, <2>1
  <2>3. QED
    BY <1>4, <2>1, <2>2
<1>9. QED
  BY <1>1, <1>3, <1>5, <1>7, <1>8

\* What is kept of the images: none for its embedding whose asset was
\* described.
LEMMA OneMethod ==
    ASSUME NEW docs \in Seq(Images)
    PROVE  /\ OneMethodEach(docs) \in Seq(Images)
           /\ \A i, j \in DOMAIN OneMethodEach(docs) :
                OneMethodEach(docs)[i].asset = OneMethodEach(docs)[j].asset
                  => OneMethodEach(docs)[i].method = OneMethodEach(docs)[j].method
<1> DEFINE described == {i \in DOMAIN docs : docs[i].method = "vision_to_text"}
           I == {i \in DOMAIN docs : i \in described \/ \A j \in described : docs[i].asset # docs[j].asset}
           n == Cardinality(I)
           list == Kept(docs, I)
<1>1. OneMethodEach(docs) = list
  BY DEF OneMethodEach
<1>2. /\ n \in Nat /\ list \in Seq(Images) /\ Len(list) = n
      /\ \E at : KeptBy(at, docs, I)
  <2>1. I \subseteq DOMAIN docs
    OBVIOUS
  <2> HIDE DEF I
  <2>2. QED
    BY <2>1, KeptPlaces
<1>3. PICK at \in [1..n -> I] : \A k \in 1..n : list[k] = docs[at[k]]
  BY <1>2 DEF KeptBy
<1> HIDE DEF list, n
<1>4. DOMAIN list = 1..n
  BY <1>2
<1>5. \A i \in DOMAIN docs : docs[i].method \in {"vision_to_text", "multimodal_embedding"}
  BY DocumentsAssumption
<1>6. ASSUME NEW i \in I, NEW j \in I, docs[i].asset = docs[j].asset
      PROVE  docs[i].method = docs[j].method
  BY <1>5, <1>6
<1> HIDE DEF I
<1>7. ASSUME NEW i \in 1..n, NEW j \in 1..n, list[i].asset = list[j].asset
      PROVE  list[i].method = list[j].method
  BY <1>3, <1>6, <1>7
<1>8. QED
  BY <1>1, <1>2, <1>4, <1>7

\* The sort: by falling score, equals in their order.
SortedBy(at, docs, n) ==
    /\ at \in [1..n -> 1..n]
    /\ \A k \in 1..n : ByScore(docs)[k] = docs[at[k]]
    /\ \A i \in 1..n : \E k \in 1..n : at[k] = i
    /\ \A k, l \in 1..n :
         k < l => \/ docs[at[k]].score > docs[at[l]].score
                  \/ docs[at[k]].score = docs[at[l]].score /\ at[k] < at[l]

LEMMA ByScorePlaces ==
    ASSUME NEW docs \in Seq(Documents), NEW n, n = Len(docs)
    PROVE  /\ ByScore(docs) \in Seq(Documents) /\ Len(ByScore(docs)) = n
           /\ \E at : SortedBy(at, docs, n)
<1> DEFINE I == DOMAIN docs
           before(i, j) == docs[i].score > docs[j].score \/ (docs[i].score = docs[j].score /\ i < j)
           R == {p \in I \X I : before(p[1], p[2])}
<1>1. I = 1..n /\ n \in Nat
  OBVIOUS
<1>2. IsFiniteSet(I) /\ Cardinality(I) = n
  <2>1. 1 \in Int /\ n \in Int
    BY <1>1
  <2> HIDE DEF I
  <2>2. IsFiniteSet(1..n) /\ Cardinality(1..n) = IF 1 > n THEN 0 ELSE n - 1 + 1
    BY <2>1, FS_Interval
  <2>3. QED
    BY <1>1, <2>2
<1>3. \A i \in I : docs[i].score \in Int
  BY DocumentsAssumption
<1>4. \A i, j \in I : <<i, j>> \in R <=> before(i, j)
  OBVIOUS
<1>5. ByScore(docs) = Arranged(docs, I, R)
  BY DEF ByScore
<1> HIDE DEF R
<1>6. Orders(R, I)
  BY <1>1, <1>3, <1>4 DEF Orders
<1>7. PICK at : /\ Places(at, I, R)
                /\ \A l : Arranged(l, I, R) = [k \in 1..Cardinality(I) |-> l[at[k]]]
  BY <1>2, <1>6, ArrangedPlaces
<1>8. ByScore(docs) = [k \in 1..n |-> docs[at[k]]]
  BY <1>2, <1>5, <1>7
<1>9. /\ at \in [1..n -> 1..n]
      /\ \A i \in 1..n : \E k \in 1..n : at[k] = i
      /\ \A k, l \in 1..n : k < l => before(at[k], at[l])
  BY <1>1, <1>2, <1>4, <1>7 DEF Places
<1>10. \A k \in 1..n : docs[at[k]] \in Documents
  BY <1>9
<1>11. ByScore(docs) \in Seq(Documents) /\ Len(ByScore(docs)) = n
  BY <1>1, <1>8, <1>10
<1>12. SortedBy(at, docs, n)
  <2>1. \A k \in 1..n : ByScore(docs)[k] = docs[at[k]]
    BY <1>8
  <2>2. QED
    BY <1>9, <2>1 DEF SortedBy
<1>13. QED
  BY <1>11, <1>12

\* What the fallback puts first: graph results in their order, then the others
\* by falling score, equals in their order.
Precedes(docs, i, j) ==
    \/ docs[i].recall = "graph_search" /\ docs[j].recall # "graph_search"
    \/ docs[i].recall = "graph_search" /\ docs[j].recall = "graph_search" /\ i < j
    \/ /\ docs[i].recall # "graph_search" /\ docs[j].recall # "graph_search"
       /\ \/ docs[i].score > docs[j].score
          \/ docs[i].score = docs[j].score /\ i < j

LEMMA FallbackPlaces ==
    ASSUME NEW docs \in Seq(Documents)
    PROVE  /\ Fallback(docs) \in Seq(Documents) /\ Len(Fallback(docs)) = Len(docs)
           /\ \E at \in [1..Len(docs) -> 1..Len(docs)] :
                /\ \A k \in 1..Len(docs) : Fallback(docs)[k] = docs[at[k]]
                /\ \A i \in 1..Len(docs) : \E k \in 1..Len(docs) : at[k] = i
                /\ \A k, l \in 1..Len(docs) : k < l => Precedes(docs, at[k], at[l])
<1> DEFINE n == Len(docs)
           G == {i \in DOMAIN docs : docs[i].recall = "graph_search"}
           H == DOMAIN docs \ G
           a == Cardinality(G)
           b == Cardinality(H)
           graph == Kept(docs, G)
           rest == Kept(docs, H)
           sorted == ByScore(rest)
<1>1. DOMAIN docs = 1..n /\ n \in Nat
  OBVIOUS
<1>2. /\ G \subseteq DOMAIN docs /\ H \subseteq DOMAIN docs /\ G \cap H = {} /\ G \cup H = 1..n
      /\ \A i \in G : docs[i].recall = "graph_search"
      /\ \A i \in H : docs[i].recall # "graph_search"
  BY <1>1
<1>3. Fallback(docs) = graph \o sorted
  BY DEF Fallback
<1> HIDE DEF G, H
<1>4. /\ a \in Nat /\ graph \in Seq(Documents) /\ Len(graph) = a
      /\ \E at : KeptBy(at, docs, G)
  BY <1>2, KeptPlaces
<1>5. /\ b \in Nat /\ rest \in Seq(Documents) /\ Len(rest) = b
      /\ \E at : KeptBy(at, docs, H)
  BY <1>2, KeptPlaces
<1>6. n = a + b
  <2>1. IsFiniteSet(1..n) /\ Cardinality(1..n) = n
    BY <1>1, FS_Interval
  <2>2. IsFiniteSet(G) /\ IsFiniteSet(H)
    BY <1>1, <1>2, <2>1, FS_Subset
  <2>3. QED
    BY <1>2, <2>1, <2>2, Disjoint
<1> HIDE DEF graph, rest, a, b, n
<1>7. PICK g \in [1..a -> G] : /\ \A k \in 1..a : graph[k] = docs[g[k]]
                               /\ \A i \in G : \E k \in 1..a : g[k] = i
                               /\ \A k, l \in 1..a : k < l => g[k] < g[l]
  BY <1>4 DEF KeptBy, a, graph
<1>8. PICK h \in [1..b -> H] : /\ \A k \in 1..b : rest[k] = docs[h[k]]
                               /\ \A i \in H : \E k \in 1..b : h[k] = i
                               /\ \A k, l \in 1..b : k < l => h[k] < h[l]
  BY <1>5 DEF KeptBy, b, rest
<1>9. sorted \in Seq(Documents) /\ Len(sorted) = b /\ \E s : SortedBy(s, rest, b)
  BY <1>5, ByScorePlaces
<1>10. PICK s : SortedBy(s, rest, b)
  BY <1>9
<1>s. /\ s \in [1..b -> 1..b]
      /\ \A k \in 1..b : sorted[k] = rest[s[k]]
      /\ \A i \in 1..b : \E k \in 1..b : s[k] = i
      /\ \A k, l \in 1..b :
           k < l => \/ rest[s[k]].score > rest[s[l]].score
                    \/ rest[s[k]].score = rest[s[l]].score /\ s[k] < s[l]
  BY <1>10 DEF SortedBy
<1> HIDE DEF sorted
<1> DEFINE at == [k \in 1..n |-> IF k <= a THEN g[k] ELSE h[s[k - a]]]
<1>11. ASSUME NEW k \in 1..n
       PROVE  \/ k \in 1..a /\ at[k] = g[k] /\ g[k] \in G
              \/ k - a \in 1..b /\ ~(k \in 1..a) /\ at[k] = h[s[k - a]] /\ s[k - a] \in 1..b /\ h[s[k - a]] \in H
  <2>1. CASE k <= a
    BY <1>1, <1>4, <1>7, <2>1
  <2>2. CASE ~(k <= a)
    <3>1. k - a \in 1..b
      BY <1>1, <1>4, <1>5, <1>6, <2>2
    <3>2. QED
      BY <1>8, <1>s, <2>2, <3>1
  <2>3. QED
    BY <2>1, <2>2
<1>12. /\ \A k \in 1..a : k \in 1..n /\ at[k] = g[k]
       /\ \A k \in 1..b : k + a \in 1..n /\ at[k + a] = h[s[k]]
  BY <1>4, <1>5, <1>6
<1>13. at \in [1..n -> 1..n]
  <2>1. \A k \in 1..n : at[k] \in 1..n
    BY <1>2, <1>11
  <2>2. QED
    BY <2>1
<1> HIDE DEF at
<1>14. /\ Fallback(docs) \in Seq(Documents) /\ Len(Fallback(docs)) = n
       /\ \A k \in 1..a : Fallback(docs)[k] = graph[k]
       /\ \A k \in 1..b : Fallback(docs)[a + k] = sorted[k]
  <2>1. Len(graph) = a /\ Len(sorted) = b /\ graph \in Seq(Documents) /\ sorted \in Seq(Documents)
    BY <1>4, <1>9
  <2>2. graph \o sorted \in Seq(Documents) /\ Joined(graph \o sorted, graph, sorted)
    BY <2>1, Concatenation, Zenon
  <2>3. Fallback(docs) \in Seq(Documents) /\ Joined(Fallback(docs), graph, sorted)
    BY <1>3, <2>2, Zenon
  <2>4. QED
    BY <1>6, <2>1, <2>3 DEF Joined
<1>15. ASSUME NEW k \in 1..n
       PROVE  Fallback(docs)[k] = docs[at[k]]
  <2>1. CASE k \in 1..a /\ at[k] = g[k]
    BY <1>7, <1>14, <2>1
  <2>2. CASE k - a \in 1..b /\ ~(k \in 1..a) /\ at[k] = h[s[k - a]] /\ s[k - a] \in 1..b
    <3>1. a + (k - a) = k
      BY <1>1, <1>4
    <3>2. Fallback(docs)[k] = sorted[k - a]
      BY <1>14, <2>2, <3>1
    <3>3. sorted[k - a] = rest[s[k - a]]
      BY <1>s, <2>2
    <3>4. rest[s[k - a]] = docs[h[s[k - a]]]
      BY <1>8, <2>2
    <3>5. QED
      BY <2>2, <3>2, <3>3, <3>4
  <2>3. QED
    BY <1>11, <2>1, <2>2
<1>16. ASSUME NEW i \in 1..n
       PROVE  \E k \in 1..n : at[k] = i
  <2>1. CASE i \in G
    BY <1>7, <1>12, <2>1
  <2>2. CASE i \in H
    <3>1. PICK j \in 1..b : h[j] = i
      BY <1>8, <2>2
    <3>2. PICK k \in 1..b : s[k] = j
      BY <1>s, <3>1
    <3>3. QED
      BY <1>12, <3>1, <3>2
  <2>3. QED
    BY <1>2, <2>1, <2>2
<1>17. ASSUME NEW k \in 1..n, NEW l \in 1..n, k < l
       PROVE  Precedes(docs, at[k], at[l])
  <2>1. CASE k \in 1..a /\ l \in 1..a
    <3>1. at[k] = g[k] /\ at[l] = g[l] /\ g[k] \in G /\ g[l] \in G /\ g[k] < g[l]
      BY <1>7, <1>12, <1>17, <2>1
    <3>2. QED
      BY <1>2, <3>1 DEF Precedes
  <2>2. CASE k \in 1..a /\ ~(l \in 1..a)
    BY <1>2, <1>11, <2>2 DEF Precedes
  <2>3. CASE ~(k \in 1..a)
    <3> DEFINE p == s[k - a]
               q == s[l - a]
    <3>1. k - a \in 1..b /\ at[k] = h[p] /\ p \in 1..b /\ h[p] \in H
      BY <1>11, <2>3
    <3>2. l - a \in 1..b /\ at[l] = h[q] /\ q \in 1..b /\ h[q] \in H
      BY <1>4, <1>11, <1>17, <2>3
    <3>3. k - a < l - a
      BY <1>4, <1>17
    <3>4. rest[p].score > rest[q].score \/ (rest[p].score = rest[q].score /\ p < q)
      BY <1>s, <3>1, <3>2, <3>3
    <3> HIDE DEF p, q
    <3>5. rest[p] = docs[h[p]] /\ rest[q] = docs[h[q]] /\ (p < q => h[p] < h[q])
      BY <1>8, <3>1, <3>2
    <3>6. QED
      BY <1>2, <3>1, <3>2, <3>4, <3>5 DEF Precedes
  <2>4. QED
    BY <2>1, <2>2, <2>3
<1>18. QED
  BY <1>13, <1>14, <1>15, <1>16, <1>17 DEF n
\* An answer of the service lists documents it was given, and no more than
\* that.
LEMMA RerankedPart ==
    ASSUME NEW docs \in Seq(Documents), NEW list \in Reranked(docs)
    PROVE  list \in Seq(Documents) /\ Range(list) \subseteq Range(docs) /\ Len(list) <= Len(docs)
<1>1. PICK k \in 0..Len(docs) : \E p \in Injection(1..k, DOMAIN docs) : list = [i \in 1..k |-> docs[p[i]]]
  BY DEF Reranked
<1>2. PICK p \in Injection(1..k, DOMAIN docs) : list = [i \in 1..k |-> docs[p[i]]]
  BY <1>1
<1>3. p \in [1..k -> DOMAIN docs]
  BY DEF Injection
<1>4. DOMAIN docs = 1..Len(docs) /\ k \in Nat
  OBVIOUS
<1>5. \A i \in 1..k : docs[p[i]] \in Documents /\ docs[p[i]] \in Range(docs)
  BY <1>3 DEF Range
<1>6. list \in Seq(Documents) /\ Len(list) = k
  BY <1>2, <1>4, <1>5
<1>7. Range(list) \subseteq Range(docs)
  BY <1>2, <1>5 DEF Range
<1>8. QED
  BY <1>6, <1>7

\* The fallback leaves nothing out and makes nothing up.
LEMMA FallbackWhole ==
    ASSUME NEW docs \in Seq(Documents)
    PROVE  /\ Fallback(docs) \in Seq(Documents)
           /\ Range(Fallback(docs)) = Range(docs) /\ Len(Fallback(docs)) = Len(docs)
<1> DEFINE n == Len(docs)
<1>1. /\ Fallback(docs) \in Seq(Documents) /\ Len(Fallback(docs)) = n
      /\ \E at \in [1..n -> 1..n] :
           /\ \A k \in 1..n : Fallback(docs)[k] = docs[at[k]]
           /\ \A i \in 1..n : \E k \in 1..n : at[k] = i
  BY FallbackPlaces
<1>2. DOMAIN docs = 1..n /\ DOMAIN Fallback(docs) = 1..n
  BY <1>1
<1>3. PICK at \in [1..n -> 1..n] :
           /\ \A k \in 1..n : Fallback(docs)[k] = docs[at[k]]
           /\ \A i \in 1..n : \E k \in 1..n : at[k] = i
  BY <1>1
<1> HIDE DEF n
<1>4. \A k \in 1..n : Fallback(docs)[k] \in Range(docs)
  BY <1>2, <1>3 DEF Range
<1>5. \A i \in 1..n : docs[i] \in Range(Fallback(docs))
  BY <1>2, <1>3 DEF Range
<1>6. Range(Fallback(docs)) \subseteq Range(docs) /\ Range(docs) \subseteq Range(Fallback(docs))
  BY <1>2, <1>4, <1>5 DEF Range
<1>7. QED
  BY <1>1, <1>6 DEF n

\* Either way the answer is a part of the merge.
LEMMA RerankPart ==
    ASSUME NEW docs \in Seq(Documents), NEW list \in Rerank(docs)
    PROVE  list \in Seq(Documents) /\ Range(list) \subseteq Range(docs) /\ Len(list) <= Len(docs)
<1>1. CASE list \in Reranked(docs)
  BY <1>1, RerankedPart
<1>2. CASE list = Fallback(docs)
  <2>1. Len(docs) \in Nat
    OBVIOUS
  <2>2. QED
    BY <1>2, <2>1, FallbackWhole
<1>3. QED
  BY <1>1, <1>2 DEF Rerank

LEMMA TextsOfBoth ==
    ASSUME NEW x \in Seq(Documents), NEW y \in Seq(Documents)
    PROVE  x \o y \in Seq(Documents) /\ Texts(x \o y) = Texts(x) \cup Texts(y)
<1> DEFINE z == x \o y
<1>1. z \in Seq(Documents) /\ Joined(z, x, y)
  BY Concatenation
<1> HIDE DEF z
<1>2. /\ DOMAIN x = 1..Len(x) /\ DOMAIN y = 1..Len(y) /\ DOMAIN z = 1..(Len(x) + Len(y))
      /\ Len(x) \in Nat /\ Len(y) \in Nat
  BY <1>1 DEF Joined
<1>3. \A k \in 1..Len(x) : z[k] = x[k]
  BY <1>1 DEF Joined
<1>4. \A k \in 1..Len(y) : z[Len(x) + k] = y[k]
  BY <1>1 DEF Joined
<1>5. ASSUME NEW k \in DOMAIN z
      PROVE  z[k].text \in Texts(x) \cup Texts(y)
  <2>1. CASE k \in 1..Len(x)
    BY <1>2, <1>3, <2>1 DEF Texts
  <2>2. CASE ~(k \in 1..Len(x))
    <3>1. k - Len(x) \in 1..Len(y) /\ Len(x) + (k - Len(x)) = k
      BY <1>2, <2>2
    <3>2. z[k] = y[k - Len(x)]
      BY <1>4, <3>1
    <3>3. QED
      BY <1>2, <3>1, <3>2 DEF Texts
  <2>3. QED
    BY <2>1, <2>2
<1>6. \A k \in DOMAIN x : x[k].text \in Texts(z)
  <2>1. \A k \in DOMAIN x : k \in DOMAIN z /\ z[k] = x[k]
    BY <1>2, <1>3
  <2>2. QED
    BY <2>1 DEF Texts
<1>7. \A k \in DOMAIN y : y[k].text \in Texts(z)
  <2>1. \A k \in DOMAIN y : Len(x) + k \in DOMAIN z /\ z[Len(x) + k] = y[k]
    BY <1>2, <1>4
  <2>2. QED
    BY <2>1 DEF Texts
<1>8. Texts(z) \subseteq Texts(x) \cup Texts(y)
  BY <1>5 DEF Texts
<1>9. Texts(x) \subseteq Texts(z) /\ Texts(y) \subseteq Texts(z)
  BY <1>6, <1>7 DEF Texts
<1>10. Texts(z) = Texts(x) \cup Texts(y)
  BY <1>8, <1>9
<1>11. QED
  BY <1>1, <1>10 DEF z

-----------------------------------------------------------------------------
(* The flow                                                                *)

\* A search runs the runners of this module.
SearchRunners == \A f, n, outs : Run(f, n, outs) = RunSearch(f, n, outs)

\* The merge reads what every search of the request found.
LEMMA FoundTexts ==
    ASSUME NEW request \in Requests, NEW outs, \A s \in request : outs[s] \in Seq(Documents)
    PROVE  /\ Found(FlowOf(request), outs) \in Seq(Documents)
           /\ Texts(Found(FlowOf(request), outs)) = UNION {Texts(outs[s]) : s \in request}
<1> DEFINE docs(search) == IF search \in request THEN outs[search] ELSE <<>>
           a == docs("vector_search")
           b == docs("fulltext_search")
           c == docs("graph_search")
           d == docs("summary_search")
           e == docs("vision_search")
<1>1. request \subseteq Searches
  BY RequestsAssumption
<1>2. \A s \in Searches : s \in FlowOf(request).nodes <=> s \in request
  BY <1>1 DEF FlowOf, Searches
<1>3. Found(FlowOf(request), outs) = a \o b \o c \o d \o e
  BY <1>2 DEF Found, Searches
<1>4. \A s : docs(s) \in Seq(Documents)
  OBVIOUS
<1>5. Texts(<<>>) = {}
  BY DEF Texts
<1>6. \A s : Texts(docs(s)) = IF s \in request THEN Texts(outs[s]) ELSE {}
  BY <1>5
<1>7. a \in Seq(Documents) /\ b \in Seq(Documents) /\ c \in Seq(Documents) /\ d \in Seq(Documents) /\ e \in Seq(Documents)
  BY <1>4
<1>8. UNION {Texts(outs[s]) : s \in request} = Texts(a) \cup Texts(b) \cup Texts(c) \cup Texts(d) \cup Texts(e)
  <2>1. Texts(a) \cup Texts(b) \cup Texts(c) \cup Texts(d) \cup Texts(e) \subseteq UNION {Texts(outs[s]) : s \in request}
    BY <1>6
  <2>2. ASSUME NEW s \in request
        PROVE  Texts(outs[s]) \subseteq Texts(a) \cup Texts(b) \cup Texts(c) \cup Texts(d) \cup Texts(e)
    <3>1. /\ s \in {"vector_search", "fulltext_search", "graph_search", "summary_search", "vision_search"}
          /\ docs(s) = outs[s]
      BY <1>1 DEF Searches
    <3>2. QED
      BY <3>1
  <2>3. QED
    BY <2>1, <2>2
<1> HIDE DEF a, b, c, d, e
<1>9. a \o b \in Seq(Documents) /\ Texts(a \o b) = Texts(a) \cup Texts(b)
  BY <1>7, TextsOfBoth
<1>10. a \o b \o c \in Seq(Documents) /\ Texts(a \o b \o c) = Texts(a \o b) \cup Texts(c)
  BY <1>7, <1>9, TextsOfBoth
<1>11. a \o b \o c \o d \in Seq(Documents) /\ Texts(a \o b \o c \o d) = Texts(a \o b \o c) \cup Texts(d)
  BY <1>7, <1>10, TextsOfBoth
<1>12. a \o b \o c \o d \o e \in Seq(Documents) /\ Texts(a \o b \o c \o d \o e) = Texts(a \o b \o c \o d) \cup Texts(e)
  BY <1>7, <1>11, TextsOfBoth
<1>13. QED
  BY <1>3, <1>8, <1>9, <1>10, <1>11, <1>12
\* What each node that has finished has left: a list of documents, the merge of
\* what was found, and a reranking of that merge.
Left ==
    flow \in SearchFlows =>
        /\ \A n \in flow.nodes : node[n] = "done" => output[n] \in Seq(Documents)
        /\ "vision_search" \in flow.nodes /\ node["vision_search"] = "done" => output["vision_search"] \in VisionSearch
        /\ node["merge"] = "done" => output["merge"] = Merge(flow, output)
        /\ node["rerank"] = "done" => output["rerank"] \in Rerank(output["merge"])

\* How the flow of a request is connected.
LEMMA Connected ==
    ASSUME flow \in SearchFlows, flow \in Flows
    PROVE  \E request \in Requests :
             /\ flow = FlowOf(request) /\ request \subseteq Searches
             /\ flow.nodes = request \cup {"merge", "rerank"} /\ flow.nodes \subseteq Nodes
             /\ \A s \in request : <<s, "merge">> \in flow.edges
             /\ <<"merge", "rerank">> \in flow.edges
             /\ \A use \in flow.uses : <<use[2], use[1]>> \in flow.edges
<1>1. PICK request \in Requests : flow = FlowOf(request)
  BY DEF SearchFlows
<1>2. request \subseteq Searches /\ flow.nodes \subseteq Nodes
  BY RequestsAssumption, FlowsAssumption
<1> DEFINE edges == (request \X {"merge"}) \cup {<<"merge", "rerank">>}
<1>3. flow.nodes = request \cup {"merge", "rerank"} /\ flow.edges = edges /\ flow.uses = {<<e[2], e[1]>> : e \in edges}
  BY <1>1 DEF FlowOf
<1>4. \A e \in edges : e = <<e[1], e[2]>>
  OBVIOUS
<1>5. QED
  BY <1>1, <1>2, <1>3, <1>4

\* What a search returns.
LEMMA SearchLists ==
    ASSUME flow \in SearchFlows, NEW s \in Searches, NEW o \in RunSearch(flow, s, output)
    PROVE  o \in Seq(Documents) /\ (s = "vision_search" => o \in VisionSearch)
<1>1. <<>> \in Seq(Documents)
  OBVIOUS
<1>2. /\ Hits("vector_search") \subseteq Seq(Documents) /\ Hits("fulltext_search") \subseteq Seq(Documents)
      /\ Hits("graph_search") \subseteq Seq(Documents) /\ Hits("summary_search") \subseteq Seq(Documents)
  BY DocumentsAssumption DEF Searches
<1>3. VisionSearch \subseteq Seq(Documents)
  <2>1. \A docs \in VisionHits : OneMethodEach(docs) \in Seq(Images)
    BY OneMethod, DocumentsAssumption
  <2>2. Seq(Images) \subseteq Seq(Documents)
    BY DEF Images
  <2>3. QED
    BY <1>1, <2>1, <2>2 DEF VisionSearch
<1>4. CASE s = "vision_search"
  BY <1>3, <1>4 DEF RunSearch
<1>5. CASE s = "vector_search"
  BY <1>1, <1>2, <1>5 DEF RunSearch, VectorSearch
<1>6. CASE s = "fulltext_search"
  BY <1>1, <1>2, <1>6 DEF RunSearch, FulltextSearch
<1>7. CASE s = "graph_search"
  BY <1>1, <1>2, <1>7 DEF RunSearch, GraphSearch
<1>8. CASE s = "summary_search"
  BY <1>1, <1>2, <1>8 DEF RunSearch, SummarySearch
<1>9. QED
  BY <1>4, <1>5, <1>6, <1>7, <1>8 DEF Searches

\* The merge depends on nothing but what its searches found.
LEMMA MergeReads ==
    ASSUME NEW request \in Requests, NEW outs, NEW others, \A s \in request : others[s] = outs[s]
    PROVE  Merge(FlowOf(request), others) = Merge(FlowOf(request), outs)
<1>1. \A s \in Searches : s \in FlowOf(request).nodes <=> s \in request
  BY RequestsAssumption DEF FlowOf, Searches
<1>2. Found(FlowOf(request), others) = Found(FlowOf(request), outs)
  BY <1>1 DEF Found, Searches
<1>3. QED
  BY <1>2 DEF Merge

\* A node writes its own output only, and what follows it has not started.
LEMMA LeftStep ==
    ASSUME SearchRunners, IInv, InputsReady, TypeOK, Left, [Next]_vars
    PROVE  Left'
<1> SUFFICES ASSUME flow' \in SearchFlows
             PROVE  Left'
  BY DEF Left
<1>1. flow' = flow /\ flow \in Flows /\ node \in [Nodes -> NodeStates] /\ DOMAIN output = Nodes
  BY DEF Next, EngineStep, NodeStep, StartFlow, SortNode, EndSort, NextGroup, EndFlow, FailFlow, StartNode, BindFails,
         RunnerMissing, FinishNode, NodeFails, SendEvent, Disconnect, vars, IInv, FlowType, TypeOK
<1>2. PICK request \in Requests :
        /\ flow = FlowOf(request) /\ request \subseteq Searches
        /\ flow.nodes = request \cup {"merge", "rerank"} /\ flow.nodes \subseteq Nodes
        /\ \A s \in request : <<s, "merge">> \in flow.edges
        /\ <<"merge", "rerank">> \in flow.edges
        /\ \A use \in flow.uses : <<use[2], use[1]>> \in flow.edges
  BY <1>1, Connected
<1>3. ASSUME UNCHANGED output, \A n \in Nodes : node'[n] = "done" => node[n] = "done"
      PROVE  Left'
  <2>1. "merge" \in Nodes /\ "rerank" \in Nodes
    BY <1>2
  <2>2. QED
    BY <1>1, <1>2, <1>3, <2>1 DEF Left
<1>4. ASSUME NEW n \in Nodes, FinishNode(n)
      PROVE  Left'
  <2>1. PICK o \in RunSearch(flow, n, output) : output' = [output EXCEPT ![n] = o]
    BY <1>4 DEF FinishNode, SearchRunners
  <2>2. node[n] = "started" /\ node' = [node EXCEPT ![n] = "done"]
    BY <1>4 DEF FinishNode
  <2>3. /\ \A m \in Nodes : m # n => node'[m] = node[m] /\ output'[m] = output[m]
        /\ node'[n] = "done" /\ output'[n] = o
    BY <1>1, <2>1, <2>2
  <2>4. /\ \A s \in request : node["merge"] # "waiting" => node[s] = "done"
        /\ node["rerank"] # "waiting" => node["merge"] = "done"
    BY <1>2 DEF InputsReady
  <2>5. /\ \A m \in flow.nodes : node[m] = "done" => output[m] \in Seq(Documents)
        /\ "vision_search" \in flow.nodes /\ node["vision_search"] = "done" => output["vision_search"] \in VisionSearch
        /\ node["merge"] = "done" => output["merge"] = Merge(flow, output)
        /\ node["rerank"] = "done" => output["rerank"] \in Rerank(output["merge"])
    BY <1>1 DEF Left
  <2>6. "merge" \notin Searches /\ "rerank" \notin Searches /\ "merge" # "rerank"
    BY DEF Searches
  <2>7. "merge" \in Nodes /\ "rerank" \in Nodes /\ request \subseteq Nodes
    BY <1>2
  <2>8. CASE n \in request
    <3>1. o \in Seq(Documents) /\ (n = "vision_search" => o \in VisionSearch)
      BY <1>1, <1>2, <2>1, <2>8, SearchLists
    <3>2. node'["merge"] = "waiting" /\ node'["rerank"] = "waiting"
      BY <1>2, <2>2, <2>3, <2>4, <2>6, <2>7, <2>8
    <3>3. QED
      BY <1>1, <1>2, <2>3, <2>5, <3>1, <3>2 DEF Left
  <2>9. CASE n = "merge"
    <3>1. \A s \in request : node[s] = "done" /\ output[s] \in Seq(Documents) /\ output'[s] = output[s]
      BY <1>2, <2>2, <2>3, <2>4, <2>5, <2>6, <2>7, <2>9
    <3>2. o = Merge(flow, output)
      BY <1>1, <2>1, <2>9 DEF RunSearch
    <3>3. o \in Seq(Documents)
      BY <1>2, <3>1, <3>2, FoundTexts, UniqueTexts DEF Merge
    <3>4. Merge(flow, output') = Merge(flow, output)
      BY <1>2, <3>1, MergeReads
    <3>5. node'["rerank"] = "waiting"
      BY <2>2, <2>3, <2>4, <2>6, <2>7, <2>9
    <3>6. "vision_search" # "merge"
      OBVIOUS
    <3>7. QED
      BY <1>1, <1>2, <2>3, <2>5, <2>9, <3>2, <3>3, <3>4, <3>5, <3>6 DEF Left
  <2>10. CASE n = "rerank"
    <3>1. node["merge"] = "done" /\ output["merge"] \in Seq(Documents) /\ output["merge"] = Merge(flow, output)
      BY <1>2, <2>2, <2>4, <2>5, <2>10
    <3>2. o \in Rerank(output["merge"])
      BY <1>1, <2>1, <2>10 DEF RunSearch
    <3>3. o \in Seq(Documents)
      BY <3>1, <3>2, RerankPart
    <3>4. \A s \in request : output'[s] = output[s]
      BY <1>2, <2>3, <2>6, <2>7, <2>10
    <3>5. Merge(flow, output') = Merge(flow, output)
      BY <1>2, <3>4, MergeReads
    <3>6. output'["merge"] = output["merge"] /\ "vision_search" # "rerank"
      BY <2>3, <2>6, <2>7, <2>10
    <3>7. QED
      BY <1>1, <1>2, <2>3, <2>5, <2>10, <3>1, <3>2, <3>3, <3>5, <3>6 DEF Left
  <2>11. CASE n \notin flow.nodes
    <3>1. \A m \in flow.nodes : node'[m] = node[m] /\ output'[m] = output[m]
      BY <1>2, <2>3, <2>11
    <3>2. Merge(flow, output') = Merge(flow, output)
      BY <1>2, <3>1, MergeReads
    <3>3. "merge" \in flow.nodes /\ "rerank" \in flow.nodes
      BY <1>2
    <3>4. QED
      BY <1>1, <2>5, <3>1, <3>2, <3>3 DEF Left
  <2>12. QED
    BY <1>2, <2>8, <2>9, <2>10, <2>11
<1>5. ASSUME NEW n \in Nodes, NodeStep(n), ~FinishNode(n)
      PROVE  Left'
  <2>1. UNCHANGED output /\ \E s \in {"started", "failed"} : node' = [node EXCEPT ![n] = s]
    BY <1>5 DEF NodeStep, StartNode, BindFails, RunnerMissing, NodeFails
  <2>2. QED
    BY <1>1, <1>3, <2>1
<1>6. CASE EngineStep \/ SendEvent \/ Disconnect \/ UNCHANGED vars
  <2>1. UNCHANGED <<node, output>>
    BY <1>6 DEF EngineStep, StartFlow, SortNode, EndSort, NextGroup, EndFlow, FailFlow, SendEvent, Disconnect, vars
  <2>2. QED
    BY <1>3, <2>1
<1>7. QED
  BY <1>4, <1>5, <1>6 DEF Next

\* A flow that ended has done all its nodes.
LEMMA Completed == Spec => []Closed
<1>1. Init => Closed
  BY DEF Init, Closed
<1>2. TypeOK => StreamType
  BY DEF TypeOK, StreamType
<1>3. IInv /\ StreamType /\ Closed /\ [Next]_vars => Closed'
  BY ClosedStep
<1>4. QED
  BY <1>1, <1>2, <1>3, Invariance, TypeCorrect, PTL DEF Spec

LEMMA Leaving == ASSUME SearchRunners PROVE Spec => []Left
<1>1. Init => Left
  <2>1. SUFFICES ASSUME Init, flow \in SearchFlows
                 PROVE  Left
    BY DEF Left
  <2>2. flow \in Flows /\ \A n \in Nodes : node[n] = "waiting"
    BY <2>1 DEF Init
  <2>3. flow.nodes \subseteq Nodes /\ "merge" \in flow.nodes /\ "rerank" \in flow.nodes
    BY <2>1, <2>2, Connected
  <2>4. QED
    BY <2>2, <2>3 DEF Left
<1>2. IInv /\ InputsReady /\ TypeOK /\ Left /\ [Next]_vars => Left'
  BY LeftStep
<1>3. QED
  BY <1>1, <1>2, Invariance, InputsAreReady, TypeCorrect, PTL DEF Spec

-----------------------------------------------------------------------------
(* Theorems                                                                *)

\* Whatever is asked for and whichever searches end first: a node that may
\* start finds every output that it refers to.
THEOREM InputsBind == ASSUME SearchRunners PROVE Spec => []SearchBinds
<1>1. IInv /\ Left => SearchBinds
  <2>1. SUFFICES ASSUME IInv, Left, flow \in SearchFlows, NEW n \in flow.nodes, n \in group,
                        NEW use \in flow.uses, use[1] = n
                 PROVE  output[use[2]] # NoOutput
    BY DEF SearchBinds, Bound
  <2>2. flow \in Flows
    BY <2>1 DEF IInv, FlowType
  <2>3. <<use[2], n>> \in flow.edges
    BY <2>1, <2>2, Connected
  <2>4. Levelled
    BY <2>1 DEF IInv, FlowType, Untouched, Grouped, Failed, Preparing, Phases
  <2>5. use[2] \in flow.nodes
    BY <2>2, <2>3, EdgesFinite
  <2>6. node[use[2]] = "done"
    <3>1. \A e \in flow.edges : e[2] \in processed => e[1] \in processed \ group
      BY <2>4 DEF Levelled
    <3>2. n \in processed
      BY <2>1, <2>4 DEF Levelled
    <3>3. use[2] \in processed \ group
      BY <2>3, <3>1, <3>2
    <3>4. QED
      BY <2>4, <3>3 DEF Levelled
  <2>7. QED
    BY <2>1, <2>5, <2>6, DocumentsAssumption DEF Left
<1>2. QED
  BY <1>1, Invariance, Leaving, PTL

\* What has been left when a search has ended.
LEMMA AtTheEnd ==
    ASSUME IInv, Closed, Left, Ended
    PROVE  \E request \in Requests :
             /\ flow = FlowOf(request) /\ flow.nodes = request \cup {"merge", "rerank"}
             /\ "merge" \notin request /\ "rerank" \notin request
             /\ \A s \in request : output[s] \in Seq(Documents)
             /\ "vision_search" \in request => output["vision_search"] \in VisionSearch
             /\ output["merge"] = Merge(flow, output)
             /\ output["rerank"] \in Rerank(output["merge"])
<1>1. flow \in SearchFlows /\ flow \in Flows /\ \A n \in flow.nodes : node[n] = "done"
  BY DEF IInv, FlowType, Closed, Ended
<1>2. PICK request \in Requests :
        /\ flow = FlowOf(request) /\ request \subseteq Searches
        /\ flow.nodes = request \cup {"merge", "rerank"}
  BY <1>1, Connected
<1>3. "merge" \notin request /\ "rerank" \notin request
  BY <1>2 DEF Searches
<1>4. /\ \A n \in flow.nodes : output[n] \in Seq(Documents)
      /\ "vision_search" \in flow.nodes => output["vision_search"] \in VisionSearch
      /\ output["merge"] = Merge(flow, output)
      /\ output["rerank"] \in Rerank(output["merge"])
  BY <1>1, <1>2 DEF Left
<1>5. QED
  BY <1>2, <1>3, <1>4

\* Whatever the searches find and in whatever order: what comes back is theirs,
\* each text once, and the merge has lost none of it.
THEOREM NothingIsLost == ASSUME SearchRunners PROVE Spec => []SearchAnswers
<1>1. IInv /\ Closed /\ Left => SearchAnswers
  <2>1. SUFFICES ASSUME IInv, Closed, Left, Ended
                 PROVE  SearchAnswers
    BY DEF SearchAnswers
  <2>2. PICK request \in Requests :
          /\ flow = FlowOf(request) /\ flow.nodes = request \cup {"merge", "rerank"}
          /\ "merge" \notin request /\ "rerank" \notin request
          /\ \A s \in request : output[s] \in Seq(Documents)
          /\ output["merge"] = Merge(flow, output)
          /\ output["rerank"] \in Rerank(output["merge"])
    BY <2>1, AtTheEnd
  <2>3. flow.nodes \ {"merge", "rerank"} = request
    BY <2>2
  <2> DEFINE docs == Found(flow, output)
             merge == output["merge"]
  <2>4. docs \in Seq(Documents) /\ Texts(docs) = AllFound
    BY <2>2, <2>3, FoundTexts DEF AllFound
  <2>5. merge = Unique(docs)
    BY <2>2 DEF Merge
  <2> HIDE DEF docs, merge
  <2>6. /\ merge \in Seq(Documents) /\ Texts(merge) = AllFound
        /\ \A i, j \in DOMAIN merge : i < j => merge[i].text # merge[j].text
    BY <2>4, <2>5, UniqueTexts
  <2>7. Range(output["rerank"]) \subseteq Range(merge) /\ Len(output["rerank"]) <= Len(merge)
    BY <2>2, <2>6, RerankPart DEF merge
  <2>8. QED
    BY <2>6, <2>7 DEF SearchAnswers, merge
<1>2. QED
  BY <1>1, Invariance, Completed, Leaving, PTL

\* Whatever was found: reranking without a model keeps all of it and puts the
\* better first.
THEOREM FallbackIsOrdered == ASSUME SearchRunners PROVE Spec => []FallbackOrders
<1>1. IInv /\ Closed /\ Left => FallbackOrders
  <2>1. SUFFICES ASSUME IInv, Closed, Left, Ended
                 PROVE  FallbackOrders
    BY DEF FallbackOrders
  <2>2. PICK request \in Requests :
          /\ flow = FlowOf(request)
          /\ \A s \in request : output[s] \in Seq(Documents)
          /\ output["merge"] = Merge(flow, output)
    BY <2>1, AtTheEnd
  <2> DEFINE docs == output["merge"]
             answer == Fallback(docs)
             n == Len(docs)
             at(d) == CHOOSE i \in DOMAIN docs : docs[i] = d
             better(a, b) ==
                 IF (a.recall = "graph_search") # (b.recall = "graph_search") THEN a.recall = "graph_search"
                 ELSE IF a.recall = "graph_search" \/ a.score = b.score THEN at(a) < at(b)
                 ELSE a.score > b.score
  <2>3. docs \in Seq(Documents) /\ \A i, j \in DOMAIN docs : i < j => docs[i].text # docs[j].text
    BY <2>2, FoundTexts, UniqueTexts DEF Merge
  <2> HIDE DEF docs
  <2>4. DOMAIN docs = 1..n /\ n \in Nat
    BY <2>3
  <2>5. \A i \in 1..n : at(docs[i]) = i
    <3>1. \A i, j \in 1..n : docs[i] = docs[j] => i = j
      BY <2>3, <2>4
    <3>2. QED
      BY <2>4, <3>1
  <2>6. answer \in Seq(Documents) /\ Range(answer) = Range(docs) /\ Len(answer) = n
    BY <2>3, FallbackWhole
  <2>7. DOMAIN answer = 1..n
    BY <2>6
  <2>8. \E place \in [1..n -> 1..n] :
          /\ \A k \in 1..n : answer[k] = docs[place[k]]
          /\ \A k, l \in 1..n : k < l => Precedes(docs, place[k], place[l])
    BY <2>3, FallbackPlaces
  <2>9. PICK place \in [1..n -> 1..n] :
          /\ \A k \in 1..n : answer[k] = docs[place[k]]
          /\ \A k, l \in 1..n : k < l => Precedes(docs, place[k], place[l])
    BY <2>8
  <2>10. \A i \in 1..n : docs[i].score \in Int
    BY <2>3, <2>4, DocumentsAssumption
  <2> HIDE DEF answer, n, at
  <2>11. ASSUME NEW i \in 1..n, NEW j \in 1..n, Precedes(docs, i, j)
         PROVE  better(docs[i], docs[j])
    BY <2>5, <2>10, <2>11 DEF Precedes
  <2>12. \A k, l \in 1..n : k < l => better(answer[k], answer[l])
    BY <2>9, <2>11
  <2>13. QED
    BY <2>6, <2>7, <2>12 DEF FallbackOrders, answer, n, at, docs
<1>2. QED
  BY <1>1, Invariance, Completed, Leaving, PTL

\* Whatever the store lists, in whatever order: an image comes back for its
\* description or for its embedding.
THEOREM ImagesComeOnce == ASSUME SearchRunners PROVE Spec => []ImagesOnce
<1>1. IInv /\ Closed /\ Left => ImagesOnce
  <2>1. SUFFICES ASSUME IInv, Closed, Left, Ended, "vision_search" \in flow.nodes
                 PROVE  ImagesOnce
    BY DEF ImagesOnce
  <2>2. output["vision_search"] \in VisionSearch
    <3>1. "vision_search" # "merge" /\ "vision_search" # "rerank"
      OBVIOUS
    <3>2. QED
      BY <2>1, <3>1, AtTheEnd
  <2>3. CASE output["vision_search"] = <<>>
    BY <2>3 DEF ImagesOnce
  <2>4. CASE output["vision_search"] # <<>>
    <3>1. PICK docs \in VisionHits : output["vision_search"] = OneMethodEach(docs)
      BY <2>2, <2>4 DEF VisionSearch
    <3>2. docs \in Seq(Images)
      BY DocumentsAssumption
    <3>3. QED
      BY <3>1, <3>2, OneMethod DEF ImagesOnce
  <2>5. QED
    BY <2>3, <2>4
<1>2. QED
  BY <1>1, Invariance, Completed, Leaving, PTL

=============================================================================
