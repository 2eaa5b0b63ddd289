------------------------- MODULE EngramGather_proofs --------------------------
(***************************************************************************)
(* Proofs, for every table, sharding, hot set, batch and pool, that the    *)
(* tasks of a read cover each missing row once, that the shards of the     *)
(* ranks make up the table, and that a gather returns the rows asked for.  *)
(***************************************************************************)
EXTENDS EngramGather, FiniteSetTheorems, TLAPS

RankIds == 0 .. NumRanks - 1

LEMMA DivFacts ==
  ASSUME NEW a \in Nat, NEW b \in Nat \ {0}
  PROVE  /\ a \div b \in Nat /\ a % b \in 0 .. b - 1
         /\ a = b * (a \div b) + (a % b)
OBVIOUS

(* The quotient is the only one with a remainder below the divisor.        *)
LEMMA DivUnique ==
  ASSUME NEW b \in Nat \ {0}, NEW q \in Nat, NEW m \in 0 .. b - 1
  PROVE  (b * q + m) \div b = q /\ (b * q + m) % b = m
<1> DEFINE a == b * q + m
<1>1. a \in Nat /\ b * q \in Nat
  OBVIOUS
<1>2. PICK p \in Nat, k \in 0 .. b - 1 : p = a \div b /\ k = a % b /\ a = b * p + k
  BY <1>1, DivFacts
<1>3. \A x, y \in Nat : x < y => b * x + b <= b * y
  <2> SUFFICES ASSUME NEW x \in Nat, NEW y \in Nat, x < y PROVE b * x + b <= b * y
    OBVIOUS
  <2>1. PICK d \in Nat : y = (x + 1) + d
    <3>1. y - (x + 1) \in Nat /\ y = (x + 1) + (y - (x + 1))
      OBVIOUS
    <3> QED BY <3>1
  <2>2. b * y = b * (x + 1) + b * d /\ b * (x + 1) = b * x + b /\ b * d \in Nat /\ b * x \in Nat
    BY <2>1
  <2> QED BY <2>2
<1>4. b * p \in Nat
  OBVIOUS
<1>5. b * q + m = b * p + k
  BY <1>2
<1> HIDE DEF a
<1>6. ~(p < q)
  <2>1. p < q => b * p + b <= b * q
    BY <1>3
  <2> QED BY <1>1, <1>4, <1>5, <2>1
<1>7. ~(q < p)
  <2>1. q < p => b * q + b <= b * p
    BY <1>3
  <2> QED BY <1>1, <1>4, <1>5, <2>1
<1>8. p = q
  BY <1>6, <1>7
<1>9. k = m
  BY <1>1, <1>5, <1>8
<1> QED BY <1>2, <1>8, <1>9 DEF a

-----------------------------------------------------------------------------
(* Heads, and the ranges of rows of the ranks.                             *)

LEMMA FiniteImage ==
  ASSUME NEW S, IsFiniteSet(S), NEW f, DOMAIN f = S, f = [x \in S |-> f[x]]
  PROVE  IsFiniteSet({f[x] : x \in S})
<1>1. f \in Surjection(S, {f[x] : x \in S})
  BY DEF Surjection
<1> QED BY <1>1, FS_Surjection

LEMMA Heads ==
  /\ n_hash_cols \in Nat \ {0} /\ part_n_hash_cols \in Nat \ {0} /\ NumRanks \in Nat \ {0}
  /\ n_hash_cols <= part_n_hash_cols * NumRanks
  /\ \A r \in RankIds : HeadStart(r) \in Nat /\ HeadStart(r) < n_hash_cols
  /\ \A h \in 1 .. n_hash_cols : HeadSizes[h] \in Nat \ {0}
<1> DEFINE n == n_hash_cols
           p == part_n_hash_cols
<1>1. n \in Nat /\ NumRanks \in Nat \ {0} /\ \A h \in 1 .. n : HeadSizes[h] \in Nat \ {0}
  BY GatherBounds DEF n_hash_cols
<1>2. /\ p \in Nat
      /\ n + NumRanks - 1 = NumRanks * p + ((n + NumRanks - 1) % NumRanks)
      /\ (n + NumRanks - 1) % NumRanks \in 0 .. NumRanks - 1
  <2>1. n + NumRanks - 1 \in Nat
    BY <1>1
  <2> QED BY <1>1, <2>1, DivFacts DEF part_n_hash_cols, CeilDiv
<1>3. HeadStart(NumRanks - 1) < n
  BY GatherBounds
<1> HIDE DEF n, p
<1>4. NumRanks * p \in Nat /\ n <= NumRanks * p /\ NumRanks * p = p * NumRanks
  BY <1>1, <1>2
<1>5. (NumRanks - 1) * p < n
  BY <1>3 DEF HeadStart, p
<1>6. n # 0
  <2>1. (NumRanks - 1) * p \in Nat
    BY <1>1, <1>2
  <2> QED BY <1>1, <1>5, <2>1
<1>7. p # 0
  BY <1>1, <1>4, <1>6
<1>8. ASSUME NEW r \in RankIds PROVE r * p \in Nat /\ r * p < n
  <2>1. PICK d \in Nat : NumRanks - 1 = r + d
    <3>1. (NumRanks - 1) - r \in Nat /\ NumRanks - 1 = r + ((NumRanks - 1) - r)
      BY <1>1 DEF RankIds
    <3> QED BY <3>1
  <2>2. r \in Nat
    BY <1>1 DEF RankIds
  <2>3. (NumRanks - 1) * p = r * p + d * p /\ r * p \in Nat /\ d * p \in Nat
    BY <1>2, <2>1, <2>2
  <2> QED BY <1>1, <1>5, <2>3
<1> QED BY <1>1, <1>2, <1>4, <1>6, <1>7, <1>8 DEF n, p, HeadStart

LEMMA Sums ==
  /\ \A k \in Int : SumHeads(k) \in Nat
  /\ \A j, k \in Int : j <= k => SumHeads(j) <= SumHeads(k)
  /\ \A j \in Int : \A k \in 1 .. n_hash_cols : j < k => SumHeads(j) < SumHeads(k)
  /\ \A k \in Int : SumHeads(k) <= SumHeads(n_hash_cols)
<1>1. n_hash_cols \in Nat /\ \A h \in 1 .. n_hash_cols : HeadSizes[h] \in Nat \ {0}
  BY Heads
<1>2. ASSUME NEW k \in Int PROVE IsFiniteSet(Buckets(k))
  <2> DEFINE H == {h \in 1 .. n_hash_cols : h <= k}
             f == [h \in H |-> {h} \X (1 .. HeadSizes[h])]
  <2>1. IsFiniteSet(1 .. n_hash_cols)
    BY <1>1, FS_Interval, 1 \in Int
  <2>2. IsFiniteSet(H)
    BY <2>1, FS_Subset
  <2>3. IsFiniteSet({f[h] : h \in H})
    <3>1. DOMAIN f = H /\ f = [h \in H |-> f[h]]
      OBVIOUS
    <3> HIDE DEF f, H
    <3> QED BY <2>2, <3>1, FiniteImage
  <2>4. ASSUME NEW h \in H PROVE IsFiniteSet(f[h])
    <3>1. IsFiniteSet({h}) /\ IsFiniteSet(1 .. HeadSizes[h])
      <4>1. 1 \in Int /\ HeadSizes[h] \in Int
        BY <1>1
      <4> QED BY <4>1, FS_Singleton, FS_Interval
    <3> QED BY <3>1, FS_Product
  <2>5. IsFiniteSet(UNION {f[h] : h \in H})
    BY <2>3, <2>4, FS_UNION
  <2>6. Buckets(k) = UNION {f[h] : h \in H}
    BY DEF Buckets
  <2> QED BY <2>5, <2>6
<1>3. \A k \in Int : SumHeads(k) \in Nat
  BY <1>2, FS_CardinalityType DEF SumHeads
<1>4. ASSUME NEW j \in Int, NEW k \in Int, j <= k PROVE Buckets(j) \subseteq Buckets(k)
  BY <1>1, <1>4 DEF Buckets
<1>5. ASSUME NEW j \in Int, NEW k \in Int, j <= k PROVE SumHeads(j) <= SumHeads(k)
  BY <1>2, <1>4, <1>5, FS_Subset DEF SumHeads
<1>6. ASSUME NEW j \in Int, NEW k \in 1 .. n_hash_cols, j < k PROVE SumHeads(j) < SumHeads(k)
  <2>1. k \in Int /\ Buckets(j) \subseteq Buckets(k)
    BY <1>4, <1>6
  <2>2. <<k, 1>> \in Buckets(k)
    <3>1. 1 \in 1 .. HeadSizes[k]
      BY <1>1
    <3> QED BY <3>1, <1>1 DEF Buckets
  <2>3. <<k, 1>> \notin Buckets(j)
    <3> SUFFICES ASSUME NEW h \in {i \in 1 .. n_hash_cols : i <= j},
                        <<k, 1>> \in {h} \X (1 .. HeadSizes[h])
                 PROVE  FALSE
      BY DEF Buckets
    <3>1. k = h
      OBVIOUS
    <3> QED BY <3>1, <1>6
  <2>4. /\ Cardinality(Buckets(j) \cup {<<k, 1>>}) = Cardinality(Buckets(j)) + 1
    BY <1>2, <2>3, FS_AddElement
  <2>5. Cardinality(Buckets(j) \cup {<<k, 1>>}) <= Cardinality(Buckets(k))
    BY <1>2, <2>1, <2>2, FS_Subset
  <2> QED BY <1>3, <2>1, <2>4, <2>5 DEF SumHeads
<1>7. ASSUME NEW k \in Int PROVE SumHeads(k) <= SumHeads(n_hash_cols)
  <2>1. Buckets(k) \subseteq Buckets(n_hash_cols) /\ n_hash_cols \in Int
    BY <1>1 DEF Buckets
  <2> QED BY <1>2, <2>1, FS_Subset DEF SumHeads
<1> QED BY <1>3, <1>5, <1>6, <1>7

LEMMA Ranges ==
  ASSUME NEW r \in RankIds
  PROVE  /\ VocabStart(r) \in Nat /\ VocabEnd(r) \in Nat
         /\ VocabStart(r) < SumHeads(n_hash_cols) /\ VocabEnd(r) <= SumHeads(n_hash_cols)
<1>1. /\ HeadStart(r) \in Nat /\ HeadStart(r) < n_hash_cols
      /\ n_hash_cols \in Nat \ {0} /\ part_n_hash_cols \in Nat
  BY Heads
<1>2. HeadStart(r) \in Int /\ HeadStart(r) + part_n_hash_cols \in Int /\ n_hash_cols \in 1 .. n_hash_cols
  BY <1>1
<1> QED BY <1>1, <1>2, Sums DEF VocabStart, VocabEnd

(* A hash in a bucket of the rank's heads is in the rank's range.          *)
LEMMA BucketOwned ==
  ASSUME NEW r \in RankIds, NEW h \in 1 .. n_hash_cols, NEW id \in Nat,
         HeadStart(r) < h, h <= HeadStart(r) + part_n_hash_cols,
         SumHeads(h - 1) <= id, id < SumHeads(h)
  PROVE  id >= VocabStart(r) /\ id < VocabEnd(r)
<1>1. HeadStart(r) \in Int /\ HeadStart(r) + part_n_hash_cols \in Int /\ h \in Int /\ h - 1 \in Int
  BY Heads
<1>2. HeadStart(r) <= h - 1
  BY <1>1
<1>3. /\ SumHeads(HeadStart(r)) <= SumHeads(h - 1)
      /\ SumHeads(h) <= SumHeads(HeadStart(r) + part_n_hash_cols)
  BY <1>1, <1>2, Sums
<1>4. /\ SumHeads(HeadStart(r)) \in Nat /\ SumHeads(h - 1) \in Nat /\ SumHeads(h) \in Nat
      /\ SumHeads(HeadStart(r) + part_n_hash_cols) \in Nat
  BY <1>1, Sums
<1> QED BY <1>3, <1>4 DEF VocabStart, VocabEnd

(* An entry is a padded column, or a hash that its rank owns.              *)
LEMMA EntryFacts ==
  ASSUME ids \in Batches, NEW l \in Layers, NEW r \in RankIds, NEW e \in Entries(l)
  PROVE  /\ \/ EntryId(r, l, e) = -1 /\ ~Owned(r, l, e)
            \/ EntryId(r, l, e) \in Nat /\ Owned(r, l, e)
         /\ Rel(r, l, e) \in Nat /\ VocabStart(r) + Rel(r, l, e) < SumHeads(n_hash_cols)
         /\ Owned(r, l, e) => VocabStart(r) + Rel(r, l, e) = EntryId(r, l, e)
<1> DEFINE p == part_n_hash_cols
           t == (e - 1) \div p + 1
           c == ((e - 1) % p) + 1
           id == EntryId(r, l, e)
<1>1. /\ ids[l] \in Seq([1 .. n_hash_cols -> Nat])
      /\ \A i \in DOMAIN ids[l] : \A h \in 1 .. n_hash_cols :
           SumHeads(h - 1) <= ids[l][i][h] /\ ids[l][i][h] < SumHeads(h)
  BY IdsInBuckets
<1>2. p \in Nat \ {0} /\ n_hash_cols \in Nat /\ HeadStart(r) \in Nat
  BY Heads
<1>3. e \in 1 .. Len(ids[l]) * p /\ Len(ids[l]) \in Nat
  BY <1>1 DEF Entries
<1>4. t \in 1 .. Len(ids[l]) /\ c \in 1 .. p
  <2>1. PICK q \in Nat, m \in 0 .. p - 1 : q = (e - 1) \div p /\ m = (e - 1) % p /\ e - 1 = p * q + m
    <3>1. e - 1 \in Nat
      BY <1>2, <1>3
    <3> QED BY <1>2, <3>1, DivFacts
  <2>2. q < Len(ids[l])
    <3> SUFFICES ASSUME Len(ids[l]) <= q PROVE FALSE
      BY <1>3
    <3>1. PICK d \in Nat : q = Len(ids[l]) + d
      <4>1. q - Len(ids[l]) \in Nat /\ q = Len(ids[l]) + (q - Len(ids[l]))
        BY <1>3
      <4> QED BY <4>1
    <3> HIDE DEF p
    <3>2. \A x, y \in Nat : p * (x + y) = x * p + p * y /\ p * y \in Nat /\ x * p \in Nat
      BY <1>2
    <3>3. p * q = Len(ids[l]) * p + p * d /\ p * d \in Nat /\ Len(ids[l]) * p \in Nat
      BY <1>3, <3>1, <3>2
    <3> QED BY <1>2, <1>3, <2>1, <3>3
  <2> HIDE DEF p
  <2> QED BY <1>2, <1>3, <2>1, <2>2
<1>5. id = IF HeadStart(r) + c <= n_hash_cols THEN ids[l][t][HeadStart(r) + c] ELSE -1
  BY DEF EntryId, LocalId
<1> HIDE DEF t, c, id
<1>6. VocabStart(r) \in Nat /\ VocabStart(r) < SumHeads(n_hash_cols) /\ VocabEnd(r) \in Nat
      /\ VocabEnd(r) <= SumHeads(n_hash_cols) /\ SumHeads(n_hash_cols) \in Nat
  BY Ranges, Sums, Heads
<1>7. CASE HeadStart(r) + c <= n_hash_cols
  <2> DEFINE h == HeadStart(r) + c
  <2>1. h \in 1 .. n_hash_cols /\ HeadStart(r) < h /\ h <= HeadStart(r) + part_n_hash_cols
    BY <1>2, <1>4, <1>7
  <2>2. t \in DOMAIN ids[l] /\ ids[l][t] \in [1 .. n_hash_cols -> Nat]
    BY <1>1, <1>4
  <2>3. id = ids[l][t][h]
    BY <1>5, <1>7
  <2> HIDE DEF h
  <2>4. id \in Nat /\ SumHeads(h - 1) <= id /\ id < SumHeads(h)
    BY <1>1, <2>1, <2>2, <2>3
  <2>5. id >= VocabStart(r) /\ id < VocabEnd(r)
    BY <2>1, <2>4, BucketOwned
  <2> QED BY <1>6, <2>4, <2>5 DEF Owned, Rel, id
<1>8. CASE ~(HeadStart(r) + c <= n_hash_cols)
  <2>1. id = -1
    BY <1>5, <1>8
  <2> QED BY <1>6, <2>1 DEF Owned, Rel, id
<1> QED BY <1>7, <1>8

-----------------------------------------------------------------------------
(* What is read.                                                           *)

LEMMA MissFacts ==
  ASSUME ids \in Batches, rank \in RankIds, NEW l \in Layers
  PROVE  /\ Uniq(l) \subseteq Nat /\ IsFiniteSet(Miss(l)) /\ Cardinality(Miss(l)) \in Nat
         /\ \A u \in Uniq(l) : VocabStart(rank) + u \in 0 .. SumHeads(n_hash_cols) - 1
         /\ \A u \in Miss(l) : Place(l, u) \in 1 .. Cardinality(Miss(l))
<1>1. VocabStart(rank) \in Nat /\ SumHeads(n_hash_cols) \in Nat
  BY Ranges, Sums, Heads
<1>2. \A u \in Uniq(l) : u \in Nat /\ VocabStart(rank) + u < SumHeads(n_hash_cols)
  BY EntryFacts DEF Uniq
<1>3. Uniq(l) \subseteq 0 .. SumHeads(n_hash_cols)
  BY <1>1, <1>2
<1>4. IsFiniteSet(0 .. SumHeads(n_hash_cols))
  <2>1. 0 \in Int /\ SumHeads(n_hash_cols) \in Int
    BY <1>1
  <2> QED BY <2>1, FS_Interval
<1>5. IsFiniteSet(Miss(l)) /\ Cardinality(Miss(l)) \in Nat
  <2>1. Miss(l) \subseteq 0 .. SumHeads(n_hash_cols)
    BY <1>3 DEF Miss
  <2> QED BY <1>4, <2>1, FS_Subset, FS_CardinalityType
<1>6. ASSUME NEW u \in Miss(l) PROVE Place(l, u) \in 1 .. Cardinality(Miss(l))
  <2> DEFINE V == {v \in Miss(l) : v <= u}
  <2>1. V \subseteq Miss(l) /\ u \in V
    BY <1>2 DEF Miss
  <2>2. IsFiniteSet(V) /\ Cardinality(V) <= Cardinality(Miss(l)) /\ Cardinality(V) \in Nat
    BY <1>5, <2>1, FS_Subset, FS_CardinalityType
  <2>3. Cardinality(V) # 0
    BY <2>1, <2>2, FS_EmptySet
  <2> QED BY <1>5, <2>2, <2>3 DEF Place
<1> QED BY <1>1, <1>2, <1>5, <1>6

LEMMA ChunkFacts ==
  ASSUME ids \in Batches, rank \in RankIds
  PROVE  ChunkRows \in Nat \ {0}
<1>1. IsFiniteSet(Parts)
  <2>1. Parts = ({} \cup {"w"}) \cup {"s"}
    BY DEF Parts
  <2>2. IsFiniteSet({} \cup {"w"})
    BY FS_EmptySet, FS_AddElement
  <2> QED BY <2>1, <2>2, FS_AddElement
<1> DEFINE f == [l \in Layers |-> {l} \X (Parts \X Miss(l))]
<1>2. IsFiniteSet(Layers)
  <2>1. 1 \in Int /\ NumLayers \in Int
    BY GatherBounds
  <2> QED BY <2>1, FS_Interval DEF Layers
<1>3. ASSUME NEW l \in Layers PROVE IsFiniteSet(f[l])
  <2>1. IsFiniteSet(Parts \X Miss(l)) /\ IsFiniteSet({l})
    BY <1>1, MissFacts, FS_Product, FS_Singleton
  <2> QED BY <2>1, FS_Product
<1>4. IsFiniteSet({f[l] : l \in Layers})
  <2>1. DOMAIN f = Layers /\ f = [l \in Layers |-> f[l]]
    OBVIOUS
  <2> HIDE DEF f
  <2> QED BY <1>2, <2>1, FiniteImage
<1>5. IsFiniteSet(UNION {f[l] : l \in Layers})
  <2> HIDE DEF f
  <2> QED BY <1>3, <1>4, FS_UNION
<1>6. Total \in Nat
  <2>1. UNION {f[l] : l \in Layers} = UNION {{l} \X (Parts \X Miss(l)) : l \in Layers}
    OBVIOUS
  <2> QED BY <1>5, <2>1, FS_CardinalityType DEF Total
<1>7. CeilDiv(Total, Threads) \in Nat
  <2>1. Total + Threads - 1 \in Nat /\ Threads \in Nat \ {0}
    BY <1>6, GatherBounds
  <2> QED BY <2>1, DivFacts DEF CeilDiv
<1> QED BY <1>7, GatherBounds DEF ChunkRows, Smaller

(* The chunks that start at multiples of c cover each place once.          *)
LEMMA OneChunk ==
  ASSUME NEW c \in Nat \ {0}, NEW n \in Nat, NEW k \in 1 .. n
  PROVE  \E lo \in {x \in 0 .. n - 1 : x % c = 0} :
           /\ lo < k /\ k <= Smaller(lo + c, n)
           /\ \A x \in 0 .. n - 1 : x % c = 0 /\ x < k /\ k <= Smaller(x + c, n) => x = lo
<1> DEFINE q == (k - 1) \div c
<1>1. k - 1 \in Nat /\ q \in Nat /\ (k - 1) % c \in 0 .. c - 1 /\ k - 1 = c * q + ((k - 1) % c)
  <2>1. k - 1 \in Nat
    OBVIOUS
  <2> QED BY <2>1, DivFacts
<1> HIDE DEF q
<1>2. c * q \in 0 .. n - 1 /\ c * q < k /\ k <= c * q + c
  <2>1. c * q \in Nat
    BY <1>1
  <2> QED BY <1>1, <2>1
<1>3. (c * q) % c = 0
  <2>1. 0 \in 0 .. c - 1 /\ c * q + 0 = c * q
    BY <1>1
  <2>2. (c * q + 0) % c = 0
    BY <1>1, <2>1, DivUnique
  <2> QED BY <2>1, <2>2
<1>4. ASSUME NEW x \in 0 .. n - 1, x % c = 0, x < k, k <= x + c PROVE x = c * q
  <2>1. x \in Nat /\ x \div c \in Nat /\ x = c * (x \div c) + (x % c)
    BY DivFacts
  <2>2. PICK y \in Nat : x = c * y
    BY <1>4, <2>1
  <2>3. (k - 1) - x \in 0 .. c - 1 /\ k - 1 = c * y + ((k - 1) - x)
    BY <1>4, <2>1, <2>2
  <2>4. (c * y + ((k - 1) - x)) \div c = y
    BY <2>3, DivUnique
  <2>5. q = y
    BY <2>3, <2>4 DEF q
  <2> QED BY <2>2, <2>5
<1>5. \A x \in 0 .. n - 1 : k <= Smaller(x + c, n) <=> k <= x + c
  BY DEF Smaller
<1> QED BY <1>2, <1>3, <1>4, <1>5

LEMMA TaskShape ==
  ASSUME NEW t \in Tasks
  PROVE  /\ t.layer \in Layers /\ t.of \in Parts
         /\ t.lo \in 0 .. Cardinality(Miss(t.layer)) - 1 /\ t.lo % ChunkRows = 0
         /\ t = [layer |-> t.layer, of |-> t.of, lo |-> t.lo,
                 hi |-> Smaller(t.lo + ChunkRows, Cardinality(Miss(t.layer)))]
BY DEF Tasks

LEMMA Covered ==
  ASSUME ids \in Batches, rank \in RankIds, NEW l \in Layers, NEW of \in Parts, NEW u \in Miss(l)
  PROVE  \E t \in Tasks :
           {x \in Tasks : x.layer = l /\ x.of = of /\ u \in Rows(x)} = {t}
<1> DEFINE n == Cardinality(Miss(l))
           k == Place(l, u)
           c == ChunkRows
           task_(lo) == [layer |-> l, of |-> of, lo |-> lo, hi |-> Smaller(lo + c, n)]
           Los == {x \in 0 .. n - 1 : x % c = 0}
<1>1. c \in Nat \ {0} /\ n \in Nat /\ k \in 1 .. n
  BY ChunkFacts, MissFacts
<1>2. PICK lo \in Los :
        /\ lo < k /\ k <= Smaller(lo + c, n)
        /\ \A x \in 0 .. n - 1 : x % c = 0 /\ x < k /\ k <= Smaller(x + c, n) => x = lo
  <2> HIDE DEF c, n, k
  <2> QED BY <1>1, OneChunk
<1>3. task_(lo) \in Tasks
  BY <1>2 DEF Tasks
<1>4. u \in Rows(task_(lo))
  BY <1>2 DEF Rows
<1>5. ASSUME NEW x \in Tasks, x.layer = l, x.of = of, u \in Rows(x) PROVE x = task_(lo)
  <2>1. x.lo \in 0 .. n - 1 /\ x.lo % c = 0 /\ x = task_(x.lo)
    BY <1>5, TaskShape
  <2>2. x.lo < k /\ k <= x.hi /\ x.hi = Smaller(x.lo + c, n)
    BY <1>5, <2>1 DEF Rows
  <2>3. x.lo = lo
    BY <1>2, <2>1, <2>2
  <2> QED BY <2>1, <2>3
<1>6. {x \in Tasks : x.layer = l /\ x.of = of /\ u \in Rows(x)} = {task_(lo)}
  BY <1>3, <1>4, <1>5
<1> QED BY <1>3, <1>6

-----------------------------------------------------------------------------
(* The invariant: an entry of a buffer holds its row from the time it was  *)
(* resident or its task was done.                                          *)

Started == phase \in {"reading", "done", "error"}
WasRead(l, of, u) ==
  \E t \in Tasks : t.layer = l /\ t.of = of /\ u \in Rows(t) /\ task[t] = "done"
Holds(buf, of) ==
  \A l \in Layers : \A u \in Uniq(l) :
    buf[l][u] = IF Hit(l, u) \/ WasRead(l, of, u) THEN VocabStart(rank) + u ELSE None

Pending ==
  /\ rank \in RankIds
  /\ phase # "idle" => ids \in Batches
  /\ ~Started => DOMAIN task = {}
  /\ Started => /\ task \in [Tasks -> {"queued", "done", "failed"}]
                /\ DOMAIN w = Layers /\ DOMAIN s = Layers
                /\ Holds(w, "w") /\ Holds(s, "s")

GInv == TypeOK /\ Pending /\ GatherExact

(* What is unique, resident and missing depends on the batch only.         *)
LEMMA Same ==
  ASSUME UNCHANGED <<rank, hot, ids>>
  PROVE  /\ \A l : Uniq(l)' = Uniq(l) /\ Miss(l)' = Miss(l) /\ Entries(l)' = Entries(l)
         /\ \A l, u : (Hit(l, u)' <=> Hit(l, u)) /\ Place(l, u)' = Place(l, u)
         /\ \A l, u : HotAt(l, u)' = HotAt(l, u)
         /\ \A l, e : EntryId(rank, l, e)' = EntryId(rank, l, e)
         /\ \A t : Rows(t)' = Rows(t)
         /\ Tasks' = Tasks
         /\ VocabStart(rank)' = VocabStart(rank)
<1>1. ASSUME NEW l
      PROVE  /\ Entries(l)' = Entries(l) /\ HotIds(l)' = HotIds(l)
             /\ \A e : EntryId(rank, l, e)' = EntryId(rank, l, e)
             /\ \A e : Rel(rank, l, e)' = Rel(rank, l, e)
  BY DEF Entries, HotIds, EntryId, Rel, Owned
<1>2. VocabStart(rank)' = VocabStart(rank)
  OBVIOUS
<1>3. ASSUME NEW l PROVE Uniq(l)' = Uniq(l)
  BY <1>1 DEF Uniq
<1>4. ASSUME NEW l, NEW u PROVE HotAt(l, u)' = HotAt(l, u)
  BY <1>1 DEF HotAt
<1>5. ASSUME NEW l, NEW u PROVE Hit(l, u)' <=> Hit(l, u)
  BY <1>1, <1>4 DEF Hit
<1>6. ASSUME NEW l PROVE Miss(l)' = Miss(l)
  BY <1>3, <1>5 DEF Miss
<1>7. ASSUME NEW l, NEW u PROVE Place(l, u)' = Place(l, u)
  BY <1>6 DEF Place
<1>8. ASSUME NEW t PROVE Rows(t)' = Rows(t)
  BY <1>6, <1>7 DEF Rows
<1>9. Total' = Total
  BY <1>6 DEF Total
<1>10. ChunkRows' = ChunkRows
  BY <1>9 DEF ChunkRows
<1>11. Tasks' = Tasks
  BY <1>6, <1>10 DEF Tasks
<1> QED BY <1>1, <1>2, <1>3, <1>4, <1>5, <1>6, <1>7, <1>8, <1>11

LEMMA InitGInv == Init => GInv
<1> SUFFICES ASSUME Init PROVE GInv
  OBVIOUS
<1>1. DOMAIN task = {} /\ phase = "idle" /\ rank \in RankIds
  BY DEF Init, RankIds
<1> QED BY <1>1 DEF GInv, TypeOK, Pending, Started, GatherExact

LEMMA RowsOfTable ==
  ASSUME ids \in Batches, rank \in RankIds, NEW l \in Layers, NEW u \in Uniq(l)
  PROVE  VocabStart(rank) + u \in AnyRow /\ None \in AnyRow
<1>1. VocabStart(rank) + u \in 0 .. SumHeads(n_hash_cols) - 1 /\ SumHeads(n_hash_cols) \in Nat
  BY MissFacts, Sums, Heads
<1> QED BY <1>1 DEF AnyRow, None

LEMMA SubmitStep == GInv /\ Submit => GInv'
<1> SUFFICES ASSUME GInv, Submit PROVE GInv'
  OBVIOUS
<1> DEFINE row(l, u) == IF Hit(l, u) THEN VocabStart(rank) + HotAt(l, u) ELSE None
           resident == [l \in Layers |-> [u \in Uniq(l) |-> row(l, u)]]
<1>1. /\ rank \in RankIds /\ ids \in Batches /\ UNCHANGED <<rank, hot, ids>>
      /\ w' = resident /\ s' = resident
      /\ task' = [t \in Tasks |-> "queued"] /\ phase' = "reading"
  BY DEF GInv, Pending, Submit
<1>2. \A l, u : Hit(l, u) => HotAt(l, u) = u
  BY DEF Hit
<1>3. /\ Tasks' = Tasks /\ VocabStart(rank)' = VocabStart(rank)
      /\ \A l : Uniq(l)' = Uniq(l)
      /\ \A l, u : Hit(l, u)' <=> Hit(l, u)
  BY <1>1, Same
<1>4. ASSUME NEW l \in Layers, NEW u \in Uniq(l)
      PROVE  /\ row(l, u) = IF Hit(l, u) THEN VocabStart(rank) + u ELSE None
             /\ row(l, u) \in AnyRow
  BY <1>1, <1>2, RowsOfTable
<1>5. \A l, of : ~WasRead(l, of, 0)' /\ \A u : ~WasRead(l, of, u)'
  BY <1>1, <1>3 DEF WasRead
<1> HIDE DEF row
<1>6. \A l \in Layers : resident[l] \in [Uniq(l) -> AnyRow]
  BY <1>4
<1>7. \A l \in Layers : \A u \in Uniq(l) : resident[l][u] = row(l, u)
  OBVIOUS
<1>8. DOMAIN resident = Layers
  OBVIOUS
<1> HIDE DEF resident
<1>9. Holds(w, "w")' /\ Holds(s, "s")'
  BY <1>1, <1>3, <1>4, <1>5, <1>7 DEF Holds
<1>10. task' \in [Tasks' -> {"queued", "done", "failed"}]
  BY <1>1, <1>3
<1>11. Pending'
  BY <1>1, <1>8, <1>9, <1>10 DEF Pending, Started
<1>12. TypeOK'
  BY <1>1, <1>3, <1>6, <1>10 DEF TypeOK, AnyRow
<1>13. GatherExact'
  BY <1>1 DEF GatherExact
<1> QED BY <1>11, <1>12, <1>13 DEF GInv

(* The entries a task writes are those of its rows; no other task of the   *)
(* same part has them.                                                     *)
LEMMA RunStep ==
  ASSUME GInv, NEW t \in DOMAIN task, RunTask(t)
  PROVE  GInv'
<1> DEFINE read(buf) == [u \in DOMAIN buf |->
                           IF u \in Rows(t) THEN VocabStart(rank) + u ELSE buf[u]]
<1>1. /\ Started /\ ids \in Batches /\ rank \in RankIds
      /\ task \in [Tasks -> {"queued", "done", "failed"}] /\ t \in Tasks
      /\ DOMAIN w = Layers /\ DOMAIN s = Layers /\ Holds(w, "w") /\ Holds(s, "s")
  BY DEF GInv, Pending, Started
<1>2. /\ task' = [task EXCEPT ![t] = "done"]
      /\ w' = IF t.of = "w" THEN [w EXCEPT ![t.layer] = read(w[t.layer])] ELSE w
      /\ s' = IF t.of = "s" THEN [s EXCEPT ![t.layer] = read(s[t.layer])] ELSE s
      /\ UNCHANGED <<rank, hot, phase, ids, out>>
  BY DEF RunTask
<1>3. /\ Tasks' = Tasks /\ VocabStart(rank)' = VocabStart(rank)
      /\ \A l : Uniq(l)' = Uniq(l) /\ Entries(l)' = Entries(l)
      /\ \A l, u : Hit(l, u)' <=> Hit(l, u)
      /\ \A x : Rows(x)' = Rows(x)
      /\ \A l, e : EntryId(rank, l, e)' = EntryId(rank, l, e)
  BY <1>2, Same
<1>4. t.layer \in Layers
  BY <1>1, TaskShape
<1>5. \A l \in Layers : w[l] \in [Uniq(l) -> AnyRow] /\ s[l] \in [Uniq(l) -> AnyRow]
  BY <1>1 DEF GInv, TypeOK, Started
<1>6. ASSUME NEW l \in Layers, NEW of, NEW u
      PROVE  WasRead(l, of, u)' <=>
               WasRead(l, of, u) \/ (t.layer = l /\ t.of = of /\ u \in Rows(t))
  <2>1. \A x \in Tasks : task'[x] = "done" <=> x = t \/ task[x] = "done"
    BY <1>1, <1>2
  <2> QED BY <1>1, <1>3, <2>1 DEF WasRead
<1>7. ASSUME NEW buf, NEW new, NEW of \in Parts, Holds(buf, of), DOMAIN buf = Layers,
             \A l \in Layers : buf[l] \in [Uniq(l) -> AnyRow],
             new = IF t.of = of THEN [buf EXCEPT ![t.layer] = read(buf[t.layer])] ELSE buf
      PROVE  /\ DOMAIN new = Layers
             /\ \A l \in Layers : new[l] \in [Uniq(l) -> AnyRow]
             /\ \A l \in Layers : \A u \in Uniq(l) :
                  new[l][u] = IF Hit(l, u) \/ WasRead(l, of, u)' THEN VocabStart(rank) + u ELSE None
  <2>1. DOMAIN new = Layers
    BY <1>7
  <2>2. ASSUME NEW l \in Layers
        PROVE  /\ new[l] \in [Uniq(l) -> AnyRow]
               /\ \A u \in Uniq(l) : new[l][u] = IF t.of = of /\ t.layer = l /\ u \in Rows(t)
                                                 THEN VocabStart(rank) + u ELSE buf[l][u]
    <3>1. CASE t.of = of /\ t.layer = l
      <4>1. new[l] = read(buf[l]) /\ DOMAIN buf[l] = Uniq(l)
        BY <1>4, <1>7, <3>1
      <4>2. \A u \in Uniq(l) : VocabStart(rank) + u \in AnyRow
        BY <1>1, RowsOfTable
      <4> QED BY <1>7, <3>1, <4>1, <4>2
    <3>2. CASE ~(t.of = of /\ t.layer = l)
      <4>1. new[l] = buf[l]
        BY <1>4, <1>7, <3>2
      <4> QED BY <1>7, <3>2, <4>1
    <3> QED BY <3>1, <3>2
  <2>3. ASSUME NEW l \in Layers, NEW u \in Uniq(l)
        PROVE  new[l][u] = IF Hit(l, u) \/ WasRead(l, of, u)' THEN VocabStart(rank) + u ELSE None
    <3>1. buf[l][u] = IF Hit(l, u) \/ WasRead(l, of, u) THEN VocabStart(rank) + u ELSE None
      BY <1>7 DEF Holds
    <3> QED BY <1>6, <2>2, <3>1
  <2> QED BY <2>1, <2>2, <2>3
<1>8. /\ DOMAIN w' = Layers /\ DOMAIN s' = Layers /\ Holds(w, "w")' /\ Holds(s, "s")'
      /\ \A l \in Layers : w'[l] \in [Uniq(l) -> AnyRow] /\ s'[l] \in [Uniq(l) -> AnyRow]
  <2>1. "w" \in Parts /\ "s" \in Parts
    BY DEF Parts
  <2>2. /\ DOMAIN w' = Layers /\ \A l \in Layers : w'[l] \in [Uniq(l) -> AnyRow]
        /\ \A l \in Layers : \A u \in Uniq(l) :
             w'[l][u] = IF Hit(l, u) \/ WasRead(l, "w", u)' THEN VocabStart(rank) + u ELSE None
    BY <1>1, <1>2, <1>5, <1>7, <2>1
  <2>3. /\ DOMAIN s' = Layers /\ \A l \in Layers : s'[l] \in [Uniq(l) -> AnyRow]
        /\ \A l \in Layers : \A u \in Uniq(l) :
             s'[l][u] = IF Hit(l, u) \/ WasRead(l, "s", u)' THEN VocabStart(rank) + u ELSE None
    BY <1>1, <1>2, <1>5, <1>7, <2>1
  <2> QED BY <1>3, <2>2, <2>3 DEF Holds
<1>9. task' \in [Tasks' -> {"queued", "done", "failed"}]
  BY <1>1, <1>2, <1>3
<1>10. Pending'
  BY <1>1, <1>2, <1>8, <1>9 DEF Pending, Started
<1>11. TypeOK'
  BY <1>2, <1>3, <1>8, <1>9 DEF GInv, TypeOK, AnyRow
<1>12. GatherExact'
  BY <1>2, <1>3 DEF GInv, GatherExact
<1> QED BY <1>10, <1>11, <1>12 DEF GInv

LEMMA TaskFailsStep ==
  ASSUME GInv, NEW t \in DOMAIN task, TaskFails(t)
  PROVE  GInv'
<1>1. /\ Started /\ task \in [Tasks -> {"queued", "done", "failed"}] /\ t \in Tasks
      /\ rank \in RankIds /\ ids \in Batches
      /\ DOMAIN w = Layers /\ DOMAIN s = Layers /\ Holds(w, "w") /\ Holds(s, "s")
  BY DEF GInv, Pending, Started
<1>2. /\ task' = [task EXCEPT ![t] = "failed"] /\ task[t] = "queued"
      /\ UNCHANGED <<rank, hot, phase, ids, w, s, out>>
  BY DEF TaskFails
<1>3. /\ Tasks' = Tasks /\ VocabStart(rank)' = VocabStart(rank)
      /\ \A l : Uniq(l)' = Uniq(l) /\ Entries(l)' = Entries(l)
      /\ \A l, u : Hit(l, u)' <=> Hit(l, u)
      /\ \A x : Rows(x)' = Rows(x)
      /\ \A l, e : EntryId(rank, l, e)' = EntryId(rank, l, e)
  BY <1>2, Same
<1>4. \A x \in Tasks : task'[x] = "done" <=> task[x] = "done"
  BY <1>1, <1>2
<1>5. \A l, of, u : WasRead(l, of, u)' <=> WasRead(l, of, u)
  BY <1>3, <1>4 DEF WasRead
<1>6. Holds(w, "w")' /\ Holds(s, "s")'
  BY <1>1, <1>2, <1>3, <1>5 DEF Holds
<1>7. task' \in [Tasks' -> {"queued", "done", "failed"}]
  BY <1>1, <1>2, <1>3
<1>8. Pending'
  BY <1>1, <1>2, <1>6, <1>7 DEF Pending, Started
<1>9. TypeOK'
  BY <1>2, <1>3, <1>7 DEF GInv, TypeOK, AnyRow
<1>10. GatherExact'
  BY <1>2, <1>3 DEF GInv, GatherExact
<1> QED BY <1>8, <1>9, <1>10 DEF GInv

(* When no task is left, every entry holds its row.                        *)
LEMMA CollectStep == GInv /\ Collect => GInv'
<1> SUFFICES ASSUME GInv, Collect PROVE GInv'
  OBVIOUS
<1>1. /\ phase = "reading" /\ ids \in Batches /\ rank \in RankIds
      /\ task \in [Tasks -> {"queued", "done", "failed"}]
      /\ DOMAIN w = Layers /\ DOMAIN s = Layers /\ Holds(w, "w") /\ Holds(s, "s")
      /\ \A t \in Tasks : task[t] = "done"
  BY DEF GInv, Pending, Started, Collect
<1>2. /\ phase' = "done" /\ UNCHANGED <<rank, hot, ids, task, w, s>>
      /\ out' = [l \in Layers |-> [e \in Entries(l) |-> Dequantized(l, e)]]
  BY DEF Collect
<1>3. /\ Tasks' = Tasks /\ VocabStart(rank)' = VocabStart(rank)
      /\ \A l : Uniq(l)' = Uniq(l) /\ Entries(l)' = Entries(l)
      /\ \A l, u : Hit(l, u)' <=> Hit(l, u)
      /\ \A x : Rows(x)' = Rows(x)
      /\ \A l, e : EntryId(rank, l, e)' = EntryId(rank, l, e)
  BY <1>2, Same
<1>4. ASSUME NEW l \in Layers, NEW u \in Uniq(l), NEW of \in Parts
      PROVE  Hit(l, u) \/ WasRead(l, of, u)
  <2>1. CASE u \in Miss(l)
    <3>1. PICK t \in Tasks : {x \in Tasks : x.layer = l /\ x.of = of /\ u \in Rows(x)} = {t}
      BY <1>1, <2>1, Covered
    <3>2. t.layer = l /\ t.of = of /\ u \in Rows(t)
      BY <3>1
    <3> QED BY <1>1, <3>2 DEF WasRead
  <2>2. CASE u \notin Miss(l)
    BY <2>2 DEF Miss
  <2> QED BY <2>1, <2>2
<1>5. ASSUME NEW l \in Layers, NEW u \in Uniq(l)
      PROVE  w[l][u] = VocabStart(rank) + u /\ s[l][u] = VocabStart(rank) + u
  <2>1. "w" \in Parts /\ "s" \in Parts
    BY DEF Parts
  <2> QED BY <1>1, <1>4, <2>1 DEF Holds
<1>6. ASSUME NEW l \in Layers, NEW e \in Entries(l)
      PROVE  LET id == EntryId(rank, l, e) IN
             /\ Dequantized(l, e) = IF id = -1 THEN Zero ELSE <<id, id>>
             /\ Dequantized(l, e) \in AnyRow \X AnyRow
  <2> DEFINE u == Rel(rank, l, e)
             id == EntryId(rank, l, e)
  <2>1. /\ \/ id = -1 /\ ~Owned(rank, l, e)
           \/ id \in Nat /\ Owned(rank, l, e)
        /\ Owned(rank, l, e) => VocabStart(rank) + u = id
    BY <1>1, EntryFacts
  <2>2. u \in Uniq(l)
    BY DEF Uniq
  <2>3. VocabStart(rank) + u \in AnyRow /\ None \in AnyRow
    BY <1>1, <2>2, RowsOfTable
  <2>4. w[l][u] = VocabStart(rank) + u /\ s[l][u] = VocabStart(rank) + u
    BY <1>5, <2>2
  <2>5. Dequantized(l, e) = IF Owned(rank, l, e) THEN <<w[l][u], s[l][u]>> ELSE Zero
    BY DEF Dequantized
  <2> HIDE DEF u, id
  <2>6. CASE Owned(rank, l, e)
    <3>1. id # -1 /\ Dequantized(l, e) = <<id, id>> /\ id \in AnyRow
      BY <2>1, <2>3, <2>4, <2>5, <2>6
    <3> QED BY <3>1 DEF id
  <2>7. CASE ~Owned(rank, l, e)
    <3>1. id = -1 /\ Dequantized(l, e) = Zero
      BY <2>1, <2>5, <2>7
    <3> QED BY <2>3, <3>1 DEF id, Zero
  <2> QED BY <2>6, <2>7
<1>7. \A l, of, u : WasRead(l, of, u)' <=> WasRead(l, of, u)
  BY <1>2, <1>3 DEF WasRead
<1>8. Pending'
  <2>1. Holds(w, "w")' /\ Holds(s, "s")'
    BY <1>1, <1>2, <1>3, <1>7 DEF Holds
  <2> QED BY <1>1, <1>2, <1>3, <2>1 DEF Pending, Started
<1>9. \A l \in Layers : out'[l] \in [Entries(l) -> AnyRow \X AnyRow]
  BY <1>2, <1>6
<1>10. TypeOK'
  BY <1>1, <1>2, <1>3, <1>9 DEF GInv, TypeOK, AnyRow
<1>11. GatherExact'
  <2>1. ASSUME NEW l \in Layers, NEW e \in Entries(l)
        PROVE  LET id == EntryId(rank, l, e) IN out'[l][e] = IF id = -1 THEN Zero ELSE <<id, id>>
    BY <1>2, <1>6
  <2> QED BY <1>2, <1>3, <2>1 DEF GatherExact
<1> QED BY <1>8, <1>10, <1>11 DEF GInv

LEMMA GInvStep == GInv /\ [Next]_vars => GInv'
<1> SUFFICES ASSUME GInv, [Next]_vars PROVE GInv'
  OBVIOUS
<1>1. CASE Plan
  BY <1>1 DEF Plan, GInv, TypeOK, Pending, Started, GatherExact
<1>2. CASE Submit
  BY <1>2, SubmitStep
<1>3. ASSUME NEW t \in DOMAIN task, RunTask(t) PROVE GInv'
  BY <1>3, RunStep
<1>4. ASSUME NEW t \in DOMAIN task, TaskFails(t) PROVE GInv'
  BY <1>4, TaskFailsStep
<1>5. CASE Collect
  BY <1>5, CollectStep
<1>6. CASE CollectRaises \/ UNCHANGED vars
  <2>1. /\ UNCHANGED <<rank, hot, ids, task, w, s, out>>
        /\ phase' = phase \/ (phase = "reading" /\ phase' = "error")
    BY <1>6 DEF CollectRaises, vars
  <2>2. /\ Tasks' = Tasks /\ VocabStart(rank)' = VocabStart(rank)
        /\ \A l : Uniq(l)' = Uniq(l) /\ Entries(l)' = Entries(l)
        /\ \A l, u : Hit(l, u)' <=> Hit(l, u)
        /\ \A x : Rows(x)' = Rows(x)
        /\ \A l, e : EntryId(rank, l, e)' = EntryId(rank, l, e)
    BY <2>1, Same
  <2>3. \A l, of, u : WasRead(l, of, u)' <=> WasRead(l, of, u)
    BY <2>1, <2>2 DEF WasRead
  <2>4. Holds(w, "w") => Holds(w, "w")'
    BY <2>1, <2>2, <2>3 DEF Holds
  <2>5. Holds(s, "s") => Holds(s, "s")'
    BY <2>1, <2>2, <2>3 DEF Holds
  <2>6. Pending'
    BY <2>1, <2>2, <2>4, <2>5 DEF GInv, Pending, Started
  <2>7. TypeOK'
    BY <2>1, <2>2 DEF GInv, TypeOK, AnyRow
  <2>8. GatherExact'
    BY <2>1, <2>2 DEF GInv, GatherExact
  <2> QED BY <2>6, <2>7, <2>8 DEF GInv
<1> QED BY <1>1, <1>2, <1>3, <1>4, <1>5, <1>6 DEF Next

LEMMA Invariance == Spec => []GInv
BY InitGInv, GInvStep, PTL DEF Spec

-----------------------------------------------------------------------------

(* Every row number in a buffer or an output is one of the table.          *)
THEOREM TypeCorrect == Spec => []TypeOK
<1>1. GInv => TypeOK
  BY DEF GInv
<1> QED BY <1>1, Invariance, PTL

(* gather_dequant_many returns the rows the hashes name, whatever is       *)
(* resident, however the pool schedules its tasks and whichever fails.     *)
THEOREM Exact == Spec => []GatherExact
<1>1. GInv => GatherExact
  BY DEF GInv
<1> QED BY <1>1, Invariance, PTL

(* _kai_parallel_read covers every missing row once, for every number of   *)
(* rows and threads and every size of a chunk.                             *)
THEOREM Partition == Spec => []TasksPartitionMisses
<1>1. GInv => TasksPartitionMisses
  <2> SUFFICES ASSUME GInv, phase = "reading", NEW l \in Layers, NEW part \in Parts, NEW u \in Miss(l)
               PROVE  Cardinality({t \in DOMAIN task : t.layer = l /\ t.of = part /\ u \in Rows(t)}) = 1
    BY DEF TasksPartitionMisses
  <2>1. ids \in Batches /\ rank \in RankIds /\ DOMAIN task = Tasks
    BY DEF GInv, Pending, Started
  <2>2. PICK t \in Tasks : {x \in Tasks : x.layer = l /\ x.of = part /\ u \in Rows(x)} = {t}
    BY <2>1, Covered
  <2> QED BY <2>1, <2>2, FS_Singleton
<1> QED BY <1>1, Invariance, PTL

(* The ranges of ParallelEngramEmbedding: every hash is owned by the rank  *)
(* of its head, at the place where the all-gather expects it.              *)
THEOREM Cover == Spec => []ShardsCoverHeads
<1>1. GInv => ShardsCoverHeads
  <2> SUFFICES ASSUME GInv, phase = "plan", NEW l \in Layers, NEW t \in DOMAIN ids[l],
                      NEW h \in 1 .. n_hash_cols
               PROVE  LET r == (h - 1) \div part_n_hash_cols
                          e == (t - 1) * part_n_hash_cols + ((h - 1) % part_n_hash_cols) + 1 IN
                      /\ r < NumRanks
                      /\ Owned(r, l, e)
                      /\ VocabStart(r) + Rel(r, l, e) = ids[l][t][h]
    BY DEF ShardsCoverHeads
  <2> DEFINE p == part_n_hash_cols
             r == (h - 1) \div p
             m == (h - 1) % p
             e == (t - 1) * p + m + 1
  <2>1. ids \in Batches
    BY DEF GInv, Pending
  <2>2. ids[l] \in Seq([1 .. n_hash_cols -> Nat])
    BY <2>1, IdsInBuckets
  <2>3. t \in 1 .. Len(ids[l]) /\ Len(ids[l]) \in Nat
    BY <2>2
  <2>4. /\ p \in Nat \ {0} /\ n_hash_cols \in Nat /\ NumRanks \in Nat \ {0}
        /\ n_hash_cols <= p * NumRanks
    BY Heads
  <2>5. r \in Nat /\ m \in 0 .. p - 1 /\ h - 1 = p * r + m
    <3>1. h - 1 \in Nat
      BY <2>4
    <3> QED BY <2>4, <3>1, DivFacts
  <2> HIDE DEF p, r, m
  <2>6. \A x, y \in Nat : x <= y => p * x <= p * y
    <3> SUFFICES ASSUME NEW x \in Nat, NEW y \in Nat, x <= y PROVE p * x <= p * y
      OBVIOUS
    <3>1. PICK d \in Nat : y = x + d
      <4>1. y - x \in Nat /\ y = x + (y - x)
        OBVIOUS
      <4> QED BY <4>1
    <3>2. p * (x + d) = p * x + p * d /\ p * d \in Nat /\ p * x \in Nat
      BY <2>4
    <3> QED BY <3>1, <3>2
  <2>7. r < NumRanks /\ r \in RankIds
    <3> SUFFICES ASSUME NumRanks <= r PROVE FALSE
      BY <2>4, <2>5 DEF RankIds
    <3>1. p * NumRanks <= p * r /\ p * NumRanks \in Nat /\ p * r \in Nat
      BY <2>4, <2>5, <2>6
    <3> QED BY <2>4, <2>5, <3>1
  <2>8. /\ e \in Entries(l)
        /\ (e - 1) \div p + 1 = t /\ ((e - 1) % p) + 1 = m + 1
    <3>1. t - 1 \in Nat /\ e - 1 = p * (t - 1) + m /\ p * (t - 1) \in Nat
      BY <2>3, <2>4, <2>5
    <3>2. (e - 1) \div p = t - 1 /\ (e - 1) % p = m
      BY <2>4, <2>5, <3>1, DivUnique
    <3>3. p * (t - 1) + p = p * t /\ p * t <= p * Len(ids[l]) /\ p * Len(ids[l]) = Len(ids[l]) * p
          /\ p * t \in Nat /\ p * Len(ids[l]) \in Nat
      BY <2>3, <2>4, <2>6
    <3>4. e \in 1 .. Len(ids[l]) * p
      BY <2>4, <2>5, <3>1, <3>3
    <3> QED BY <2>3, <3>2, <3>4 DEF Entries, p
  <2>9. HeadStart(r) + (m + 1) = h
    <3>1. HeadStart(r) = p * r
      BY <2>4, <2>5 DEF HeadStart, p
    <3> QED BY <2>4, <2>5, <3>1
  <2>10. EntryId(r, l, e) = ids[l][t][h]
    BY <2>4, <2>8, <2>9 DEF EntryId, LocalId, p
  <2>11. ids[l][t][h] \in Nat
    <3>1. ids[l][t] \in [1 .. n_hash_cols -> Nat]
      BY <2>2, <2>3
    <3> QED BY <3>1
  <2>12. Owned(r, l, e) /\ VocabStart(r) + Rel(r, l, e) = EntryId(r, l, e)
    BY <2>1, <2>7, <2>8, <2>10, <2>11, EntryFacts
  <2> QED BY <2>7, <2>10, <2>12 DEF p, r, m
<1> QED BY <1>1, Invariance, PTL

===============================================================================
