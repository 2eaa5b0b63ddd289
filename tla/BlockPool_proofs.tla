--------------------------- MODULE BlockPool_proofs ---------------------------
(***************************************************************************)
(* Proofs about the block pool.  For every number of blocks: the links of  *)
(* FreeBlockQueue always form one list of exactly the free blocks, the     *)
(* assertions of the class cannot fire, a resumed generator yields only    *)
(* free blocks, and the list implements FreeQueue.  For every prompt and   *)
(* block size: the hashes of PrefixHash, computed a few blocks at a time,  *)
(* are equal exactly when the prefixes they stand for are.                 *)
(***************************************************************************)
EXTENDS FreeBlockQueue, PrefixHash, SequenceTheorems, FiniteSetTheorems,
        WellFoundedInduction, TLAPS

(* A list of blocks as the backends need it: length, domain, elements.     *)
LEMMA ListFacts ==
  ASSUME NEW s \in BlockLists
  PROVE  /\ s \in Seq(Blocks) /\ Len(s) \in Nat /\ Len(s) <= NumBlocks
         /\ DOMAIN s = 1 .. Len(s)
         /\ \A i \in 1 .. Len(s) : s[i] \in Blocks
         /\ \A i, j \in 1 .. Len(s) : s[i] = s[j] => i = j
         /\ Range(s) = {s[i] : i \in 1 .. Len(s)}
<1>1. PICK n \in 0 .. NumBlocks : s \in [1 .. n -> Blocks] /\ Distinct(s)
  BY NumBlocksNat DEF BlockLists
<1>2. s \in Seq(Blocks) /\ Len(s) = n
  BY <1>1, NumBlocksNat
<1>3. DOMAIN s = 1 .. Len(s)
  BY <1>1, <1>2
<1> QED
  BY <1>1, <1>2, <1>3, NumBlocksNat DEF Distinct, Range

(* Pigeonhole: a duplicate-free sequence of blocks is no longer than their *)
(* number, so it is one of the lists.                                      *)
LEMMA ListIntro ==
  ASSUME NEW s \in Seq(Blocks),
         \A i, j \in 1 .. Len(s) : s[i] = s[j] => i = j
  PROVE  s \in BlockLists
<1>1. /\ Len(s) \in Nat /\ s \in [1 .. Len(s) -> Blocks]
      /\ DOMAIN s = 1 .. Len(s)
  BY LenProperties
<1>2. s \in Injection(1 .. Len(s), Blocks)
  BY <1>1 DEF Injection, IsInjective
<1>3. /\ IsFiniteSet(Blocks) /\ Cardinality(Blocks) = NumBlocks
  BY FS_Interval, NumBlocksNat DEF Blocks
<1>4. /\ IsFiniteSet(1 .. Len(s)) /\ Cardinality(1 .. Len(s)) = Len(s)
  BY FS_Interval, <1>1
<1>5. Len(s) <= NumBlocks
  BY <1>2, <1>3, <1>4, FS_Injection
<1>6. Len(s) \in 0 .. NumBlocks /\ Distinct(s)
  BY <1>1, <1>5, NumBlocksNat DEF Distinct
<1>7. s \in {q \in [1 .. Len(s) -> Blocks] : Distinct(q)}
  BY <1>1, <1>6
<1> QED
  BY <1>6, <1>7 DEF BlockLists

(* The line of a list: the fakes at its ends, no node twice.               *)
LEMMA NodeFacts ==
  ASSUME NEW s \in BlockLists
  PROVE  /\ Node(s, 0) = FakeHead /\ Node(s, Len(s) + 1) = FakeTail
         /\ \A i \in 1 .. Len(s) : Node(s, i) = s[i]
         /\ \A i \in 0 .. Len(s) + 1 : Node(s, i) \in Nodes
         /\ \A i, j \in 0 .. Len(s) + 1 : Node(s, i) = Node(s, j) => i = j
<1>1. /\ Len(s) \in Nat
      /\ \A i \in 1 .. Len(s) : s[i] \in Blocks
      /\ \A i, j \in 1 .. Len(s) : s[i] = s[j] => i = j
  BY ListFacts
<1>2. /\ Node(s, 0) = FakeHead /\ Node(s, Len(s) + 1) = FakeTail
      /\ \A i \in 1 .. Len(s) : Node(s, i) = s[i]
  BY <1>1 DEF Node
<1>3. \A i \in 0 .. Len(s) + 1 : i = 0 \/ i \in 1 .. Len(s) \/ i = Len(s) + 1
  BY <1>1
<1>4. FakeHead \notin Blocks /\ FakeTail \notin Blocks /\ FakeHead # FakeTail
  BY NumBlocksNat DEF Blocks, FakeHead, FakeTail
<1>5. \A i \in 0 .. Len(s) + 1 : Node(s, i) \in Nodes
  BY <1>1, <1>2, <1>3 DEF Nodes
<1>6. ASSUME NEW i \in 0 .. Len(s) + 1, NEW j \in 0 .. Len(s) + 1,
             Node(s, i) = Node(s, j)
      PROVE  i = j
  BY <1>1, <1>2, <1>3, <1>4, <1>6
<1> QED
  BY <1>2, <1>5, <1>6

(* The links determine the list: two lists they spell are the same.        *)
LEMMA ChainUnique ==
  ASSUME NEW s \in BlockLists, NEW t \in BlockLists, Chained(s), Chained(t)
  PROVE  s = t
<1> DEFINE Bad == {i \in Nat : /\ i <= Len(s) + 1 /\ i <= Len(t) + 1
                               /\ Node(s, i) # Node(t, i)}
<1>0. /\ s \in Seq(Blocks) /\ Len(s) \in Nat /\ t \in Seq(Blocks) /\ Len(t) \in Nat
      /\ \A i \in 1 .. Len(s) : s[i] \in Blocks
      /\ \A i \in 1 .. Len(t) : t[i] \in Blocks
  BY ListFacts
<1>1. Bad = {}
  <2> SUFFICES ASSUME Bad # {} PROVE FALSE
    OBVIOUS
  <2>1. PICK x \in Bad : \A y \in Bad : ~(<<y, x>> \in OpToRel(<, Nat))
    BY NatLessThanWellFounded, WFMin
  <2>2. x # 0
    BY DEF Node
  <2>3. x - 1 \in Nat /\ x - 1 < x
    BY <2>2
  <2>4. <<x - 1, x>> \in OpToRel(<, Nat)
    BY <2>3 DEF OpToRel
  <2>5. Node(s, x - 1) = Node(t, x - 1)
    <3>1. x - 1 \notin Bad
      BY <2>1, <2>4
    <3>2. x - 1 <= Len(s) + 1 /\ x - 1 <= Len(t) + 1
      BY <1>0, <2>3
    <3> QED
      BY <3>1, <3>2, <2>3
  <2>6. /\ next_free_block[Node(s, x - 1)] = Node(s, x - 1 + 1)
        /\ next_free_block[Node(t, x - 1)] = Node(t, x - 1 + 1)
    <3>1. x - 1 \in 0 .. Len(s) /\ x - 1 \in 0 .. Len(t)
      BY <2>3, <1>0
    <3> HIDE DEF Bad
    <3> QED
      BY <3>1 DEF Chained
  <2>7. x - 1 + 1 = x
    BY <2>3
  <2> QED
    BY <2>5, <2>6, <2>7
<1>2. \A i \in 0 .. Len(s) + 1 : i <= Len(t) + 1 => Node(s, i) = Node(t, i)
  BY <1>1, <1>0
<1>3. ASSUME Len(s) < Len(t) PROVE FALSE
  <2>1. Len(s) + 1 \in 1 .. Len(t)
    BY <1>3, <1>0
  <2>2. Node(t, Len(s) + 1) = Node(s, Len(s) + 1)
    BY <1>2, <1>0, <2>1
  <2>3. Node(t, Len(s) + 1) \in Blocks /\ Node(s, Len(s) + 1) = FakeTail
    BY <2>1, <1>0, NodeFacts
  <2> QED
    BY <2>2, <2>3, NumBlocksNat DEF Blocks, FakeTail
<1>4. ASSUME Len(t) < Len(s) PROVE FALSE
  <2>1. Len(t) + 1 \in 1 .. Len(s)
    BY <1>4, <1>0
  <2>2. Node(t, Len(t) + 1) = Node(s, Len(t) + 1)
    BY <1>2, <1>0, <2>1
  <2>3. Node(s, Len(t) + 1) \in Blocks /\ Node(t, Len(t) + 1) = FakeTail
    BY <2>1, <1>0, NodeFacts
  <2> QED
    BY <2>2, <2>3, NumBlocksNat DEF Blocks, FakeTail
<1>5. Len(s) = Len(t)
  BY <1>3, <1>4, <1>0
<1>6. \A i \in 1 .. Len(s) : s[i] = t[i]
  BY <1>2, <1>5, <1>0 DEF Node
<1> QED
  BY <1>0, <1>5, <1>6, SeqEqual

(* So get_all_free_blocks returns the list the links spell.                *)
LEMMA FreeListIs ==
  ASSUME NEW s \in BlockLists, Chained(s)
  PROVE  GetAllFreeBlocks = s
BY ChainUnique DEF GetAllFreeBlocks

-----------------------------------------------------------------------------
(* The state holds list s: what FreeListOK says of its witness.            *)
Holds(s) ==
  /\ s \in BlockLists /\ Chained(s)
  /\ held = Blocks \ Range(s)
  /\ num_free_blocks = Len(s)

(* Taking position k out of a list.                                        *)
LEMMA RemoveAtFacts ==
  ASSUME NEW s \in BlockLists, NEW k \in 1 .. Len(s)
  PROVE  /\ RemoveAt(s, k) \in BlockLists
         /\ Len(RemoveAt(s, k)) = Len(s) - 1
         /\ \A i \in 0 .. Len(s) :
              Node(RemoveAt(s, k), i) = IF i < k THEN Node(s, i) ELSE Node(s, i + 1)
         /\ Range(RemoveAt(s, k)) = Range(s) \ {s[k]}
<1> DEFINE t == RemoveAt(s, k)
           a == SubSeq(s, 1, k - 1)
           b == SubSeq(s, k + 1, Len(s))
<1>1. /\ s \in Seq(Blocks) /\ Len(s) \in Nat /\ DOMAIN s = 1 .. Len(s)
      /\ \A i \in 1 .. Len(s) : s[i] \in Blocks
      /\ \A i, j \in 1 .. Len(s) : s[i] = s[j] => i = j
      /\ Range(s) = {s[i] : i \in 1 .. Len(s)}
  BY ListFacts
<1>2. /\ a \in Seq(Blocks) /\ Len(a) = k - 1 /\ \A i \in 1 .. k - 1 : a[i] = s[i]
  <2>1. \A i \in 1 .. k - 1 : s[i] \in Blocks
    BY <1>1
  <2> QED
    BY <2>1, <1>1, SubSeqProperties
<1>3. /\ b \in Seq(Blocks) /\ Len(b) = Len(s) - k
      /\ \A i \in 1 .. Len(s) - k : b[i] = s[k + i]
  <2>1. \A i \in k + 1 .. Len(s) : s[i] \in Blocks
    BY <1>1
  <2>2. /\ SubSeq(s, k + 1, Len(s)) \in Seq(Blocks)
        /\ Len(SubSeq(s, k + 1, Len(s)))
             = IF k + 1 <= Len(s) THEN Len(s) - (k + 1) + 1 ELSE 0
        /\ \A i \in 1 .. Len(s) - (k + 1) + 1 :
             SubSeq(s, k + 1, Len(s))[i] = s[k + 1 + i - 1]
    BY <2>1, <1>1, SubSeqProperties
  <2>3. /\ Len(s) - (k + 1) + 1 = Len(s) - k
        /\ \A i \in 1 .. Len(s) - k : k + 1 + i - 1 = k + i
    BY <1>1
  <2>4. ASSUME NEW i \in 1 .. Len(s) - k
        PROVE  SubSeq(s, k + 1, Len(s))[i] = s[k + i]
    BY <2>2, <2>3
  <2>5. Len(SubSeq(s, k + 1, Len(s))) = Len(s) - k
    <3> DEFINE m == Len(SubSeq(s, k + 1, Len(s)))
    <3>1. m = IF k + 1 <= Len(s) THEN Len(s) - (k + 1) + 1 ELSE 0
      BY <2>2
    <3>2. Len(s) \in Nat /\ k \in 1 .. Len(s)
      BY <1>1
    <3> HIDE DEF m
    <3>3. m = Len(s) - k
      BY <3>1, <3>2
    <3> QED
      BY <3>3 DEF m
  <2> QED
    BY <2>2, <2>4, <2>5
<1>4. /\ t \in Seq(Blocks) /\ Len(t) = Len(s) - 1
      /\ \A i \in 1 .. Len(s) - 1 : t[i] = IF i < k THEN s[i] ELSE s[i + 1]
  <2>1. t = a \o b
    BY DEF RemoveAt
  <2>2. /\ t \in Seq(Blocks) /\ Len(t) = Len(a) + Len(b)
        /\ \A i \in 1 .. Len(a) + Len(b) :
             t[i] = IF i <= Len(a) THEN a[i] ELSE b[i - Len(a)]
    <3> HIDE DEF t, a, b
    <3> QED
      BY <2>1, <1>2, <1>3, ConcatProperties
  <2> HIDE DEF t, a, b
  <2>3. Len(a) + Len(b) = Len(s) - 1
    BY <1>1, <1>2, <1>3
  <2>4. ASSUME NEW i \in 1 .. Len(s) - 1
        PROVE  t[i] = IF i < k THEN s[i] ELSE s[i + 1]
    <3>1. CASE i < k
      BY <3>1, <2>2, <2>3, <1>1, <1>2
    <3>2. CASE k <= i
      <4>1. i - Len(a) \in 1 .. Len(s) - k /\ k + (i - Len(a)) = i + 1
        BY <3>2, <1>1, <1>2
      <4>2. t[i] = b[i - Len(a)]
        BY <3>2, <2>2, <2>3, <1>1, <1>2
      <4>3. b[i - Len(a)] = s[i + 1]
        BY <4>1, <1>3
      <4> QED
        BY <4>2, <4>3, <3>2, <1>1
    <3> QED
      BY <3>1, <3>2, <1>1
  <2> QED
    BY <2>2, <2>3, <2>4
<1> HIDE DEF t
<1>5. t \in BlockLists
  <2>1. \A i, j \in 1 .. Len(t) : t[i] = t[j] => i = j
    BY <1>1, <1>4
  <2> QED
    BY <1>4, <2>1, ListIntro
<1>6. \A i \in 0 .. Len(s) : Node(t, i) = IF i < k THEN Node(s, i) ELSE Node(s, i + 1)
  <2> SUFFICES ASSUME NEW i \in 0 .. Len(s)
                 PROVE  Node(t, i) = IF i < k THEN Node(s, i) ELSE Node(s, i + 1)
    OBVIOUS
  <2>2. CASE i = 0
    BY <2>2, <1>1 DEF Node
  <2>3. CASE i = Len(s)
    BY <2>3, <1>1, <1>4 DEF Node
  <2>4. CASE i \in 1 .. Len(s) - 1
    <3>1. Node(t, i) = t[i]
      <4>1. i # 0 /\ i # Len(t) + 1
        BY <2>4, <1>1, <1>4
      <4> QED
        BY <4>1 DEF Node
    <3>2. Node(s, i) = s[i] /\ Node(s, i + 1) = s[i + 1]
      BY <2>4, <1>1 DEF Node
    <3> QED
      BY <3>1, <3>2, <2>4, <1>4
  <2>5. i = 0 \/ i = Len(s) \/ i \in 1 .. Len(s) - 1
    <3>1. Len(s) \in Nat
      BY <1>1
    <3> QED
      BY <3>1
  <2> QED
    BY <2>2, <2>3, <2>4, <2>5
<1>7. Range(t) = Range(s) \ {s[k]}
  <2>1. Range(t) = {t[i] : i \in 1 .. Len(t)}
    BY <1>5, ListFacts
  <2>2. ASSUME NEW x \in Range(s), x # s[k] PROVE x \in Range(t)
    <3>1. PICK i \in 1 .. Len(s) : s[i] = x
      BY <2>2, <1>1
    <3>2. CASE i < k
      BY <3>1, <3>2, <2>1, <1>1, <1>4
    <3>3. CASE k < i
      <4>1. i - 1 \in 1 .. Len(t) /\ t[i - 1] = s[i]
        BY <3>3, <1>1, <1>4
      <4> QED
        BY <4>1, <3>1, <2>1
    <3> QED
      BY <3>1, <3>2, <3>3, <2>2, <1>1
  <2>3. ASSUME NEW x \in Range(t) PROVE x \in Range(s) /\ x # s[k]
    BY <2>3, <2>1, <1>1, <1>4
  <2> QED
    BY <2>2, <2>3
<1> QED
  BY <1>4, <1>5, <1>6, <1>7 DEF t

(* Taking a named block out: the list loses that position and no more.     *)
LEMMA RemoveStep ==
  ASSUME TypeOK, NEW s, Holds(s), NEW b \in Blocks, RemoveBlock(b)
  PROVE  \E k \in 1 .. Len(s) : s[k] = b /\ Holds(RemoveAt(s, k))'
<1>1. /\ s \in BlockLists /\ Len(s) \in Nat
      /\ \A i \in 1 .. Len(s) : s[i] \in Blocks
      /\ Range(s) = {s[i] : i \in 1 .. Len(s)}
  BY ListFacts DEF Holds
<1>2. PICK k \in 1 .. Len(s) : s[k] = b
  BY <1>1 DEF Holds, Chained, RemoveBlock
<1> DEFINE t == RemoveAt(s, k)
<1>3. /\ t \in BlockLists /\ Len(t) = Len(s) - 1
      /\ \A i \in 0 .. Len(s) :
           Node(t, i) = IF i < k THEN Node(s, i) ELSE Node(s, i + 1)
      /\ Range(t) = Range(s) \ {b}
  BY <1>1, <1>2, RemoveAtFacts
<1> HIDE DEF t
<1>4. /\ Node(s, k) = b
      /\ \A i \in 0 .. Len(s) + 1 : Node(s, i) \in Nodes
      /\ \A i, j \in 0 .. Len(s) + 1 : Node(s, i) = Node(s, j) => i = j
      /\ Node(s, 0) = FakeHead /\ Node(s, Len(s) + 1) = FakeTail
      /\ \A i \in 1 .. Len(s) : Node(s, i) = s[i]
  BY <1>1, <1>2, NodeFacts
<1>5. /\ prev_free_block[b] = Node(s, k - 1)
      /\ next_free_block[b] = Node(s, k + 1)
  <2>1. k - 1 \in 0 .. Len(s) /\ k \in 0 .. Len(s) /\ k - 1 + 1 = k
    BY <1>1
  <2> QED
    BY <1>4, <2>1 DEF Holds, Chained
<1>6. /\ next_free_block' = [next_free_block EXCEPT ![Node(s, k - 1)] = Node(s, k + 1),
                                                    ![b] = None]
      /\ prev_free_block' = [prev_free_block EXCEPT ![Node(s, k + 1)] = Node(s, k - 1),
                                                    ![b] = None]
  BY <1>5 DEF RemoveBlock
<1>7. /\ DOMAIN next_free_block = Nodes /\ DOMAIN prev_free_block = Nodes
  BY DEF TypeOK
<1>8. ASSUME NEW i \in 0 .. Len(t)
      PROVE  /\ next_free_block'[Node(t, i)] = Node(t, i + 1)
             /\ prev_free_block'[Node(t, i + 1)] = Node(t, i)
  <2>0. \A j \in 0 .. Len(s) : /\ next_free_block[Node(s, j)] = Node(s, j + 1)
                               /\ prev_free_block[Node(s, j + 1)] = Node(s, j)
    BY DEF Holds, Chained
  <2>1. CASE i < k - 1
    BY <2>0, <2>1, <1>1, <1>3, <1>4, <1>6, <1>7
  <2>2. CASE i = k - 1
    <3>1. Node(t, i) = Node(s, k - 1) /\ Node(t, i + 1) = Node(s, k + 1)
      BY <2>2, <1>1, <1>3
    <3>2. Node(s, k - 1) # b /\ Node(s, k + 1) # b
      BY <1>1, <1>4
    <3> QED
      BY <3>1, <3>2, <1>1, <1>4, <1>6, <1>7
  <2>3. CASE k - 1 < i
    <3>1. /\ Node(t, i) = Node(s, i + 1) /\ Node(t, i + 1) = Node(s, i + 2)
      BY <2>3, <1>1, <1>3
    <3>2. i + 1 \in 0 .. Len(s) /\ i + 1 + 1 = i + 2 /\ i + 1 > k
      BY <2>3, <1>1, <1>3
    <3>3. /\ next_free_block[Node(s, i + 1)] = Node(s, i + 2)
          /\ prev_free_block[Node(s, i + 2)] = Node(s, i + 1)
      BY <2>0, <3>2
    <3>4. /\ Node(s, i + 1) \notin {b, Node(s, k - 1)}
          /\ Node(s, i + 2) \notin {b, Node(s, k + 1)}
      BY <3>2, <1>1, <1>4
    <3> QED
      BY <3>1, <3>2, <3>3, <3>4, <1>1, <1>4, <1>6, <1>7
  <2> QED
    BY <2>1, <2>2, <2>3, <1>1, <1>3
<1>9. ASSUME NEW x \in Blocks \ Range(t)
      PROVE  next_free_block'[x] = None /\ prev_free_block'[x] = None
  <2>1. CASE x = b
    BY <2>1, <1>6, <1>7 DEF Nodes
  <2>2. CASE x # b
    <3>1. x \in Blocks \ Range(s)
      BY <2>2, <1>3
    <3>2. x # Node(s, k - 1) /\ x # Node(s, k + 1)
      <4>1. \A i \in 0 .. Len(s) + 1 : Node(s, i) \in Range(s) \cup {FakeHead, FakeTail}
        BY <1>1, <1>4
      <4>2. k - 1 \in 0 .. Len(s) + 1 /\ k + 1 \in 0 .. Len(s) + 1
        BY <1>1
      <4>3. x \notin Range(s) \cup {FakeHead, FakeTail}
        BY <3>1, NumBlocksNat DEF Blocks, FakeHead, FakeTail
      <4> QED
        BY <4>1, <4>2, <4>3
    <3> QED
      BY <2>2, <3>1, <3>2, <1>6, <1>7 DEF Holds, Chained, Nodes
  <2> QED
    BY <2>1, <2>2
<1>10. prev_free_block'[FakeHead] = None /\ next_free_block'[FakeTail] = None
  <2>1. FakeHead # Node(s, k + 1) /\ FakeTail # Node(s, k - 1)
    BY <1>1, <1>4
  <2>2. FakeHead # b /\ FakeTail # b
    BY NumBlocksNat DEF Blocks, FakeHead, FakeTail
  <2> QED
    BY <2>1, <2>2, <1>6, <1>7 DEF Holds, Chained, Nodes
<1>11. Chained(t)'
  BY <1>8, <1>9, <1>10 DEF Chained
<1>12. held' = Blocks \ Range(t) /\ num_free_blocks' = Len(t)
  BY <1>1, <1>3 DEF RemoveBlock, Holds
<1> QED
  BY <1>2, <1>3, <1>11, <1>12 DEF Holds, t

(* A walk from the fake head, no longer than the list, is the list's front.*)
LEMMA WalkIsPrefix ==
  ASSUME NEW s \in BlockLists, NEW w \in BlockLists,
         Chained(s), IsWalk(w), Len(w) <= Len(s)
  PROVE  \A i \in 1 .. Len(w) : w[i] = s[i]
<1> DEFINE Bad == {i \in Nat : i \in 1 .. Len(w) /\ w[i] # s[i]}
<1>1. /\ Len(s) \in Nat /\ Len(w) \in Nat /\ DOMAIN w = 1 .. Len(w)
  BY ListFacts
<1>2. /\ Node(s, 0) = FakeHead
      /\ \A i \in 1 .. Len(s) : Node(s, i) = s[i]
  BY NodeFacts
<1>3. \A i \in 0 .. Len(s) : next_free_block[Node(s, i)] = Node(s, i + 1)
  BY DEF Chained
<1>4. Bad = {}
  <2> SUFFICES ASSUME Bad # {} PROVE FALSE
    OBVIOUS
  <2>1. PICK x \in Bad : \A y \in Bad : ~(<<y, x>> \in OpToRel(<, Nat))
    BY NatLessThanWellFounded, WFMin
  <2>2. x \in 1 .. Len(w) /\ w[x] # s[x]
    BY <2>1
  <2>3. x # 1
    <3> SUFFICES ASSUME x = 1 PROVE FALSE
      OBVIOUS
    <3>1. 1 \in 1 .. Len(w) /\ 1 \in 1 .. Len(s) /\ 0 \in 0 .. Len(s) /\ 0 + 1 = 1
      BY <2>2, <1>1
    <3>2. w[1] = next_free_block[FakeHead]
      BY <3>1, <1>1 DEF IsWalk
    <3>3. next_free_block[FakeHead] = s[1]
      BY <3>1, <1>2, <1>3
    <3> QED
      BY <2>2, <3>2, <3>3
  <2>4. /\ x - 1 \in Nat /\ x - 1 < x /\ x - 1 \in 1 .. Len(w)
        /\ x - 1 \in 1 .. Len(s) /\ x \in 1 .. Len(s) /\ x - 1 + 1 = x
    BY <2>2, <2>3, <1>1
  <2>5. <<x - 1, x>> \in OpToRel(<, Nat)
    BY <2>4 DEF OpToRel
  <2>6. x - 1 \notin Bad
    BY <2>1, <2>5
  <2>7. w[x - 1] = s[x - 1]
    BY <2>4, <2>6
  <2>8. w[x] = next_free_block[w[x - 1]]
    BY <2>2, <2>3, <1>1 DEF IsWalk
  <2>9. next_free_block[s[x - 1]] = s[x]
    BY <2>4, <1>2, <1>3
  <2> QED
    BY <2>2, <2>7, <2>8, <2>9
<1> QED
  BY <1>1, <1>4

(* The back of a list, from position n + 1 on.                             *)
LEMMA SuffixFacts ==
  ASSUME NEW s \in BlockLists, NEW n \in 1 .. Len(s)
  PROVE  LET t == SubSeq(s, n + 1, Len(s)) IN
         /\ t \in BlockLists /\ Len(t) = Len(s) - n
         /\ \A i \in 1 .. Len(s) - n + 1 : Node(t, i) = Node(s, i + n)
         /\ Node(t, 0) = FakeHead
         /\ Range(t) = Range(s) \ {s[i] : i \in 1 .. n}
<1> DEFINE t == SubSeq(s, n + 1, Len(s))
<1>1. /\ s \in Seq(Blocks) /\ Len(s) \in Nat
      /\ \A i \in 1 .. Len(s) : s[i] \in Blocks
      /\ \A i, j \in 1 .. Len(s) : s[i] = s[j] => i = j
      /\ Range(s) = {s[i] : i \in 1 .. Len(s)}
  BY ListFacts
<1>2. /\ t \in Seq(Blocks)
      /\ Len(t) = IF n + 1 <= Len(s) THEN Len(s) - (n + 1) + 1 ELSE 0
      /\ \A i \in 1 .. Len(s) - (n + 1) + 1 : t[i] = s[n + 1 + i - 1]
  <2>1. \A i \in n + 1 .. Len(s) : s[i] \in Blocks
    BY <1>1
  <2> QED
    BY <2>1, <1>1, SubSeqProperties
<1> HIDE DEF t
<1>3. Len(t) = Len(s) - n
  BY <1>1, <1>2
<1>4. \A i \in 1 .. Len(t) : t[i] = s[i + n]
  <2>1. ASSUME NEW i \in 1 .. Len(t) PROVE t[i] = s[i + n]
    <3>1. i \in 1 .. Len(s) - (n + 1) + 1 /\ n + 1 + i - 1 = i + n
      BY <1>1, <1>3
    <3> QED
      BY <3>1, <1>2
  <2> QED
    BY <2>1
<1>5. t \in BlockLists
  <2>1. \A i, j \in 1 .. Len(t) : t[i] = t[j] => i = j
    BY <1>1, <1>3, <1>4
  <2> QED
    BY <1>2, <2>1, ListIntro
<1>6. \A i \in 1 .. Len(s) - n + 1 : Node(t, i) = Node(s, i + n)
  <2> SUFFICES ASSUME NEW i \in 1 .. Len(s) - n + 1
               PROVE  Node(t, i) = Node(s, i + n)
    OBVIOUS
  <2>1. CASE i = Len(t) + 1
    BY <2>1, <1>1, <1>3 DEF Node
  <2>2. CASE i # Len(t) + 1
    <3>1. i \in 1 .. Len(t) /\ i # 0 /\ i + n # 0 /\ i + n # Len(s) + 1
      BY <2>2, <1>1, <1>3
    <3>2. t[i] = s[i + n]
      BY <3>1, <1>4
    <3> QED
      BY <3>1, <3>2 DEF Node
  <2> QED
    BY <2>1, <2>2
<1>7. Node(t, 0) = FakeHead
  BY <1>5, NodeFacts
<1>8. Range(t) = Range(s) \ {s[i] : i \in 1 .. n}
  <2>1. Range(t) = {t[i] : i \in 1 .. Len(t)}
    BY <1>5, ListFacts
  <2>2. ASSUME NEW x \in Range(s) \ {s[i] : i \in 1 .. n} PROVE x \in Range(t)
    <3>1. PICK i \in 1 .. Len(s) : s[i] = x
      BY <2>2, <1>1
    <3>2. i \notin 1 .. n
      BY <2>2, <3>1
    <3>3. i - n \in 1 .. Len(t) /\ i - n + n = i
      BY <3>2, <1>1, <1>3
    <3> QED
      BY <3>1, <3>3, <2>1, <1>4
  <2>3. ASSUME NEW x \in Range(t)
        PROVE  x \in Range(s) /\ x \notin {s[i] : i \in 1 .. n}
    <3>1. PICK i \in 1 .. Len(t) : t[i] = x
      BY <2>3, <2>1
    <3>2. i + n \in 1 .. Len(s) /\ i + n \notin 1 .. n /\ s[i + n] = x
      BY <3>1, <1>1, <1>3, <1>4
    <3>3. 1 .. n \subseteq 1 .. Len(s)
      BY <1>1
    <3> QED
      BY <3>2, <3>3, <1>1
  <2> QED
    BY <2>2, <2>3
<1> QED
  BY <1>3, <1>5, <1>6, <1>7, <1>8 DEF t

(* popleft_n returns the first n blocks of the list and leaves the rest.   *)
LEMMA PopLeftNStep ==
  ASSUME TypeOK, NEW s, Holds(s), NEW n, PopLeftN(n)
  PROVE  /\ n \in 1 .. Len(s)
         /\ Holds(SubSeq(s, n + 1, Len(s)))'
         /\ call' = [op |-> "take", blocks |-> SubSeq(s, 1, n)]
<1>1. /\ s \in BlockLists /\ s \in Seq(Blocks) /\ Len(s) \in Nat
      /\ \A i \in 1 .. Len(s) : s[i] \in Blocks
      /\ Range(s) = {s[i] : i \in 1 .. Len(s)}
  BY ListFacts DEF Holds
<1>2. n \in 1 .. Len(s)
  BY DEF Holds, PopLeftN
<1>3. PICK w \in {q \in BlockLists : Len(q) = n} :
        /\ IsWalk(w)
        /\ next_free_block' =
             [x \in Nodes |-> IF x \in Range(w) THEN None
                              ELSE IF x = FakeHead /\ next_free_block[w[n]] # None
                                THEN next_free_block[w[n]]
                              ELSE next_free_block[x]]
        /\ prev_free_block' =
             [x \in Nodes |-> IF x \in Range(w) THEN None
                              ELSE IF x = next_free_block[w[n]] THEN FakeHead
                              ELSE prev_free_block[x]]
        /\ held' = held \cup Range(w)
        /\ Did("take", w)
  BY DEF PopLeftN
<1>4. /\ w \in BlockLists /\ Len(w) = n /\ w \in Seq(Blocks)
      /\ Range(w) = {w[i] : i \in 1 .. n}
  BY ListFacts
<1>5. \A i \in 1 .. n : w[i] = s[i]
  <2>1. Chained(s) /\ IsWalk(w) /\ Len(w) <= Len(s)
    BY <1>1, <1>2, <1>3, <1>4 DEF Holds
  <2> QED
    BY <2>1, <1>1, <1>4, WalkIsPrefix
<1>6. Range(w) = {s[i] : i \in 1 .. n}
  BY <1>4, <1>5
<1> DEFINE t == SubSeq(s, n + 1, Len(s))
<1>7. /\ t \in BlockLists /\ Len(t) = Len(s) - n
      /\ \A i \in 1 .. Len(s) - n + 1 : Node(t, i) = Node(s, i + n)
      /\ Node(t, 0) = FakeHead
      /\ Range(t) = Range(s) \ Range(w)
  BY <1>1, <1>2, <1>6, SuffixFacts
<1> HIDE DEF t
<1>8. /\ Node(s, 0) = FakeHead /\ Node(s, Len(s) + 1) = FakeTail
      /\ \A i \in 1 .. Len(s) : Node(s, i) = s[i]
      /\ \A i \in 0 .. Len(s) + 1 : Node(s, i) \in Nodes
      /\ \A i, j \in 0 .. Len(s) + 1 : Node(s, i) = Node(s, j) => i = j
  BY <1>1, NodeFacts
<1>9. \A i \in 0 .. Len(s) : /\ next_free_block[Node(s, i)] = Node(s, i + 1)
                              /\ prev_free_block[Node(s, i + 1)] = Node(s, i)
  BY DEF Holds, Chained
<1>10. /\ next_free_block[w[n]] = Node(s, n + 1)
       /\ Node(s, n + 1) # None /\ Node(s, n + 1) \in Nodes
  <2>1. n \in 0 .. Len(s) /\ n + 1 \in 0 .. Len(s) + 1 /\ n \in 1 .. n
    BY <1>1, <1>2
  <2>2. next_free_block[w[n]] = Node(s, n + 1)
    BY <2>1, <1>2, <1>5, <1>8, <1>9
  <2>3. Node(s, n + 1) \in Nodes
    BY <2>1, <1>8
  <2> QED
    BY <2>2, <2>3, NumBlocksNat DEF Nodes, Blocks, FakeHead, FakeTail, None
<1>11. \A i \in 0 .. Len(s) + 1 : Node(s, i) \in Range(w) <=> i \in 1 .. n
  BY <1>1, <1>2, <1>6, <1>8
<1>12. FakeHead \in Nodes /\ FakeTail \in Nodes /\ Blocks \subseteq Nodes
  BY DEF Nodes
<1>13. ASSUME NEW i \in 0 .. Len(t)
       PROVE  /\ next_free_block'[Node(t, i)] = Node(t, i + 1)
              /\ prev_free_block'[Node(t, i + 1)] = Node(t, i)
  <2>1. Node(t, i + 1) = Node(s, i + 1 + n)
    BY <1>1, <1>2, <1>7
  <2>2. CASE i = 0
    <3>1. FakeHead \notin Range(w) /\ Node(s, n + 1) \notin Range(w)
      BY <1>1, <1>2, <1>8, <1>11
    <3>2. Node(t, 0) = FakeHead /\ Node(t, 0 + 1) = Node(s, n + 1)
      BY <2>1, <2>2, <1>2, <1>7
    <3> QED
      BY <2>2, <3>1, <3>2, <1>3, <1>10, <1>12
  <2>3. CASE i # 0
    <3>1. /\ i + n \in 0 .. Len(s) /\ i + n + 1 \in 0 .. Len(s) + 1
          /\ i + 1 + n = i + n + 1 /\ i + n # 0 /\ i + n + 1 # n + 1
          /\ i + n \notin 1 .. n /\ i + n + 1 \notin 1 .. n
          /\ i + n \in 0 .. Len(s) + 1 /\ n + 1 \in 0 .. Len(s) + 1
          /\ 0 \in 0 .. Len(s) + 1
      BY <2>3, <1>1, <1>2, <1>7
    <3>2. Node(t, i) = Node(s, i + n)
      BY <2>3, <1>1, <1>2, <1>7
    <3>3. /\ Node(s, i + n) \in Nodes \ Range(w) /\ Node(s, i + n) # FakeHead
          /\ Node(s, i + n + 1) \in Nodes \ Range(w)
          /\ Node(s, i + n + 1) # Node(s, n + 1)
      BY <3>1, <1>8, <1>11
    <3>4. /\ next_free_block'[Node(s, i + n)] = next_free_block[Node(s, i + n)]
          /\ prev_free_block'[Node(s, i + n + 1)] = prev_free_block[Node(s, i + n + 1)]
      BY <3>3, <1>3, <1>10
    <3> QED
      BY <2>1, <3>1, <3>2, <3>4, <1>9
  <2> QED
    BY <2>2, <2>3
<1>14. \A i \in 0 .. Len(s) + 1 : Node(s, i) \in Range(s) \cup {FakeHead, FakeTail}
  BY <1>1, <1>8
<1>15. FakeHead \notin Blocks /\ FakeTail \notin Blocks /\ FakeHead # FakeTail
  BY NumBlocksNat DEF Blocks, FakeHead, FakeTail
<1>16. ASSUME NEW x \in Blocks \ Range(t)
       PROVE  next_free_block'[x] = None /\ prev_free_block'[x] = None
  <2>1. CASE x \in Range(w)
    BY <2>1, <1>3, <1>12
  <2>2. CASE x \notin Range(w)
    <3>1. x \in Blocks \ Range(s) /\ x # FakeHead /\ x \in Nodes
      BY <2>2, <1>7, <1>12, <1>15
    <3>2. n + 1 \in 0 .. Len(s) + 1
      BY <1>1, <1>2
    <3>3. x # Node(s, n + 1)
      BY <3>1, <3>2, <1>14, <1>15
    <3>4. next_free_block[x] = None /\ prev_free_block[x] = None
      BY <3>1 DEF Holds, Chained
    <3> QED
      BY <2>2, <3>1, <3>3, <3>4, <1>3, <1>10
  <2> QED
    BY <2>1, <2>2
<1>17. prev_free_block'[FakeHead] = None /\ next_free_block'[FakeTail] = None
  <2>1. n + 1 \in 0 .. Len(s) + 1 /\ n + 1 # 0 /\ 0 \in 0 .. Len(s) + 1
        /\ Len(s) + 1 \in 0 .. Len(s) + 1 /\ 0 \notin 1 .. n /\ Len(s) + 1 \notin 1 .. n
    BY <1>1, <1>2
  <2>2. FakeHead \notin Range(w) /\ FakeTail \notin Range(w)
    BY <2>1, <1>8, <1>11
  <2>3. FakeHead # Node(s, n + 1)
    BY <2>1, <1>8
  <2> QED
    BY <2>2, <2>3, <1>3, <1>10, <1>12, <1>15 DEF Holds, Chained
<1>18. Chained(t)'
  BY <1>13, <1>16, <1>17 DEF Chained
<1>19. held' = Blocks \ Range(t) /\ num_free_blocks' = Len(t)
  <2>1. Range(w) \subseteq Blocks
    BY <1>1, <1>2, <1>6
  <2> QED
    BY <2>1, <1>3, <1>7 DEF Holds, PopLeftN
<1>20. w = SubSeq(s, 1, n)
  <2>1. \A i \in 1 .. n : s[i] \in Blocks
    BY <1>1, <1>2
  <2>2. /\ SubSeq(s, 1, n) \in Seq(Blocks)
        /\ Len(SubSeq(s, 1, n)) = IF 1 <= n THEN n - 1 + 1 ELSE 0
        /\ \A i \in 1 .. n - 1 + 1 : SubSeq(s, 1, n)[i] = s[1 + i - 1]
    BY <2>1, <1>2, SubSeqProperties
  <2> DEFINE front == SubSeq(s, 1, n)
  <2>3. front \in Seq(Blocks) /\ Len(front) = n /\ \A i \in 1 .. n : front[i] = s[i]
    <3>1. n - 1 + 1 = n /\ 1 <= n /\ \A i \in 1 .. n : 1 + i - 1 = i
      BY <1>2
    <3> QED
      BY <2>2, <3>1
  <2> HIDE DEF front
  <2>4. w = front
    BY <2>3, <1>4, <1>5, SeqEqual
  <2> QED
    BY <2>4 DEF front
<1>21. Holds(t)'
  BY <1>7, <1>18, <1>19 DEF Holds
<1> QED
  BY <1>2, <1>3, <1>20, <1>21 DEF Did, t

(* Joining two disjoint lists.                                             *)
LEMMA JoinFacts ==
  ASSUME NEW a \in BlockLists, NEW b \in BlockLists, Range(a) \cap Range(b) = {}
  PROVE  /\ a \o b \in BlockLists /\ Len(a \o b) = Len(a) + Len(b)
         /\ Range(a \o b) = Range(a) \cup Range(b)
         /\ \A i \in 0 .. Len(a) : Node(a \o b, i) = Node(a, i)
         /\ \A i \in 1 .. Len(b) + 1 : Node(a \o b, Len(a) + i) = Node(b, i)
<1> DEFINE t == a \o b
<1>1. /\ a \in Seq(Blocks) /\ Len(a) \in Nat
      /\ \A i, j \in 1 .. Len(a) : a[i] = a[j] => i = j
      /\ Range(a) = {a[i] : i \in 1 .. Len(a)}
  BY ListFacts
<1>2. /\ b \in Seq(Blocks) /\ Len(b) \in Nat
      /\ \A i, j \in 1 .. Len(b) : b[i] = b[j] => i = j
      /\ Range(b) = {b[i] : i \in 1 .. Len(b)}
  BY ListFacts
<1>3. /\ t \in Seq(Blocks) /\ Len(t) = Len(a) + Len(b)
      /\ \A i \in 1 .. Len(a) + Len(b) :
           t[i] = IF i <= Len(a) THEN a[i] ELSE b[i - Len(a)]
  BY <1>1, <1>2, ConcatProperties
<1> HIDE DEF t
<1>4. ASSUME NEW i \in 1 .. Len(a)
      PROVE  i \in 1 .. Len(t) /\ t[i] = a[i]
  <2>1. i \in 1 .. Len(a) + Len(b) /\ i <= Len(a)
    BY <1>1, <1>2
  <2> QED
    BY <2>1, <1>3
<1>5. ASSUME NEW i \in 1 .. Len(b)
      PROVE  Len(a) + i \in 1 .. Len(t) /\ t[Len(a) + i] = b[i]
  <2>1. /\ Len(a) + i \in 1 .. Len(a) + Len(b) /\ ~(Len(a) + i <= Len(a))
        /\ Len(a) + i - Len(a) = i
    BY <1>1, <1>2
  <2> QED
    BY <2>1, <1>3
<1>6. ASSUME NEW i \in 1 .. Len(t)
      PROVE  \/ i \in 1 .. Len(a) /\ t[i] = a[i]
             \/ i - Len(a) \in 1 .. Len(b) /\ t[i] = b[i - Len(a)] /\ ~(i <= Len(a))
  BY <1>1, <1>2, <1>3
<1>7. t \in BlockLists
  <2>1. ASSUME NEW i \in 1 .. Len(t), NEW j \in 1 .. Len(t), t[i] = t[j]
        PROVE  i = j
    <3>1. CASE i \in 1 .. Len(a) /\ t[i] = a[i] /\ j \in 1 .. Len(a) /\ t[j] = a[j]
      BY <3>1, <2>1, <1>1
    <3>2. CASE /\ i - Len(a) \in 1 .. Len(b) /\ t[i] = b[i - Len(a)]
               /\ j - Len(a) \in 1 .. Len(b) /\ t[j] = b[j - Len(a)]
      <4>1. i - Len(a) = j - Len(a)
        BY <3>2, <2>1, <1>2
      <4>2. i \in Int /\ j \in Int
        OBVIOUS
      <4> QED
        BY <4>1, <4>2, <1>1
    <3>3. ~(/\ i \in 1 .. Len(a) /\ t[i] = a[i]
            /\ j - Len(a) \in 1 .. Len(b) /\ t[j] = b[j - Len(a)])
      <4> SUFFICES ASSUME /\ i \in 1 .. Len(a) /\ t[i] = a[i]
                          /\ j - Len(a) \in 1 .. Len(b) /\ t[j] = b[j - Len(a)]
                   PROVE  FALSE
        OBVIOUS
      <4>1. a[i] \in Range(a) /\ b[j - Len(a)] \in Range(b)
        BY <1>1, <1>2
      <4> QED
        BY <4>1, <2>1
    <3>4. ~(/\ j \in 1 .. Len(a) /\ t[j] = a[j]
            /\ i - Len(a) \in 1 .. Len(b) /\ t[i] = b[i - Len(a)])
      <4> SUFFICES ASSUME /\ j \in 1 .. Len(a) /\ t[j] = a[j]
                          /\ i - Len(a) \in 1 .. Len(b) /\ t[i] = b[i - Len(a)]
                   PROVE  FALSE
        OBVIOUS
      <4>1. a[j] \in Range(a) /\ b[i - Len(a)] \in Range(b)
        BY <1>1, <1>2
      <4> QED
        BY <4>1, <2>1
    <3> QED
      BY <3>1, <3>2, <3>3, <3>4, <1>6
  <2> QED
    BY <2>1, <1>3, ListIntro
<1>8. Range(t) = Range(a) \cup Range(b)
  <2>1. Range(t) = {t[i] : i \in 1 .. Len(t)}
    BY <1>7, ListFacts
  <2>2. ASSUME NEW x \in Range(a) \cup Range(b) PROVE x \in Range(t)
    BY <2>1, <2>2, <1>1, <1>2, <1>4, <1>5
  <2>3. ASSUME NEW x \in Range(t) PROVE x \in Range(a) \cup Range(b)
    BY <2>1, <2>3, <1>1, <1>2, <1>6
  <2> QED
    BY <2>2, <2>3
<1>9. /\ Node(t, 0) = FakeHead /\ Node(t, Len(t) + 1) = FakeTail
      /\ Node(a, 0) = FakeHead /\ Node(b, Len(b) + 1) = FakeTail
      /\ \A i \in 1 .. Len(t) : Node(t, i) = t[i]
      /\ \A i \in 1 .. Len(a) : Node(a, i) = a[i]
      /\ \A i \in 1 .. Len(b) : Node(b, i) = b[i]
  BY <1>7, NodeFacts
<1>10. ASSUME NEW i \in 0 .. Len(a) PROVE Node(t, i) = Node(a, i)
  <2>1. i = 0 \/ i \in 1 .. Len(a)
    BY <1>1
  <2> QED
    BY <2>1, <1>4, <1>9
<1>11. ASSUME NEW i \in 1 .. Len(b) + 1 PROVE Node(t, Len(a) + i) = Node(b, i)
  <2>1. CASE i = Len(b) + 1
    <3>1. Len(a) + i = Len(t) + 1
      BY <2>1, <1>1, <1>2, <1>3
    <3> QED
      BY <2>1, <3>1, <1>9
  <2>2. CASE i \in 1 .. Len(b)
    BY <2>2, <1>5, <1>9
  <2> QED
    BY <2>1, <2>2, <1>2
<1> QED
  BY <1>3, <1>7, <1>8, <1>10, <1>11 DEF t

(* What the threading loops write: each block of q gets its neighbours on  *)
(* the line left, q, right, the two ends get theirs, nothing else changes. *)
LinkAt(left, q, right, i) ==
  IF i = 0 THEN left ELSE IF i = Len(q) + 1 THEN right ELSE q[i]

Written(left, q, right) ==
  /\ \A i \in 0 .. Len(q) :
       /\ next_free_block'[LinkAt(left, q, right, i)] = LinkAt(left, q, right, i + 1)
       /\ prev_free_block'[LinkAt(left, q, right, i + 1)] = LinkAt(left, q, right, i)
  /\ \A x \in Nodes \ (Range(q) \cup {left}) :
       next_free_block'[x] = next_free_block[x]
  /\ \A x \in Nodes \ (Range(q) \cup {right}) :
       prev_free_block'[x] = prev_free_block[x]

LEMMA ThreadWrites ==
  ASSUME NEW q \in BlockLists, q # <<>>,
         NEW left \in Nodes, NEW right \in Nodes,
         left \notin Range(q), right \notin Range(q),
         Thread(left, q, right)
  PROVE  Written(left, q, right)
<1> DEFINE L(i) == IF i = 0 THEN left ELSE IF i = Len(q) + 1 THEN right ELSE q[i]
           line == <<left>> \o q \o <<right>>
           at(x) == CHOOSE i \in DOMAIN q : q[i] = x
<1>1. /\ q \in Seq(Blocks) /\ Len(q) \in Nat /\ DOMAIN q = 1 .. Len(q)
      /\ \A i \in 1 .. Len(q) : q[i] \in Blocks
      /\ \A i, j \in 1 .. Len(q) : q[i] = q[j] => i = j
      /\ Range(q) = {q[i] : i \in 1 .. Len(q)}
  BY ListFacts
<1>2. Len(q) >= 1
  BY <1>1, EmptySeq
<1>3. /\ Len(line) = Len(q) + 2
      /\ \A i \in 0 .. Len(q) + 1 : line[i + 1] = L(i)
  <2>1. /\ <<left>> \in Seq(Nodes) /\ Len(<<left>>) = 1 /\ <<left>>[1] = left
        /\ <<right>> \in Seq(Nodes) /\ Len(<<right>>) = 1 /\ <<right>>[1] = right
    OBVIOUS
  <2>2. q \in Seq(Nodes)
    BY <1>1, SeqMonotonic DEF Nodes
  <2> DEFINE h == <<left>> \o q
  <2>3. /\ h \in Seq(Nodes) /\ Len(h) = 1 + Len(q)
        /\ \A i \in 1 .. 1 + Len(q) : h[i] = IF i <= 1 THEN <<left>>[i] ELSE q[i - 1]
    <3> HIDE DEF h
    <3>1. h = <<left>> \o q
      BY DEF h
    <3> QED
      BY <3>1, <2>1, <2>2, ConcatProperties
  <2> HIDE DEF h
  <2>4. line = h \o <<right>>
    BY DEF h
  <2>5. /\ Len(line) = Len(h) + 1
        /\ \A i \in 1 .. Len(h) + 1 : line[i] = IF i <= Len(h) THEN h[i]
                                                ELSE <<right>>[i - Len(h)]
    <3> HIDE DEF line
    <3> QED
      BY <2>1, <2>3, <2>4, ConcatProperties
  <2> HIDE DEF line
  <2>6. ASSUME NEW i \in 0 .. Len(q) + 1 PROVE line[i + 1] = L(i)
    <3>1. CASE i = 0
      <4>1. 1 \in 1 .. Len(h) + 1 /\ 1 <= Len(h) /\ 1 \in 1 .. 1 + Len(q)
        BY <2>3, <1>1
      <4>2. h[1] = left
        BY <4>1, <2>1, <2>3
      <4>3. line[1] = h[1]
        BY <4>1, <2>5
      <4> QED
        BY <3>1, <4>2, <4>3
    <3>2. CASE i \in 1 .. Len(q)
      <4>1. /\ i + 1 \in 1 .. Len(h) + 1 /\ i + 1 <= Len(h) /\ ~(i + 1 <= 1)
            /\ i + 1 - 1 = i /\ i + 1 \in 1 .. 1 + Len(q) /\ i # 0 /\ i # Len(q) + 1
        BY <3>2, <2>3, <1>1
      <4> QED
        BY <4>1, <2>3, <2>5
    <3>3. CASE i = Len(q) + 1
      <4>1. /\ i + 1 \in 1 .. Len(h) + 1 /\ ~(i + 1 <= Len(h)) /\ i + 1 - Len(h) = 1
            /\ i # 0
        BY <3>3, <2>3, <1>1
      <4> QED
        BY <4>1, <3>3, <2>1, <2>5
    <3> QED
      BY <3>1, <3>2, <3>3, <1>1
  <2>7. Len(line) = Len(q) + 2
    BY <2>3, <2>5, <1>1
  <2> QED
    BY <2>6, <2>7
<1>4. \A i \in 1 .. Len(q) : at(q[i]) = i
  BY <1>1
<1>5. /\ next_free_block' = [x \in Nodes |-> IF x = left THEN line[2]
                              ELSE IF x \in Range(q) THEN line[at(x) + 2]
                              ELSE next_free_block[x]]
      /\ prev_free_block' = [x \in Nodes |-> IF x = right THEN line[Len(line) - 1]
                              ELSE IF x \in Range(q) THEN line[at(x)]
                              ELSE prev_free_block[x]]
  BY DEF Thread
<1> HIDE DEF line, at
<1>6. /\ \A x \in Nodes \ (Range(q) \cup {left}) :
           next_free_block'[x] = next_free_block[x]
      /\ \A x \in Nodes \ (Range(q) \cup {right}) :
           prev_free_block'[x] = prev_free_block[x]
  BY <1>5
<1>7. \A i \in 1 .. Len(q) : q[i] \in Range(q) /\ q[i] \in Nodes
  BY <1>1 DEF Nodes
<1>8. ASSUME NEW i \in 0 .. Len(q) PROVE next_free_block'[L(i)] = L(i + 1)
  <2>1. CASE i = 0
    <3>1. L(i) = left /\ line[2] = L(1) /\ i + 1 = 1
      BY <2>1, <1>1, <1>2, <1>3
    <3> QED
      BY <3>1, <1>5
  <2>2. CASE i # 0
    <3>1. i \in 1 .. Len(q) /\ i + 1 \in 0 .. Len(q) + 1 /\ i + 1 + 1 = i + 2
      BY <2>2, <1>1
    <3>2. L(i) = q[i]
      BY <3>1, <1>1
    <3>3. next_free_block'[q[i]] = line[at(q[i]) + 2]
      BY <3>1, <1>5, <1>7
    <3> QED
      BY <3>1, <3>2, <3>3, <1>3, <1>4
  <2> QED
    BY <2>1, <2>2
<1>9. ASSUME NEW i \in 0 .. Len(q) PROVE prev_free_block'[L(i + 1)] = L(i)
  <2>1. CASE i = Len(q)
    <3>1. /\ L(i + 1) = right /\ Len(line) - 1 = i + 1 /\ line[i + 1] = L(i)
      BY <2>1, <1>1, <1>3
    <3> QED
      BY <3>1, <1>5
  <2>2. CASE i # Len(q)
    <3>1. i + 1 \in 1 .. Len(q) /\ i \in 0 .. Len(q) + 1
      <4>1. Len(q) \in Nat
        BY <1>1
      <4> QED
        BY <4>1, <2>2
    <3>2. L(i + 1) = q[i + 1]
      BY <3>1, <1>1
    <3>3. prev_free_block'[q[i + 1]] = line[at(q[i + 1])]
      BY <3>1, <1>5, <1>7
    <3> QED
      BY <3>1, <3>2, <3>3, <1>3, <1>4
  <2> QED
    BY <2>1, <2>2
<1>10. \A i : L(i) = LinkAt(left, q, right, i)
  BY DEF LinkAt
<1> HIDE DEF L
<1> QED
  BY <1>6, <1>8, <1>9, <1>10 DEF Written

(* Threading q between the fake head and the first node puts it in front.  *)
LEMMA JoinFront ==
  ASSUME NEW s, Holds(s), NEW q \in BlockLists, q # <<>>, Range(q) \subseteq held,
         Written(FakeHead, q, Node(s, 1))
  PROVE  Chained(q \o s)'
<1> DEFINE t == q \o s
           L(i) == LinkAt(FakeHead, q, Node(s, 1), i)
<1>1. /\ s \in BlockLists /\ Len(s) \in Nat /\ Len(q) \in Nat
      /\ \A i \in 1 .. Len(s) : Node(s, i) = s[i]
      /\ \A i \in 1 .. Len(s) : s[i] \in Range(s)
      /\ \A i \in 1 .. Len(q) : q[i] \in Range(q) /\ q[i] \in Blocks
  BY ListFacts, NodeFacts DEF Holds
<1>2. Range(q) \cap Range(s) = {}
  BY DEF Holds
<1>3. /\ t \in BlockLists /\ Len(t) = Len(q) + Len(s)
      /\ Range(t) = Range(q) \cup Range(s)
      /\ \A i \in 0 .. Len(q) : Node(t, i) = Node(q, i)
      /\ \A i \in 1 .. Len(s) + 1 : Node(t, Len(q) + i) = Node(s, i)
  BY <1>1, <1>2, JoinFacts
<1> HIDE DEF t
<1>4. /\ Node(s, 0) = FakeHead /\ Node(s, Len(s) + 1) = FakeTail
      /\ \A i \in 0 .. Len(s) + 1 : Node(s, i) \in Nodes
      /\ \A i, j \in 0 .. Len(s) + 1 : Node(s, i) = Node(s, j) => i = j
      /\ Node(q, 0) = FakeHead
      /\ \A i \in 1 .. Len(q) : Node(q, i) = q[i]
  BY <1>1, NodeFacts
<1>5. FakeHead \notin Blocks /\ FakeTail \notin Blocks /\ FakeHead # FakeTail
  BY NumBlocksNat DEF Blocks, FakeHead, FakeTail
<1>6. \A i \in 0 .. Len(s) + 1 : Node(s, i) \notin Range(q)
  <2>1. Range(q) \subseteq Blocks
    BY DEF Holds
  <2>2. \A i \in 0 .. Len(s) + 1 : Node(s, i) \in Range(s) \cup {FakeHead, FakeTail}
    BY <1>1, <1>4
  <2> QED
    BY <2>1, <2>2, <1>2, <1>5
<1>7. \A i \in 0 .. Len(q) : Node(t, i) = L(i)
  BY <1>1, <1>3, <1>4 DEF LinkAt
<1>8. Node(t, Len(q) + 1) = L(Len(q) + 1)
  <2>1. 1 \in 1 .. Len(s) + 1 /\ Len(q) + 1 # 0
    BY <1>1
  <2> QED
    BY <2>1, <1>3 DEF LinkAt
<1>9. ASSUME NEW i \in 0 .. Len(t)
      PROVE  /\ next_free_block'[Node(t, i)] = Node(t, i + 1)
             /\ prev_free_block'[Node(t, i + 1)] = Node(t, i)
  <2>1. CASE i \in 0 .. Len(q)
    <3>1. Node(t, i + 1) = L(i + 1)
      BY <2>1, <1>1, <1>7, <1>8
    <3>2. Node(t, i) = L(i)
      BY <2>1, <1>7
    <3> HIDE DEF L
    <3>3. next_free_block'[L(i)] = L(i + 1) /\ prev_free_block'[L(i + 1)] = L(i)
      BY <2>1 DEF Written, L
    <3> QED
      BY <3>1, <3>2, <3>3
  <2>2. CASE i \notin 0 .. Len(q)
    <3> DEFINE j == i - Len(q)
    <3>1. /\ j \in 1 .. Len(s) /\ j + 1 \in 1 .. Len(s) + 1 /\ i = Len(q) + j
          /\ i + 1 = Len(q) + (j + 1) /\ j \in 1 .. Len(s) + 1
          /\ j \in 0 .. Len(s) /\ j \in 0 .. Len(s) + 1 /\ j + 1 \in 0 .. Len(s) + 1
          /\ 0 \in 0 .. Len(s) + 1 /\ 1 \in 0 .. Len(s) + 1 /\ j # 0 /\ j + 1 # 1
      BY <2>2, <1>1, <1>3
    <3> HIDE DEF j
    <3>2. Node(t, i) = Node(s, j) /\ Node(t, i + 1) = Node(s, j + 1)
      BY <3>1, <1>3
    <3>3. /\ Node(s, j) \in Nodes \ (Range(q) \cup {FakeHead})
          /\ Node(s, j + 1) \in Nodes \ (Range(q) \cup {Node(s, 1)})
      BY <3>1, <1>4, <1>6
    <3>4. /\ next_free_block'[Node(s, j)] = next_free_block[Node(s, j)]
          /\ prev_free_block'[Node(s, j + 1)] = prev_free_block[Node(s, j + 1)]
      BY <3>3 DEF Written
    <3> QED
      BY <3>1, <3>2, <3>4 DEF Holds, Chained
  <2> QED
    BY <2>1, <2>2
<1>10. ASSUME NEW x \in Blocks \ Range(t)
       PROVE  next_free_block'[x] = None /\ prev_free_block'[x] = None
  <2>1. x \in Nodes /\ x \notin Range(q) /\ x \notin Range(s) /\ x # FakeHead
    BY <1>3, <1>5 DEF Nodes
  <2>2. x # Node(s, 1)
    BY <2>1, <1>1, <1>4, <1>5
  <2> QED
    BY <2>1, <2>2 DEF Holds, Chained, Written
<1>11. prev_free_block'[FakeHead] = None /\ next_free_block'[FakeTail] = None
  <2>1. /\ 0 \in 0 .. Len(s) + 1 /\ 1 \in 0 .. Len(s) + 1
        /\ Len(s) + 1 \in 0 .. Len(s) + 1
    BY <1>1
  <2>2. /\ FakeHead \in Nodes \ (Range(q) \cup {Node(s, 1)})
        /\ FakeTail \in Nodes \ (Range(q) \cup {FakeHead})
    BY <2>1, <1>4, <1>5, <1>6
  <2> QED
    BY <2>2 DEF Holds, Chained, Written
<1>12. Chained(t)'
  BY <1>9, <1>10, <1>11 DEF Chained
<1> QED
  BY <1>12 DEF t

(* Threading q between the last node and the fake tail puts it at the back.*)
LEMMA JoinBack ==
  ASSUME NEW s, Holds(s), NEW q \in BlockLists, q # <<>>, Range(q) \subseteq held,
         Written(Node(s, Len(s)), q, FakeTail)
  PROVE  Chained(s \o q)'
<1> DEFINE t == s \o q
           L(i) == LinkAt(Node(s, Len(s)), q, FakeTail, i)
<1>1. /\ s \in BlockLists /\ Len(s) \in Nat /\ Len(q) \in Nat
      /\ \A i \in 1 .. Len(s) : Node(s, i) = s[i]
      /\ \A i \in 1 .. Len(s) : s[i] \in Range(s)
      /\ \A i \in 1 .. Len(q) : q[i] \in Range(q) /\ q[i] \in Blocks
  BY ListFacts, NodeFacts DEF Holds
<1>2. Range(s) \cap Range(q) = {}
  BY DEF Holds
<1>3. /\ t \in BlockLists /\ Len(t) = Len(s) + Len(q)
      /\ Range(t) = Range(s) \cup Range(q)
      /\ \A i \in 0 .. Len(s) : Node(t, i) = Node(s, i)
      /\ \A i \in 1 .. Len(q) + 1 : Node(t, Len(s) + i) = Node(q, i)
  BY <1>1, <1>2, JoinFacts
<1> HIDE DEF t
<1>4. /\ Node(s, 0) = FakeHead /\ Node(s, Len(s) + 1) = FakeTail
      /\ \A i \in 0 .. Len(s) + 1 : Node(s, i) \in Nodes
      /\ \A i, j \in 0 .. Len(s) + 1 : Node(s, i) = Node(s, j) => i = j
      /\ Node(q, Len(q) + 1) = FakeTail
      /\ \A i \in 1 .. Len(q) : Node(q, i) = q[i]
  BY <1>1, NodeFacts
<1>5. FakeHead \notin Blocks /\ FakeTail \notin Blocks /\ FakeHead # FakeTail
  BY NumBlocksNat DEF Blocks, FakeHead, FakeTail
<1>6. \A i \in 0 .. Len(s) + 1 : Node(s, i) \notin Range(q)
  <2>1. Range(q) \subseteq Blocks
    BY DEF Holds
  <2>2. \A i \in 0 .. Len(s) + 1 : Node(s, i) \in Range(s) \cup {FakeHead, FakeTail}
    BY <1>1, <1>4
  <2> QED
    BY <2>1, <2>2, <1>2, <1>5
<1>7. ASSUME NEW j \in 0 .. Len(q) + 1 PROVE Node(t, Len(s) + j) = L(j)
  <2>1. CASE j = 0
    BY <2>1, <1>1, <1>3 DEF LinkAt
  <2>2. CASE j = Len(q) + 1
    BY <2>2, <1>1, <1>3, <1>4 DEF LinkAt
  <2>3. CASE j \in 1 .. Len(q)
    <3>1. j # 0 /\ j # Len(q) + 1 /\ j \in 1 .. Len(q) + 1
      BY <2>3, <1>1
    <3> QED
      BY <2>3, <3>1, <1>3, <1>4 DEF LinkAt
  <2> QED
    BY <2>1, <2>2, <2>3, <1>1
<1>9. ASSUME NEW i \in 0 .. Len(t)
      PROVE  /\ next_free_block'[Node(t, i)] = Node(t, i + 1)
             /\ prev_free_block'[Node(t, i + 1)] = Node(t, i)
  <2>1. CASE Len(s) <= i
    <3> DEFINE j == i - Len(s)
    <3>1. /\ j \in 0 .. Len(q) /\ j \in 0 .. Len(q) + 1 /\ j + 1 \in 0 .. Len(q) + 1
          /\ i = Len(s) + j /\ i + 1 = Len(s) + (j + 1)
      BY <2>1, <1>1, <1>3
    <3> HIDE DEF j
    <3>2. Node(t, i) = L(j) /\ Node(t, i + 1) = L(j + 1)
      BY <3>1, <1>7
    <3> HIDE DEF L
    <3>3. next_free_block'[L(j)] = L(j + 1) /\ prev_free_block'[L(j + 1)] = L(j)
      BY <3>1 DEF Written, L
    <3> QED
      BY <3>2, <3>3
  <2>2. CASE ~(Len(s) <= i)
    <3>1. /\ i \in 0 .. Len(s) /\ i + 1 \in 0 .. Len(s) /\ i # Len(s)
          /\ i \in 0 .. Len(s) + 1 /\ i + 1 \in 0 .. Len(s) + 1 /\ i + 1 # Len(s) + 1
          /\ Len(s) \in 0 .. Len(s) + 1 /\ Len(s) + 1 \in 0 .. Len(s) + 1
      BY <2>2, <1>1, <1>3
    <3>2. Node(t, i) = Node(s, i) /\ Node(t, i + 1) = Node(s, i + 1)
      BY <3>1, <1>3
    <3>3. /\ Node(s, i) \in Nodes \ (Range(q) \cup {Node(s, Len(s))})
          /\ Node(s, i + 1) \in Nodes \ (Range(q) \cup {FakeTail})
      BY <3>1, <1>4, <1>6
    <3>4. /\ next_free_block'[Node(s, i)] = next_free_block[Node(s, i)]
          /\ prev_free_block'[Node(s, i + 1)] = prev_free_block[Node(s, i + 1)]
      BY <3>3 DEF Written
    <3> QED
      BY <3>1, <3>2, <3>4 DEF Holds, Chained
  <2> QED
    BY <2>1, <2>2
<1>10. ASSUME NEW x \in Blocks \ Range(t)
       PROVE  next_free_block'[x] = None /\ prev_free_block'[x] = None
  <2>1. x \in Nodes /\ x \notin Range(q) /\ x \notin Range(s) /\ x # FakeTail
    BY <1>3, <1>5 DEF Nodes
  <2>2. x # Node(s, Len(s))
    BY <2>1, <1>1, <1>4, <1>5
  <2> QED
    BY <2>1, <2>2 DEF Holds, Chained, Written
<1>11. prev_free_block'[FakeHead] = None /\ next_free_block'[FakeTail] = None
  <2>1. /\ 0 \in 0 .. Len(s) + 1 /\ Len(s) \in 0 .. Len(s) + 1
        /\ Len(s) + 1 \in 0 .. Len(s) + 1 /\ Len(s) # Len(s) + 1
    BY <1>1
  <2>2. /\ FakeHead \in Nodes \ (Range(q) \cup {FakeTail})
        /\ FakeTail \in Nodes \ (Range(q) \cup {Node(s, Len(s))})
    BY <2>1, <1>4, <1>5, <1>6
  <2> QED
    BY <2>2 DEF Holds, Chained, Written
<1>12. Chained(t)'
  BY <1>9, <1>10, <1>11 DEF Chained
<1> QED
  BY <1>12 DEF t

-----------------------------------------------------------------------------
(* The step of the abstract queue from list s to list t.                   *)
ListStep(s, t) ==
  \/ \E n \in 1 .. Len(s) :
       /\ t = SubSeq(s, n + 1, Len(s))
       /\ held' = held \cup {s[i] : i \in 1 .. n}
       /\ call' = [op |-> "take", blocks |-> SubSeq(s, 1, n)]
  \/ \E k \in 1 .. Len(s) :
       /\ t = RemoveAt(s, k)
       /\ held' = held \cup {s[k]}
       /\ call' = [op |-> "take", blocks |-> <<s[k]>>]
  \/ \E q \in BlockLists :
       /\ q # <<>> /\ Range(q) \subseteq held
       /\ held' = held \ Range(q)
       /\ \/ t = s \o q /\ call' = [op |-> "give back", blocks |-> q]
          \/ t = q \o s /\ call' = [op |-> "give front", blocks |-> q]
  \/ t = s /\ UNCHANGED <<held, call>>

(* A function on the nodes, as every link assignment leaves it.            *)
LinksAreFunctions ==
  /\ next_free_block = [x \in Nodes |-> next_free_block[x]]
  /\ prev_free_block = [x \in Nodes |-> prev_free_block[x]]

(* popleft is the removal of the first block.                              *)
LEMMA PopLeftRemoves ==
  ASSUME TypeOK, NEW s, Holds(s), PopLeft
  PROVE  \E b \in Blocks : RemoveBlock(b)
<1> DEFINE first == next_free_block[FakeHead]
<1>1. /\ s \in BlockLists /\ Len(s) \in Nat
      /\ \A i \in 1 .. Len(s) : s[i] \in Blocks
      /\ Node(s, 0) = FakeHead /\ Node(s, Len(s) + 1) = FakeTail
      /\ \A i \in 1 .. Len(s) : Node(s, i) = s[i]
  BY ListFacts, NodeFacts DEF Holds
<1>2. /\ first = Node(s, 1)
      /\ prev_free_block[Node(s, 1)] = FakeHead
  <2>1. 0 \in 0 .. Len(s) /\ 0 + 1 = 1
    BY <1>1
  <2> QED
    BY <2>1, <1>1 DEF Holds, Chained
<1>3. first \notin {FakeTail, None} /\ next_free_block[first] # None
  BY DEF PopLeft
<1>4. Len(s) # 0
  BY <1>1, <1>2, <1>3
<1>5. first \in Blocks
  BY <1>1, <1>2, <1>4
<1>6. prev_free_block[first] = FakeHead /\ FakeHead # None
  BY <1>2 DEF FakeHead, None
<1>7. RemoveBlock(first)
  BY <1>3, <1>6 DEF PopLeft, RemoveBlock
<1> QED
  BY <1>5, <1>7

(* One block as a list.                                                    *)
LEMMA SingletonFacts ==
  ASSUME NEW b \in Blocks
  PROVE  /\ <<b>> \in BlockLists /\ <<b>> # <<>> /\ Len(<<b>>) = 1
         /\ <<b>>[1] = b /\ Range(<<b>>) = {b}
<1>1. /\ <<b>> \in Seq(Blocks) /\ Len(<<b>>) = 1 /\ <<b>>[1] = b /\ <<b>> # <<>>
  OBVIOUS
<1>2. \A i, j \in 1 .. Len(<<b>>) : <<b>>[i] = <<b>>[j] => i = j
  BY <1>1
<1>3. <<b>> \in BlockLists
  BY <1>1, <1>2, ListIntro
<1>4. Range(<<b>>) = {<<b>>[i] : i \in 1 .. Len(<<b>>)}
  BY <1>3, ListFacts
<1> QED
  BY <1>1, <1>3, <1>4

(* append writes what the loop of append_n writes for one block.           *)
LEMMA AppendWrites ==
  ASSUME TypeOK, NEW b \in Blocks, Append1(b),
         prev_free_block[FakeTail] \in Nodes \ {b}
  PROVE  Written(prev_free_block[FakeTail], <<b>>, FakeTail)
<1> DEFINE last == prev_free_block[FakeTail]
<1>1. /\ next_free_block' = [next_free_block EXCEPT ![last] = b, ![b] = FakeTail]
      /\ prev_free_block' = [prev_free_block EXCEPT ![b] = last, ![FakeTail] = b]
  BY DEF Append1
<1>2. /\ DOMAIN next_free_block = Nodes /\ DOMAIN prev_free_block = Nodes
      /\ b \in Nodes /\ FakeTail \in Nodes /\ last \in Nodes /\ last # b
  BY DEF TypeOK, Nodes
<1>3. b # FakeTail
  BY NumBlocksNat DEF Blocks, FakeTail
<1> HIDE DEF last
<1>4. /\ next_free_block'[last] = b /\ next_free_block'[b] = FakeTail
      /\ prev_free_block'[b] = last /\ prev_free_block'[FakeTail] = b
  BY <1>1, <1>2, <1>3
<1>5. /\ LinkAt(last, <<b>>, FakeTail, 0) = last
      /\ LinkAt(last, <<b>>, FakeTail, 1) = b
      /\ LinkAt(last, <<b>>, FakeTail, 2) = FakeTail
  BY SingletonFacts DEF LinkAt
<1>6. \A i \in 0 .. Len(<<b>>) :
        /\ next_free_block'[LinkAt(last, <<b>>, FakeTail, i)]
             = LinkAt(last, <<b>>, FakeTail, i + 1)
        /\ prev_free_block'[LinkAt(last, <<b>>, FakeTail, i + 1)]
             = LinkAt(last, <<b>>, FakeTail, i)
  <2> SUFFICES ASSUME NEW i \in {0, 1}
               PROVE /\ next_free_block'[LinkAt(last, <<b>>, FakeTail, i)]
                          = LinkAt(last, <<b>>, FakeTail, i + 1)
                     /\ prev_free_block'[LinkAt(last, <<b>>, FakeTail, i + 1)]
                          = LinkAt(last, <<b>>, FakeTail, i)
    BY SingletonFacts
  <2>1. 0 + 1 = 1 /\ 1 + 1 = 2
    OBVIOUS
  <2> QED
    BY <2>1, <1>4, <1>5
<1>7. /\ \A x \in Nodes \ {b, last} : next_free_block'[x] = next_free_block[x]
      /\ \A x \in Nodes \ {b, FakeTail} : prev_free_block'[x] = prev_free_block[x]
  BY <1>1, <1>2
<1>8. Range(<<b>>) = {b}
  BY SingletonFacts
<1>9. Written(last, <<b>>, FakeTail)
  BY <1>6, <1>7, <1>8 DEF Written
<1> QED
  BY <1>9 DEF last

(* Giving a list q of held blocks back, at the back or in front.           *)
LEMMA GiveStep ==
  ASSUME NEW s, Holds(s), NEW q \in BlockLists, q # <<>>, Range(q) \subseteq held,
         held' = held \ Range(q), num_free_blocks' = num_free_blocks + Len(q)
  PROVE  /\ Written(FakeHead, q, Node(s, 1)) => Holds(q \o s)'
         /\ Written(Node(s, Len(s)), q, FakeTail) => Holds(s \o q)'
<1>1. s \in BlockLists /\ Len(s) \in Nat /\ Len(q) \in Nat
  BY ListFacts DEF Holds
<1>2. Range(q) \cap Range(s) = {} /\ Range(s) \cap Range(q) = {}
  BY DEF Holds
<1>3. /\ q \o s \in BlockLists /\ Len(q \o s) = Len(q) + Len(s)
      /\ Range(q \o s) = Range(q) \cup Range(s)
  BY <1>1, <1>2, JoinFacts
<1>4. /\ s \o q \in BlockLists /\ Len(s \o q) = Len(s) + Len(q)
      /\ Range(s \o q) = Range(s) \cup Range(q)
  BY <1>1, <1>2, JoinFacts
<1>5. held = Blocks \ Range(s) /\ num_free_blocks = Len(s)
  BY DEF Holds
<1>6. ASSUME Written(FakeHead, q, Node(s, 1)) PROVE Holds(q \o s)'
  <2>1. Chained(q \o s)'
    BY <1>6, JoinFront
  <2>2. held' = Blocks \ Range(q \o s) /\ num_free_blocks' = Len(q \o s)
    BY <1>1, <1>3, <1>5
  <2> QED
    BY <2>1, <2>2, <1>3 DEF Holds
<1>7. ASSUME Written(Node(s, Len(s)), q, FakeTail) PROVE Holds(s \o q)'
  <2>1. Chained(s \o q)'
    BY <1>7, JoinBack
  <2>2. held' = Blocks \ Range(s \o q) /\ num_free_blocks' = Len(s \o q)
    BY <1>1, <1>4, <1>5
  <2> QED
    BY <2>1, <2>2, <1>4 DEF Holds
<1> QED
  BY <1>6, <1>7

(* Every step of the links is a step, or a stutter, of the list they hold. *)
LEMMA StepHolds ==
  ASSUME TypeOK, NEW s, Holds(s), [Next]_vars
  PROVE  \E t : Holds(t)' /\ ListStep(s, t)
<1>1. /\ s \in BlockLists /\ Len(s) \in Nat
      /\ Node(s, 0) = FakeHead /\ Node(s, Len(s) + 1) = FakeTail
      /\ \A i \in 0 .. Len(s) + 1 : Node(s, i) \in Nodes
      /\ \A i \in 1 .. Len(s) : Node(s, i) = s[i] /\ s[i] \in Range(s)
  BY ListFacts, NodeFacts DEF Holds
<1>2. /\ next_free_block[FakeHead] = Node(s, 1)
      /\ prev_free_block[FakeTail] = Node(s, Len(s))
  <2>1. 0 \in 0 .. Len(s) /\ Len(s) \in 0 .. Len(s) /\ 0 + 1 = 1
    BY <1>1
  <2> QED
    BY <2>1, <1>1 DEF Holds, Chained
<1>3. /\ Node(s, 1) \in Nodes /\ Node(s, Len(s)) \in Nodes
      /\ Node(s, 1) \in Range(s) \cup {FakeTail}
      /\ Node(s, Len(s)) \in Range(s) \cup {FakeHead}
  <2>1. /\ 1 \in 0 .. Len(s) + 1 /\ Len(s) \in 0 .. Len(s) + 1
        /\ 1 \in 1 .. Len(s) \/ 1 = Len(s) + 1
        /\ Len(s) \in 1 .. Len(s) \/ Len(s) = 0
    BY <1>1
  <2> QED
    BY <2>1, <1>1
<1>4. /\ FakeHead \in Nodes \ Blocks /\ FakeTail \in Nodes \ Blocks
      /\ held = Blocks \ Range(s)
  BY NumBlocksNat DEF Nodes, Blocks, FakeHead, FakeTail, Holds
<1>5. ASSUME NEW b \in Blocks, RemoveBlock(b)
      PROVE  \E t : Holds(t)' /\ ListStep(s, t)
  <2>1. PICK k \in 1 .. Len(s) : s[k] = b /\ Holds(RemoveAt(s, k))'
    BY <1>5, RemoveStep
  <2>2. held' = held \cup {s[k]} /\ call' = [op |-> "take", blocks |-> <<s[k]>>]
    BY <1>5, <2>1 DEF RemoveBlock, Did
  <2>3. ListStep(s, RemoveAt(s, k))
    BY <2>2 DEF ListStep
  <2> QED
    BY <2>1, <2>3
<1>6. CASE PopLeft
  BY <1>5, <1>6, PopLeftRemoves
<1>7. ASSUME NEW n, PopLeftN(n) PROVE \E t : Holds(t)' /\ ListStep(s, t)
  <2> DEFINE t == SubSeq(s, n + 1, Len(s))
  <2>1. /\ n \in 1 .. Len(s) /\ Holds(t)'
        /\ call' = [op |-> "take", blocks |-> SubSeq(s, 1, n)]
    BY <1>7, PopLeftNStep
  <2>2. held' = held \cup {s[i] : i \in 1 .. n}
    <3>1. /\ Range(t) = Range(s) \ {s[i] : i \in 1 .. n}
          /\ held' = Blocks \ Range(t)
      BY <2>1, <1>1, SuffixFacts DEF Holds
    <3>2. {s[i] : i \in 1 .. n} \subseteq Blocks
      BY <2>1, <1>1, ListFacts
    <3> HIDE DEF t
    <3> QED
      BY <3>1, <3>2, <1>4
  <2>3. ListStep(s, t)
    BY <2>1, <2>2 DEF ListStep
  <2> QED
    BY <2>1, <2>3
<1>8. ASSUME NEW b \in Blocks, Append1(b)
      PROVE  \E t : Holds(t)' /\ ListStep(s, t)
  <2> DEFINE q == <<b>>
  <2>1. /\ q \in BlockLists /\ q # <<>> /\ Len(q) = 1 /\ Range(q) = {b}
    BY SingletonFacts
  <2>2. /\ b \in held /\ held' = held \ {b}
        /\ num_free_blocks' = num_free_blocks + 1
        /\ call' = [op |-> "give back", blocks |-> q]
    BY <1>8 DEF Append1, Did
  <2>3. prev_free_block[FakeTail] \in Nodes \ {b}
    BY <2>2, <1>2, <1>3, <1>4
  <2>4. Written(Node(s, Len(s)), q, FakeTail)
    BY <1>2, <1>8, <2>3, AppendWrites
  <2> HIDE DEF q
  <2>5. Range(q) \subseteq held /\ held' = held \ Range(q)
        /\ num_free_blocks' = num_free_blocks + Len(q)
    BY <2>1, <2>2
  <2>6. Holds(s \o q)'
    BY <2>1, <2>4, <2>5, GiveStep
  <2>7. ListStep(s, s \o q)
    BY <2>1, <2>2, <2>5 DEF ListStep
  <2> QED
    BY <2>6, <2>7
<1>9. ASSUME NEW q \in BlockLists, AppendN(q)
      PROVE  \E t : Holds(t)' /\ ListStep(s, t)
  <2>1. /\ q # <<>> /\ Range(q) \subseteq held /\ held' = held \ Range(q)
        /\ num_free_blocks' = num_free_blocks + Len(q)
        /\ call' = [op |-> "give back", blocks |-> q]
    BY <1>9 DEF AppendN, Thread, Did
  <2>a. Thread(Node(s, Len(s)), q, FakeTail)
    BY <1>2, <1>9 DEF AppendN
  <2>2. Node(s, Len(s)) \notin Range(q) /\ FakeTail \notin Range(q)
    BY <2>1, <1>3, <1>4
  <2>3. Written(Node(s, Len(s)), q, FakeTail)
    BY <2>1, <2>a, <2>2, <1>3, <1>4, ThreadWrites
  <2>4. Holds(s \o q)'
    BY <2>1, <2>3, GiveStep
  <2>5. ListStep(s, s \o q)
    BY <2>1 DEF ListStep
  <2> QED
    BY <2>4, <2>5
<1>10. ASSUME NEW q \in BlockLists, PrependN(q)
       PROVE  \E t : Holds(t)' /\ ListStep(s, t)
  <2>1. /\ q # <<>> /\ Range(q) \subseteq held /\ held' = held \ Range(q)
        /\ num_free_blocks' = num_free_blocks + Len(q)
        /\ call' = [op |-> "give front", blocks |-> q]
    BY <1>10 DEF PrependN, Thread, Did
  <2>a. Thread(FakeHead, q, Node(s, 1))
    BY <1>2, <1>10 DEF PrependN
  <2>2. FakeHead \notin Range(q) /\ Node(s, 1) \notin Range(q)
    BY <2>1, <1>3, <1>4
  <2>3. Written(FakeHead, q, Node(s, 1))
    BY <2>1, <2>a, <2>2, <1>3, <1>4, ThreadWrites
  <2>4. Holds(q \o s)'
    BY <2>1, <2>3, GiveStep
  <2>5. ListStep(s, q \o s)
    BY <2>1 DEF ListStep
  <2> QED
    BY <2>4, <2>5
<1>11. ASSUME UNCHANGED list PROVE \E t : Holds(t)' /\ ListStep(s, t)
  <2>1. Holds(s)'
    BY <1>11 DEF Holds, Chained, list
  <2>2. ListStep(s, s)
    BY <1>11 DEF ListStep, list
  <2> QED
    BY <2>1, <2>2
<1>12. CASE \/ \E cursor \in Blocks \cup {FakeHead} : IterCreate(cursor)
            \/ IterResume \/ IterClose \/ UNCHANGED vars
  BY <1>11, <1>12 DEF IterCreate, IterResume, IterClose, vars, list
<1> QED
  BY <1>5, <1>6, <1>7, <1>8, <1>9, <1>10, <1>12 DEF Next

(* FreeListOK says that the state holds some list.                         *)
LEMMA FreeListHolds == FreeListOK <=> \E s : Holds(s)
BY DEF FreeListOK, Holds

(* The links of a state that holds a list are nodes or None.               *)
LEMMA ChainTyped ==
  ASSUME NEW s, Holds(s), LinksAreFunctions
  PROVE  /\ prev_free_block \in [Nodes -> Nodes \cup {None}]
         /\ next_free_block \in [Nodes -> Nodes \cup {None}]
         /\ num_free_blocks \in 0 .. NumBlocks
         /\ held \subseteq Blocks
<1>1. /\ s \in BlockLists /\ Len(s) \in Nat /\ Len(s) <= NumBlocks
      /\ Range(s) = {s[i] : i \in 1 .. Len(s)}
      /\ Node(s, 0) = FakeHead /\ Node(s, Len(s) + 1) = FakeTail
      /\ \A i \in 0 .. Len(s) + 1 : Node(s, i) \in Nodes
      /\ \A i \in 1 .. Len(s) : Node(s, i) = s[i]
  BY ListFacts, NodeFacts DEF Holds
<1>2. \A i \in 0 .. Len(s) : /\ next_free_block[Node(s, i)] = Node(s, i + 1)
                              /\ prev_free_block[Node(s, i + 1)] = Node(s, i)
  BY DEF Holds, Chained
<1>3. ASSUME NEW x \in Nodes
      PROVE  /\ next_free_block[x] \in Nodes \cup {None}
             /\ prev_free_block[x] \in Nodes \cup {None}
  <2>1. CASE x \in Blocks \ Range(s)
    BY <2>1 DEF Holds, Chained
  <2>2. CASE x \in Range(s)
    <3>1. PICK i \in 1 .. Len(s) : x = Node(s, i)
      BY <2>2, <1>1
    <3>2. /\ i \in 0 .. Len(s) /\ i + 1 \in 0 .. Len(s) + 1
          /\ i - 1 \in 0 .. Len(s) /\ i - 1 + 1 = i /\ i - 1 \in 0 .. Len(s) + 1
      BY <1>1
    <3> QED
      BY <3>1, <3>2, <1>1, <1>2
  <2>3. CASE x = FakeHead
    <3>1. 0 \in 0 .. Len(s) /\ 0 + 1 = 1 /\ 1 \in 0 .. Len(s) + 1
      BY <1>1
    <3> QED
      BY <2>3, <3>1, <1>1, <1>2 DEF Holds, Chained
  <2>4. CASE x = FakeTail
    <3>1. Len(s) \in 0 .. Len(s) /\ Len(s) \in 0 .. Len(s) + 1
      BY <1>1
    <3> QED
      BY <2>4, <3>1, <1>1, <1>2 DEF Holds, Chained
  <2> QED
    BY <2>1, <2>2, <2>3, <2>4 DEF Nodes
<1>4. /\ prev_free_block \in [Nodes -> Nodes \cup {None}]
      /\ next_free_block \in [Nodes -> Nodes \cup {None}]
  BY <1>3 DEF LinksAreFunctions
<1>5. num_free_blocks \in 0 .. NumBlocks /\ held \subseteq Blocks
  BY <1>1, NumBlocksNat DEF Holds
<1> QED
  BY <1>4, <1>5

-----------------------------------------------------------------------------
(* The inductive invariant: types, and the links hold some list.           *)
IInv == TypeOK /\ FreeListOK

(* The same as a formula, to be primed.                                    *)
LEMMA ChainTypedAll ==
  \A u : Holds(u) /\ LinksAreFunctions
         => /\ prev_free_block \in [Nodes -> Nodes \cup {None}]
            /\ next_free_block \in [Nodes -> Nodes \cup {None}]
            /\ num_free_blocks \in 0 .. NumBlocks
            /\ held \subseteq Blocks
BY ChainTyped

LEMMA InitHolds == Init => IInv /\ Holds([i \in 1 .. NumBlocks |-> i - 1])
<1> SUFFICES ASSUME Init
             PROVE  IInv /\ Holds([i \in 1 .. NumBlocks |-> i - 1])
  OBVIOUS
<1> DEFINE s == [i \in 1 .. NumBlocks |-> i - 1]
<1>1. /\ s \in Seq(Blocks) /\ Len(s) = NumBlocks
      /\ \A i \in 1 .. NumBlocks : s[i] = i - 1
  BY NumBlocksNat DEF Blocks
<1> HIDE DEF s
<1>2. s \in BlockLists
  <2>1. \A i, j \in 1 .. Len(s) : s[i] = s[j] => i = j
    BY <1>1, NumBlocksNat
  <2> QED
    BY <1>1, <2>1, ListIntro
<1>3. Range(s) = Blocks
  <2>1. Range(s) = {s[i] : i \in 1 .. NumBlocks}
    BY <1>1, <1>2, ListFacts
  <2>2. ASSUME NEW b \in Blocks PROVE b + 1 \in 1 .. NumBlocks /\ s[b + 1] = b
    <3>1. b \in Int /\ b + 1 \in 1 .. NumBlocks /\ b + 1 - 1 = b
      BY NumBlocksNat DEF Blocks
    <3> QED
      BY <3>1, <1>1
  <2>3. \A i \in 1 .. NumBlocks : s[i] \in Blocks
    BY <1>1, NumBlocksNat DEF Blocks
  <2> QED
    BY <2>1, <2>2, <2>3
<1>4. /\ Node(s, 0) = -1 /\ Node(s, NumBlocks + 1) = -2
      /\ \A i \in 1 .. NumBlocks : Node(s, i) = i - 1
  BY <1>1, NumBlocksNat DEF Node, FakeHead, FakeTail
<1>5. ASSUME NEW i \in 0 .. Len(s)
      PROVE  /\ next_free_block[Node(s, i)] = Node(s, i + 1)
             /\ prev_free_block[Node(s, i + 1)] = Node(s, i)
  <2>1. i \in 0 .. NumBlocks /\ NumBlocks \in Nat
    BY <1>1, NumBlocksNat
  <2>2. Node(s, i) = i - 1
    BY <2>1, <1>4
  <2>3. Node(s, i + 1) = IF i = NumBlocks THEN -2 ELSE i
    <3>1. CASE i = NumBlocks
      BY <3>1, <1>4
    <3>2. CASE i # NumBlocks
      <4>1. i + 1 \in 1 .. NumBlocks /\ i + 1 - 1 = i
        BY <3>2, <2>1
      <4> QED
        BY <4>1, <3>2, <1>4
    <3> QED
      BY <3>1, <3>2
  <2>4. /\ i - 1 \in Nodes /\ (IF i = NumBlocks THEN -2 ELSE i) \in Nodes
        /\ i - 1 # -2
    BY <2>1 DEF Nodes, Blocks, FakeHead, FakeTail
  <2>5. next_free_block[i - 1] = IF i = NumBlocks THEN -2 ELSE i
    BY <2>1, <2>4 DEF Init, FakeTail
  <2>6. prev_free_block[IF i = NumBlocks THEN -2 ELSE i] = i - 1
    <3>1. CASE i = NumBlocks
      BY <3>1, <2>1, <2>4 DEF Init, FakeTail, FakeHead
    <3>2. CASE i # NumBlocks
      <4>1. i # -2 /\ i # -1
        BY <2>1
      <4> QED
        BY <3>2, <4>1, <2>1, <2>4 DEF Init, FakeTail, FakeHead
    <3> QED
      BY <3>1, <3>2
  <2> QED
    BY <2>2, <2>3, <2>5, <2>6
<1>6. prev_free_block[FakeHead] = None /\ next_free_block[FakeTail] = None
  BY DEF Init, Nodes
<1>7. Holds(s)
  <2>1. Chained(s)
    BY <1>3, <1>5, <1>6 DEF Chained
  <2> QED
    BY <2>1, <1>1, <1>2, <1>3 DEF Holds, Init
<1>8. TypeOK
  <2>1. LinksAreFunctions
    BY DEF Init, LinksAreFunctions
  <2>2. iter = NoIteration /\ call = [op |-> "init", blocks |-> <<>>]
    BY DEF Init
  <2>3. <<>> \in BlockLists
    <3>1. <<>> \in Seq(Blocks) /\ Len(<<>>) = 0
      OBVIOUS
    <3>2. \A i, j \in 1 .. Len(<<>>) : <<>>[i] = <<>>[j] => i = j
      <4>1. 1 .. Len(<<>>) = {}
        BY <3>1
      <4> QED
        BY <4>1
    <3> QED
      BY <3>1, <3>2, ListIntro
  <2> QED
    BY <2>1, <2>2, <2>3, <1>7, ChainTyped DEF TypeOK
<1> QED
  BY <1>7, <1>8, FreeListHolds DEF IInv, s

(* The calls that Did writes are typed.                                    *)
LEMMA DidTyped ==
  ASSUME NEW op \in {"take", "give back", "give front"}, NEW w \in BlockLists,
         Did(op, w)
  PROVE  call' \in [op : {"init", "take", "give back", "give front"},
                   blocks : BlockLists]
<1>1. call' = [op |-> op, blocks |-> w]
  BY DEF Did
<1>2. op \in {"init", "take", "give back", "give front"}
  OBVIOUS
<1> QED
  BY <1>1, <1>2

(* Types and the well-formed list are preserved by every step.             *)
LEMMA StepKeeps == IInv /\ [Next]_vars => IInv'
<1> SUFFICES ASSUME IInv, [Next]_vars PROVE IInv'
  OBVIOUS
<1>1. TypeOK /\ \E s : Holds(s)
  BY FreeListHolds DEF IInv
<1>2. PICK s : Holds(s)
  BY <1>1
<1>3. PICK t : Holds(t)' /\ ListStep(s, t)
  BY <1>1, <1>2, StepHolds
<1>4. FreeListOK'
  BY <1>3 DEF FreeListOK, Holds
<1>5. LinksAreFunctions'
  <2>1. LinksAreFunctions
    BY <1>1 DEF TypeOK, LinksAreFunctions
  <2>2. CASE UNCHANGED list
    BY <2>1, <2>2 DEF LinksAreFunctions, list
  <2>3. CASE PopLeft
    BY <2>1, <2>3 DEF PopLeft, LinksAreFunctions
  <2>4. ASSUME NEW n, PopLeftN(n) PROVE LinksAreFunctions'
    BY <2>1, <2>4 DEF PopLeftN, LinksAreFunctions
  <2>5. ASSUME NEW b, RemoveBlock(b) PROVE LinksAreFunctions'
    BY <2>1, <2>5 DEF RemoveBlock, LinksAreFunctions
  <2>6. ASSUME NEW b, Append1(b) PROVE LinksAreFunctions'
    BY <2>1, <2>6 DEF Append1, LinksAreFunctions
  <2>7. ASSUME NEW q, PrependN(q) \/ AppendN(q) PROVE LinksAreFunctions'
    BY <2>1, <2>7 DEF PrependN, AppendN, Thread, LinksAreFunctions
  <2> QED
    BY <2>2, <2>3, <2>4, <2>5, <2>6, <2>7
    DEF Next, vars, list, IterCreate, IterResume, IterClose
<1>6. /\ prev_free_block' \in [Nodes -> Nodes \cup {None}]
      /\ next_free_block' \in [Nodes -> Nodes \cup {None}]
      /\ num_free_blocks' \in 0 .. NumBlocks
      /\ held' \subseteq Blocks
  <2>1. (\A u : Holds(u) /\ LinksAreFunctions
           => /\ prev_free_block \in [Nodes -> Nodes \cup {None}]
              /\ next_free_block \in [Nodes -> Nodes \cup {None}]
              /\ num_free_blocks \in 0 .. NumBlocks
              /\ held \subseteq Blocks)'
    BY ChainTypedAll, PTL
  <2> QED
    BY <2>1, <1>3, <1>5
<1>7. iter' \in {NoIteration} \cup [phase : {"created", "suspended"},
                                    at : Blocks \cup {FakeHead}]
  <2>1. CASE UNCHANGED iter
    BY <1>1, <2>1 DEF TypeOK
  <2>2. CASE \E cursor \in Blocks \cup {FakeHead} : IterCreate(cursor)
    BY <2>2 DEF IterCreate
  <2>3. CASE IterResume
    <3>1. CASE iter' = NoIteration
      BY <3>1
    <3>2. CASE iter' # NoIteration
      <4>1. /\ iter.phase # "idle"
            /\ next_free_block[iter.at] \notin {None, FakeTail}
            /\ iter' = [phase |-> "suspended", at |-> next_free_block[iter.at]]
        BY <2>3, <3>2 DEF IterResume
      <4>2. iter.at \in Nodes
        <5>1. iter # NoIteration
          BY <4>1 DEF NoIteration
        <5>2. iter \in [phase : {"created", "suspended"}, at : Blocks \cup {FakeHead}]
          BY <5>1, <1>1 DEF TypeOK
        <5> QED
          BY <5>2 DEF Nodes
      <4>3. next_free_block[iter.at] \in Blocks \cup {FakeHead}
        BY <4>1, <4>2, <1>1 DEF TypeOK, Nodes
      <4> QED
        BY <4>1, <4>3
    <3> QED
      BY <3>1, <3>2
  <2>4. CASE IterClose
    BY <2>4 DEF IterClose
  <2> QED
    BY <2>1, <2>2, <2>3, <2>4 DEF Next, vars, PopLeft, PopLeftN, RemoveBlock,
       Append1, PrependN, AppendN, Thread
<1>8. call' \in [op : {"init", "take", "give back", "give front"}, blocks : BlockLists]
  <2>1. CASE UNCHANGED call
    BY <1>1, <2>1 DEF TypeOK
  <2>3. ASSUME NEW n, PopLeftN(n)
        PROVE  call' \in [op : {"init", "take", "give back", "give front"},
                          blocks : BlockLists]
    <3>1. PICK w \in BlockLists : Did("take", w)
      BY <2>3 DEF PopLeftN
    <3> QED
      BY <3>1, DidTyped
  <2>4. ASSUME NEW b \in Blocks, RemoveBlock(b) \/ Append1(b)
        PROVE  call' \in [op : {"init", "take", "give back", "give front"},
                          blocks : BlockLists]
    <3>1. <<b>> \in BlockLists
      BY SingletonFacts
    <3>2. Did("take", <<b>>) \/ Did("give back", <<b>>)
      BY <2>4 DEF RemoveBlock, Append1
    <3> QED
      BY <3>1, <3>2, DidTyped
  <2>5. CASE PopLeft
    <3>1. \E b \in Blocks : RemoveBlock(b)
      BY <1>1, <1>2, <2>5, PopLeftRemoves
    <3> QED
      BY <3>1, <2>4
  <2>6. ASSUME NEW q \in BlockLists, PrependN(q) \/ AppendN(q)
        PROVE  call' \in [op : {"init", "take", "give back", "give front"},
                          blocks : BlockLists]
    <3>1. Did("give front", q) \/ Did("give back", q)
      BY <2>6 DEF PrependN, AppendN
    <3> QED
      BY <3>1, DidTyped
  <2> QED
    BY <2>1, <2>3, <2>4, <2>5, <2>6
    DEF Next, vars, list, IterCreate, IterResume, IterClose
<1> QED
  BY <1>4, <1>6, <1>7, <1>8 DEF IInv, TypeOK

(* Reachable states satisfy the inductive invariant.                       *)
LEMMA Invariance == Spec => []IInv
<1>1. Init => IInv
  BY InitHolds
<1> QED
  BY <1>1, StepKeeps, PTL DEF Spec

-----------------------------------------------------------------------------
(* For every number of blocks the links stay nodes, the count stays within *)
(* 0 .. NumBlocks and callers only hold blocks of the pool.                *)
THEOREM TypeCorrect == Spec => []TypeOK
<1>1. IInv => TypeOK
  BY DEF IInv
<1> QED
  BY <1>1, Invariance, PTL

(* For every number of blocks, whatever the order of pops, removals and    *)
(* returns, the two link fields spell one list of exactly the blocks that  *)
(* nobody holds and num_free_blocks is its length.                         *)
THEOREM FreeListCorrect == Spec => []FreeListOK
<1>1. IInv => FreeListOK
  BY DEF IInv
<1> QED
  BY <1>1, Invariance, PTL

(* What a state that holds list s reads through the links.                 *)
LEMMA LineFacts ==
  ASSUME NEW s, Holds(s)
  PROVE  /\ s \in BlockLists /\ Len(s) \in Nat
         /\ held = Blocks \ Range(s) /\ num_free_blocks = Len(s)
         /\ next_free_block[FakeHead] = Node(s, 1)
         /\ prev_free_block[FakeTail] = Node(s, Len(s))
         /\ Node(s, Len(s) + 1) = FakeTail /\ Node(s, 0) = FakeHead
         /\ \A i \in 1 .. Len(s) : /\ s[i] \in Blocks /\ s[i] \in Range(s)
                                   /\ Node(s, i) = s[i]
                                   /\ next_free_block[s[i]] = Node(s, i + 1)
                                   /\ prev_free_block[s[i]] = Node(s, i - 1)
         /\ \A i \in 0 .. Len(s) + 1 : Node(s, i) \in Nodes /\ Node(s, i) # None
         /\ \A b \in Blocks : b \in Range(s) => \E i \in 1 .. Len(s) : s[i] = b
         /\ \A b \in held : next_free_block[b] = None /\ prev_free_block[b] = None
<1>1. /\ s \in BlockLists /\ Len(s) \in Nat
      /\ \A i \in 1 .. Len(s) : s[i] \in Blocks
      /\ Range(s) = {s[i] : i \in 1 .. Len(s)}
      /\ Node(s, 0) = FakeHead /\ Node(s, Len(s) + 1) = FakeTail
      /\ \A i \in 1 .. Len(s) : Node(s, i) = s[i]
      /\ \A i \in 0 .. Len(s) + 1 : Node(s, i) \in Nodes
  BY ListFacts, NodeFacts DEF Holds
<1>2. /\ held = Blocks \ Range(s) /\ num_free_blocks = Len(s) /\ Chained(s)
  BY DEF Holds
<1>3. \A i \in 0 .. Len(s) : /\ next_free_block[Node(s, i)] = Node(s, i + 1)
                             /\ prev_free_block[Node(s, i + 1)] = Node(s, i)
  BY <1>2 DEF Chained
<1>4. /\ next_free_block[FakeHead] = Node(s, 1)
      /\ prev_free_block[FakeTail] = Node(s, Len(s))
  <2>1. 0 \in 0 .. Len(s) /\ Len(s) \in 0 .. Len(s) /\ 0 + 1 = 1
    BY <1>1
  <2> QED
    BY <2>1, <1>1, <1>3
<1>5. ASSUME NEW i \in 1 .. Len(s)
      PROVE  /\ s[i] \in Blocks /\ s[i] \in Range(s) /\ Node(s, i) = s[i]
             /\ next_free_block[s[i]] = Node(s, i + 1)
             /\ prev_free_block[s[i]] = Node(s, i - 1)
  <2>1. i \in 0 .. Len(s) /\ i - 1 \in 0 .. Len(s) /\ (i - 1) + 1 = i
    BY <1>1
  <2>2. /\ next_free_block[Node(s, i)] = Node(s, i + 1)
        /\ prev_free_block[Node(s, (i - 1) + 1)] = Node(s, i - 1)
    BY <2>1, <1>3
  <2> QED
    BY <2>1, <2>2, <1>1
<1>6. None \notin Nodes
  BY NumBlocksNat DEF None, Nodes, Blocks, FakeHead, FakeTail
<1>7. \A b \in held : next_free_block[b] = None /\ prev_free_block[b] = None
  BY <1>2 DEF Chained
<1>8. \A i \in 0 .. Len(s) + 1 : Node(s, i) \in Nodes /\ Node(s, i) # None
  BY <1>1, <1>6
<1>9. \A b \in Blocks : b \in Range(s) => \E i \in 1 .. Len(s) : s[i] = b
  BY <1>1
<1> QED
  BY <1>1, <1>2, <1>4, <1>5, <1>7, <1>8, <1>9

(* For every number of blocks, none of the assertions and RuntimeErrors of *)
(* the class can fire for a legal call.                                    *)
THEOREM InternalErrors == Spec => []InternalErrorsUnreachable
<1>1. IInv => InternalErrorsUnreachable
  <2> SUFFICES ASSUME IInv PROVE InternalErrorsUnreachable
    OBVIOUS
  <2>1. PICK s : Holds(s)
    BY FreeListHolds DEF IInv
  <2>2. /\ s \in BlockLists /\ Len(s) \in Nat
        /\ held = Blocks \ Range(s) /\ num_free_blocks = Len(s)
        /\ next_free_block[FakeHead] = Node(s, 1)
        /\ prev_free_block[FakeTail] = Node(s, Len(s))
        /\ \A i \in 1 .. Len(s) : /\ s[i] \in Blocks /\ Node(s, i) = s[i]
                                  /\ next_free_block[s[i]] = Node(s, i + 1)
                                  /\ prev_free_block[s[i]] = Node(s, i - 1)
        /\ \A i \in 0 .. Len(s) + 1 : Node(s, i) # None
        /\ \A b \in Blocks : b \in Range(s) => \E i \in 1 .. Len(s) : s[i] = b
        /\ \A b \in held : next_free_block[b] = None /\ prev_free_block[b] = None
    BY <2>1, LineFacts
  <2>3. 1 \in 0 .. Len(s) + 1 /\ Len(s) \in 0 .. Len(s) + 1
    BY <2>2
  <2>4. next_free_block[FakeHead] \in {FakeTail, None} => num_free_blocks = 0
    <3>1. CASE Len(s) = 0
      BY <3>1, <2>2
    <3>2. CASE Len(s) # 0
      <4>1. 1 \in 1 .. Len(s)
        BY <3>2, <2>2
      <4>2. next_free_block[FakeHead] \in Blocks
        BY <4>1, <2>2
      <4> QED
        BY <4>2, NumBlocksNat DEF Blocks, FakeTail, None
    <3> QED
      BY <3>1, <3>2
  <2>5. next_free_block[FakeHead] # None /\ prev_free_block[FakeTail] # None
    BY <2>2, <2>3
  <2>6. ASSUME NEW b \in Blocks \ held
        PROVE  prev_free_block[b] # None /\ next_free_block[b] # None
    <3>1. PICK i \in 1 .. Len(s) : s[i] = b
      BY <2>2
    <3>2. i + 1 \in 0 .. Len(s) + 1 /\ i - 1 \in 0 .. Len(s) + 1
      BY <3>1, <2>2
    <3>3. next_free_block[b] = Node(s, i + 1) /\ prev_free_block[b] = Node(s, i - 1)
      BY <3>1, <2>2
    <3> QED
      BY <3>2, <3>3, <2>2
  <2>7. ASSUME NEW n \in 1 .. num_free_blocks
        PROVE  \E w \in BlockLists : Len(w) = n /\ IsWalk(w)
    <3> DEFINE w == SubSeq(s, 1, n)
    <3>1. n \in 1 .. Len(s) /\ s \in Seq(Blocks)
      BY <2>2, ListFacts
    <3>2. /\ w \in Seq(Blocks) /\ Len(w) = n
          /\ \A i \in 1 .. n : w[i] = s[i]
      <4>1. \A i \in 1 .. n : s[i] \in Blocks
        BY <3>1, <2>2
      <4> QED
        BY <3>1, <4>1, <2>2
    <3>3. DOMAIN w = 1 .. n
      BY <3>2
    <3> HIDE DEF w
    <3>4. w \in BlockLists
      <4>1. \A i, j \in 1 .. Len(s) : s[i] = s[j] => i = j
        BY <2>2, ListFacts
      <4>2. \A i \in 1 .. n : i \in 1 .. Len(s)
        BY <3>1, <2>2
      <4>3. \A i, j \in 1 .. Len(w) : w[i] = w[j] => i = j
        BY <3>2, <4>1, <4>2
      <4> QED
        BY <3>2, <4>3, ListIntro
    <3>5. IsWalk(w)
      <4> SUFFICES ASSUME NEW i \in DOMAIN w
                   PROVE  w[i] = IF i = 1 THEN next_free_block[FakeHead]
                                 ELSE next_free_block[w[i - 1]]
        BY DEF IsWalk
      <4>1. i \in 1 .. n /\ i \in 1 .. Len(s) /\ w[i] = Node(s, i)
        BY <3>1, <3>2, <3>3, <2>2
      <4>2. CASE i = 1
        BY <4>1, <4>2, <2>2
      <4>3. CASE i # 1
        <5>1. i - 1 \in 1 .. n /\ i - 1 \in 1 .. Len(s) /\ (i - 1) + 1 = i
          BY <4>1, <4>3, <2>2
        <5>2. w[i - 1] = s[i - 1] /\ next_free_block[s[i - 1]] = Node(s, (i - 1) + 1)
          BY <5>1, <3>2, <2>2
        <5> QED
          BY <5>1, <5>2, <4>1, <4>3
      <4> QED
        BY <4>2, <4>3
    <3> QED
      BY <3>2, <3>4, <3>5
  <2> QED
    BY <2>2, <2>4, <2>5, <2>6, <2>7 DEF InternalErrorsUnreachable
<1> QED
  BY <1>1, Invariance, PTL

(* For every number of blocks, a resumed generator yields a block that is  *)
(* free when it is yielded, whatever happened to the block it stood on.    *)
THEOREM IterationSafe == Spec => IterYieldsFree
<1>1. IInv /\ [Next]_vars
        => [iter'.phase = "suspended" /\ iter' # iter
              => iter'.at \in Blocks \ held]_vars
  <2> SUFFICES ASSUME IInv, [Next]_vars, iter'.phase = "suspended", iter' # iter
               PROVE  iter'.at \in Blocks \ held
    OBVIOUS
  <2>1. IterResume
    <3>1. CASE \E cursor \in Blocks \cup {FakeHead} : IterCreate(cursor)
      BY <3>1 DEF IterCreate
    <3>2. CASE IterClose
      BY <3>2 DEF IterClose, NoIteration
    <3> QED
      BY <3>1, <3>2 DEF Next, vars, PopLeft, PopLeftN, RemoveBlock, Append1,
         PrependN, AppendN, Thread
  <2>2. /\ iter.phase # "idle"
        /\ next_free_block[iter.at] \notin {None, FakeTail}
        /\ iter' = [phase |-> "suspended", at |-> next_free_block[iter.at]]
    BY <2>1 DEF IterResume, NoIteration
  <2>3. iter.at \in Blocks \cup {FakeHead}
    <3>1. iter # NoIteration
      BY <2>2 DEF NoIteration
    <3> QED
      BY <3>1 DEF IInv, TypeOK
  <2>4. PICK s : Holds(s)
    BY FreeListHolds DEF IInv
  <2>5. /\ s \in BlockLists /\ Len(s) \in Nat
        /\ held = Blocks \ Range(s)
        /\ next_free_block[FakeHead] = Node(s, 1)
        /\ Node(s, Len(s) + 1) = FakeTail
        /\ \A i \in 1 .. Len(s) : /\ s[i] \in Blocks /\ s[i] \in Range(s)
                                  /\ Node(s, i) = s[i]
                                  /\ next_free_block[s[i]] = Node(s, i + 1)
        /\ \A b \in Blocks : b \in Range(s) => \E i \in 1 .. Len(s) : s[i] = b
        /\ \A b \in held : next_free_block[b] = None
    BY <2>4, LineFacts
  <2>6. PICK i \in 0 .. Len(s) : next_free_block[iter.at] = Node(s, i + 1)
    <3>1. CASE iter.at = FakeHead
      <4>1. 0 \in 0 .. Len(s) /\ 0 + 1 = 1
        BY <2>5
      <4> QED
        BY <3>1, <4>1, <2>5
    <3>2. CASE iter.at \in Blocks
      <4>1. iter.at \notin held
        BY <2>2, <2>5
      <4>2. PICK i \in 1 .. Len(s) : s[i] = iter.at
        BY <3>2, <4>1, <2>5
      <4>3. i \in 0 .. Len(s)
        BY <2>5
      <4> QED
        BY <4>2, <4>3, <2>5
    <3> QED
      BY <3>1, <3>2, <2>3
  <2>7. i # Len(s)
    BY <2>2, <2>5, <2>6
  <2>8. i + 1 \in 1 .. Len(s)
    BY <2>5, <2>6, <2>7
  <2> QED
    BY <2>2, <2>5, <2>6, <2>8
<1> QED
  BY <1>1, Invariance, PTL DEF Spec, IterYieldsFree

-----------------------------------------------------------------------------
(* FreeListIs as a formula, to be primed.                                  *)
LEMMA FreeListIsAll == \A u : Holds(u) => GetAllFreeBlocks = u
BY FreeListIs DEF Holds

(* For every number of blocks the linked list implements the queue that    *)
(* FreeQueue promises: the same blocks free, in the same eviction order.   *)
THEOREM Implements == Spec => ImplementsFreeQueue
<1>1. Init => Abs!Init
  <2> SUFFICES ASSUME Init PROVE Abs!Init
    OBVIOUS
  <2>1. GetAllFreeBlocks = [i \in 1 .. NumBlocks |-> i - 1]
    BY InitHolds, FreeListIsAll
  <2> QED
    BY <2>1 DEF Init, Abs!Init
<1>2. IInv /\ [Next]_vars => [Abs!Next]_(Abs!vars)
  <2> SUFFICES ASSUME IInv, [Next]_vars PROVE [Abs!Next]_(Abs!vars)
    OBVIOUS
  <2>1. PICK s : Holds(s)
    BY FreeListHolds DEF IInv
  <2>2. PICK t : Holds(t)' /\ ListStep(s, t)
    BY <2>1, StepHolds DEF IInv
  <2>3. GetAllFreeBlocks = s
    BY <2>1, FreeListIsAll
  <2>4. GetAllFreeBlocks' = t
    <3>1. (\A u : Holds(u) => GetAllFreeBlocks = u)'
      BY FreeListIsAll, PTL
    <3> QED
      BY <3>1, <2>2
  <2>5. /\ s \in BlockLists /\ Len(s) \in Nat /\ Len(s) <= NumBlocks
        /\ DOMAIN s = 1 .. Len(s)
    BY <2>1, ListFacts DEF Holds
  <2>6. Abs!BlockLists = BlockLists
    BY DEF Abs!BlockLists, BlockLists, Abs!Blocks, Blocks, Abs!Distinct, Distinct
  <2>7. ASSUME NEW n \in 1 .. Len(s),
               t = SubSeq(s, n + 1, Len(s)),
               held' = held \cup {s[i] : i \in 1 .. n},
               call' = [op |-> "take", blocks |-> SubSeq(s, 1, n)]
        PROVE  Abs!Next
    <3>1. Abs!TakeFront(n)
      BY <2>7, <2>3, <2>4 DEF Abs!TakeFront, Abs!Did
    <3>2. n \in 1 .. NumBlocks
      BY <2>5, NumBlocksNat
    <3> QED
      BY <3>1, <3>2 DEF Abs!Next
  <2>8. ASSUME NEW k \in 1 .. Len(s),
               t = RemoveAt(s, k),
               held' = held \cup {s[k]},
               call' = [op |-> "take", blocks |-> <<s[k]>>]
        PROVE  Abs!Next
    <3>1. Abs!RemoveAt(s, k) = RemoveAt(s, k)
      BY DEF Abs!RemoveAt, RemoveAt
    <3>3. Abs!Take(k)
      BY <2>8, <2>3, <2>4, <2>5, <3>1 DEF Abs!Take, Abs!Did
    <3>2. k \in 1 .. NumBlocks
      BY <2>5, NumBlocksNat
    <3> QED
      BY <3>2, <3>3 DEF Abs!Next
  <2>9. ASSUME NEW q \in BlockLists, q # <<>>, Range(q) \subseteq held,
               held' = held \ Range(q),
               \/ t = s \o q /\ call' = [op |-> "give back", blocks |-> q]
               \/ t = q \o s /\ call' = [op |-> "give front", blocks |-> q]
        PROVE  Abs!Next
    <3>2. Abs!Range(q) = Range(q)
      BY DEF Abs!Range, Range
    <3>1. Abs!GiveBack(q) \/ Abs!GiveFront(q)
      BY <2>9, <2>3, <2>4, <3>2 DEF Abs!GiveBack, Abs!GiveFront, Abs!Did
    <3> QED
      BY <3>1, <2>6 DEF Abs!Next
  <2>10. ASSUME t = s, UNCHANGED <<held, call>> PROVE UNCHANGED Abs!vars
    BY <2>10, <2>3, <2>4 DEF Abs!vars
  <2> QED
    BY <2>2, <2>7, <2>8, <2>9, <2>10 DEF ListStep
<1> QED
  BY <1>1, <1>2, Invariance, PTL DEF Spec, ImplementsFreeQueue, Abs!Spec

-----------------------------------------------------------------------------
(* The hashes of blocks.                                                   *)

LEMMA StrongInduction ==
  ASSUME NEW G \in SUBSET Nat,
         \A n \in Nat : (\A m \in Nat : m < n => m \in G) => n \in G
  PROVE  \A n \in Nat : n \in G
<1> SUFFICES ASSUME Nat \ G # {} PROVE FALSE
  OBVIOUS
<1>1. PICK n \in Nat \ G : \A m \in Nat \ G : <<m, n>> \notin OpToRel(<, Nat)
  BY NatLessThanWellFounded, WFMin
<1>2. \A m \in Nat : m < n => m \in G
  BY <1>1 DEF OpToRel
<1> QED BY <1>1, <1>2

(* The least of a set of numbers.                                          *)
LEMMA MinFacts ==
  ASSUME NEW S \in SUBSET Nat, S # {}
  PROVE  Min(S) \in S /\ \A x \in S : Min(S) <= x
<1>1. PICK k \in S : \A j \in S : <<j, k>> \notin OpToRel(<, Nat)
  BY NatLessThanWellFounded, WFMin
<1>2. \A j \in S : k <= j
  <2>1. \A j \in S : ~(j < k)
    BY <1>1 DEF OpToRel
  <2>2. k \in Nat /\ \A j \in S : j \in Nat
    OBVIOUS
  <2> QED BY <2>1, <2>2
<1>3. \E x \in S : \A y \in S : x <= y
  BY <1>2
<1> QED BY <1>3 DEF Min

-----------------------------------------------------------------------------
(* Keys of the items of a block.                                           *)

Off(req, i) == req.mm_features[i].offset
Ends(req, i) == req.mm_features[i].offset + req.mm_features[i].length
NumItems(req) == Len(req.mm_features)

LEMMA LenNat ==
  ASSUME NEW S, NEW s \in Seq(S)
  PROVE  Len(s) \in Nat
OBVIOUS

(* The items of a prompt lie one behind the other.                         *)
LEMMA ItemFacts ==
  ASSUME NEW req \in Prompts
  PROVE  /\ NumItems(req) \in Nat /\ DOMAIN req.mm_features = 1 .. NumItems(req)
         /\ \A i \in 1 .. NumItems(req) : /\ Off(req, i) \in Nat /\ Ends(req, i) \in Nat
                                   /\ Off(req, i) < Ends(req, i)
                                   /\ Ends(req, i) <= Len(req.tokens)
         /\ \A i, j \in 1 .. NumItems(req) : i < j => /\ Ends(req, i) <= Off(req, j)
                                               /\ Off(req, i) < Off(req, j)
                                               /\ Ends(req, i) < Ends(req, j)
         /\ req.tokens \in Seq(Nat) /\ Len(req.tokens) \in Nat \ {0}
         /\ Len(req.tokens) <= MaxLen
         /\ req.embeds \in Seq(STRING \ {""}) /\ Len(req.embeds) \in Nat
<1>1. PromptOK(req)
  BY HashInputs DEF PromptsOK
<1>2. /\ NumItems(req) \in Nat /\ DOMAIN req.mm_features = 1 .. NumItems(req)
      /\ req.tokens \in Seq(Nat) /\ Len(req.tokens) \in Nat \ {0}
      /\ Len(req.tokens) <= MaxLen
      /\ req.embeds \in Seq(STRING \ {""}) /\ Len(req.embeds) \in Nat
  <2>1. req.mm_features \in Seq(Range(req.mm_features))
    BY <1>1 DEF PromptOK
  <2>2. NumItems(req) \in Nat /\ DOMAIN req.mm_features = 1 .. NumItems(req)
    BY <2>1 DEF NumItems
  <2>3. req.tokens \in Seq(Nat) /\ req.tokens # <<>> /\ Len(req.tokens) <= MaxLen
    BY <1>1 DEF PromptOK
  <2>4. Len(req.tokens) \in Nat \ {0}
    BY <2>3
  <2>5. req.embeds \in Seq(STRING \ {""})
    BY <1>1 DEF PromptOK
  <2>6. Len(req.embeds) \in Nat
    BY <2>5, LenNat
  <2> QED BY <2>2, <2>3, <2>4, <2>5, <2>6
<1>3. \A i \in 1 .. NumItems(req) : /\ Off(req, i) \in Nat /\ req.mm_features[i].length \in Nat \ {0}
                             /\ Ends(req, i) = Off(req, i) + req.mm_features[i].length
                             /\ Ends(req, i) <= Len(req.tokens)
  BY <1>1, <1>2 DEF PromptOK, Off, Ends
<1>4. \A i, j \in 1 .. NumItems(req) : i < j => Ends(req, i) <= Off(req, j)
  BY <1>1, <1>2 DEF PromptOK, Off, Ends
<1>5. \A i \in 1 .. NumItems(req) : /\ Off(req, i) \in Nat /\ Ends(req, i) \in Nat
                             /\ Off(req, i) < Ends(req, i)
  BY <1>3
<1>6. \A i, j \in 1 .. NumItems(req) : i < j => /\ Off(req, i) < Off(req, j)
                                         /\ Ends(req, i) < Ends(req, j)
  BY <1>4, <1>5
<1> QED BY <1>2, <1>3, <1>4, <1>5, <1>6

FirstAt(req, idx) == IF idx = -1 THEN NumItems(req) ELSE idx
Over(req, start, end) == {i \in 1 .. NumItems(req) : start < Ends(req, i) /\ Off(req, i) < end}

(* All items before the one a block starts at have ended.                  *)
Behind(req, idx, start) ==
  NumItems(req) # 0 => /\ FirstAt(req, idx) \in Nat \ {0}
                /\ \A i \in 1 .. NumItems(req) : i < FirstAt(req, idx) => Ends(req, i) <= start

FirstOpen(req, idx, start) ==
  Min({i \in FirstAt(req, idx) .. NumItems(req) : start < Ends(req, i)} \cup {NumItems(req) + 1})

(* Every item before the first that is still open has ended.               *)
LEMMA FromFacts ==
  ASSUME NEW req \in Prompts, NEW idx \in Int, NEW start \in Nat, NumItems(req) # 0,
         FirstAt(req, idx) \in Nat \ {0},
         \A i \in 1 .. NumItems(req) : i < FirstAt(req, idx) => Ends(req, i) <= start
  PROVE  /\ FirstOpen(req, idx, start) \in 1 .. NumItems(req) + 1
         /\ \A i \in 1 .. NumItems(req) : i < FirstOpen(req, idx, start) => Ends(req, i) <= start
         /\ FirstOpen(req, idx, start) <= NumItems(req) => start < Ends(req, FirstOpen(req, idx, start))
<1> DEFINE S == {i \in FirstAt(req, idx) .. NumItems(req) : start < Ends(req, i)} \cup {NumItems(req) + 1}
           f == FirstOpen(req, idx, start)
<1>1. NumItems(req) \in Nat /\ \A i \in 1 .. NumItems(req) : Ends(req, i) \in Nat
  BY ItemFacts
<1>2. S \in SUBSET Nat /\ S # {}
  BY <1>1
<1>3. f = Min(S)
  BY DEF FirstOpen
<1>4. f \in S /\ \A x \in S : f <= x
  <2> HIDE DEF S, f
  <2> QED BY <1>2, <1>3, MinFacts
<1> HIDE DEF f
<1>5. f \in 1 .. NumItems(req) + 1 /\ (f <= NumItems(req) => start < Ends(req, f))
  BY <1>1, <1>4
<1>6. ASSUME NEW i \in 1 .. NumItems(req), i < f PROVE Ends(req, i) <= start
  <2>1. i < FirstAt(req, idx) \/ i \in FirstAt(req, idx) .. NumItems(req)
    BY <1>1
  <2>2. i \notin S
    BY <1>4, <1>5, <1>6, <1>1
  <2>3. i \in FirstAt(req, idx) .. NumItems(req) => ~(start < Ends(req, i))
    BY <2>2
  <2> QED BY <2>1, <2>3, <1>1
<1> QED BY <1>5, <1>6 DEF f

(* The least item that has not ended is one whatever the call starts at.   *)
LEMMA FromSame ==
  ASSUME NEW req \in Prompts, NEW idx \in Int, NEW start \in Nat, NumItems(req) # 0,
         FirstAt(req, idx) \in Nat \ {0},
         \A i \in 1 .. NumItems(req) : i < FirstAt(req, idx) => Ends(req, i) <= start
  PROVE  FirstOpen(req, idx, start) = FirstOpen(req, 1, start)
<1>1. NumItems(req) \in Nat /\ \A i \in 1 .. NumItems(req) : Ends(req, i) \in Nat
  BY ItemFacts
<1>2. FirstAt(req, 1) = 1
  BY DEF FirstAt
<1>3. /\ FirstOpen(req, 1, start) \in 1 .. NumItems(req) + 1
      /\ \A i \in 1 .. NumItems(req) : i < FirstOpen(req, 1, start) => Ends(req, i) <= start
      /\ FirstOpen(req, 1, start) <= NumItems(req) => start < Ends(req, FirstOpen(req, 1, start))
  BY <1>1, <1>2, FromFacts
<1>4. /\ FirstOpen(req, idx, start) \in 1 .. NumItems(req) + 1
      /\ \A i \in 1 .. NumItems(req) : i < FirstOpen(req, idx, start) => Ends(req, i) <= start
      /\ FirstOpen(req, idx, start) <= NumItems(req) => start < Ends(req, FirstOpen(req, idx, start))
  BY FromFacts
<1>5. ~(FirstOpen(req, 1, start) < FirstOpen(req, idx, start))
  BY <1>1, <1>3, <1>4
<1>6. ~(FirstOpen(req, idx, start) < FirstOpen(req, 1, start))
  BY <1>1, <1>3, <1>4
<1> QED BY <1>1, <1>3, <1>4, <1>5, <1>6

LastAt(req, idx, end) ==
  LET stop == FirstOpen(req, idx, end) IN
  IF stop \in 1 .. NumItems(req) /\ Off(req, stop) < end THEN stop ELSE stop - 1

ItemKeys(req, start, f, l) ==
  [k \in 1 .. l - f + 1 |-> MmKey(req.mm_features[f + k - 1], start)]

LEMMA NoItems ==
  ASSUME NEW req \in Prompts
  PROVE  req.mm_features = <<>> <=> NumItems(req) = 0
<1>1. PromptOK(req)
  BY HashInputs DEF PromptsOK
<1>2. req.mm_features \in Seq(Range(req.mm_features))
  BY <1>1 DEF PromptOK
<1> QED BY <1>2 DEF NumItems

LEMMA MmNone ==
  ASSUME NEW req \in Prompts, NEW start \in Nat, NEW end \in Nat, NEW idx \in Int,
         NumItems(req) = 0 \/ Ends(req, NumItems(req)) <= start
  PROVE  /\ MmExtraHashKeys(req, start, end, idx).keys = <<>>
         /\ MmExtraHashKeys(req, start, end, idx).idx = idx
BY NoItems DEF MmExtraHashKeys, NumItems, Ends

LEMMA MmSome ==
  ASSUME NEW req \in Prompts, NEW start \in Nat, NEW end \in Nat, NEW idx \in Int,
         ~(NumItems(req) = 0 \/ Ends(req, NumItems(req)) <= start)
  PROVE  /\ MmExtraHashKeys(req, start, end, idx).keys =
              ItemKeys(req, start, FirstOpen(req, idx, start), LastAt(req, idx, end))
         /\ MmExtraHashKeys(req, start, end, idx).idx = FirstOpen(req, idx, end)
<1>1. DOMAIN req.mm_features = 1 .. NumItems(req) /\ NumItems(req) \in Nat
  BY ItemFacts
<1>2. MmExtraHashKeys(req, start, end, idx) =
        [keys |-> ItemKeys(req, start, FirstOpen(req, idx, start), LastAt(req, idx, end)),
         idx |-> FirstOpen(req, idx, end)]
  BY NoItems, <1>1 DEF MmExtraHashKeys, NumItems, Ends, Off, LastAt, FirstOpen, FirstAt, ItemKeys
<1> QED BY <1>2

(* The keys of a block: the items over it, in order.                       *)
KeysFrom(req, start, end, f, l) ==
  /\ f \in Nat \ {0} /\ l \in Nat /\ f <= l + 1 /\ l <= NumItems(req)
  /\ Over(req, start, end) = f .. l
  /\ MmExtraHashKeys(req, start, end, 1).keys = ItemKeys(req, start, f, l)

(* A block started at the first item has the keys of the items over it.    *)
LEMMA MmKeysFacts ==
  ASSUME NEW req \in Prompts, NEW start \in Nat, NEW end \in Nat, start < end
  PROVE  \E f, l \in Nat : KeysFrom(req, start, end, f, l)
<1>1. /\ NumItems(req) \in Nat
      /\ \A i \in 1 .. NumItems(req) : /\ Off(req, i) \in Nat /\ Ends(req, i) \in Nat
                                /\ Off(req, i) < Ends(req, i)
      /\ \A i, j \in 1 .. NumItems(req) : i < j => /\ Ends(req, i) <= Off(req, j)
                                            /\ Off(req, i) < Off(req, j)
                                            /\ Ends(req, i) < Ends(req, j)
  BY ItemFacts
<1>2. CASE NumItems(req) = 0 \/ Ends(req, NumItems(req)) <= start
  <2>1. MmExtraHashKeys(req, start, end, 1).keys = <<>>
    BY <1>2, MmNone
  <2>2. ASSUME NEW i \in 1 .. NumItems(req) PROVE ~(start < Ends(req, i))
    <3>1. i = NumItems(req) \/ Ends(req, i) < Ends(req, NumItems(req))
      BY <1>1
    <3> QED BY <3>1, <1>1, <1>2
  <2>3. Over(req, start, end) = 1 .. 0
    BY <2>2 DEF Over
  <2>4. <<>> = ItemKeys(req, start, 1, 0)
    BY DEF ItemKeys
  <2>5. KeysFrom(req, start, end, 1, 0)
    BY <2>1, <2>3, <2>4, <1>1 DEF KeysFrom
  <2> QED BY <2>5
<1>3. CASE ~(NumItems(req) = 0 \/ Ends(req, NumItems(req)) <= start)
  <2> DEFINE f == FirstOpen(req, 1, start)
             stop == FirstOpen(req, 1, end)
             l == LastAt(req, 1, end)
  <2>1. FirstAt(req, 1) = 1
    BY DEF FirstAt
  <2>2. /\ f \in 1 .. NumItems(req) + 1
        /\ \A i \in 1 .. NumItems(req) : i < f => Ends(req, i) <= start
        /\ f <= NumItems(req) => start < Ends(req, f)
    BY <1>1, <1>3, <2>1, FromFacts
  <2>3. /\ stop \in 1 .. NumItems(req) + 1
        /\ \A i \in 1 .. NumItems(req) : i < stop => Ends(req, i) <= end
        /\ stop <= NumItems(req) => end < Ends(req, stop)
    BY <1>1, <1>3, <2>1, FromFacts
  <2>4. l = IF stop \in 1 .. NumItems(req) /\ Off(req, stop) < end THEN stop ELSE stop - 1
    BY DEF LastAt
  <2>5. MmExtraHashKeys(req, start, end, 1).keys = ItemKeys(req, start, f, l)
    BY <1>3, MmSome
  <2> HIDE DEF f, stop, l
  <2>6. f <= stop
    <3> SUFFICES ASSUME stop < f PROVE FALSE
      BY <2>2, <2>3
    <3>1. stop \in 1 .. NumItems(req) /\ Ends(req, stop) <= start /\ end < Ends(req, stop)
      BY <2>2, <2>3, <1>1
    <3> QED BY <3>1, <1>1
  <2>7. l \in Nat /\ f <= l + 1 /\ l <= NumItems(req)
    BY <2>2, <2>3, <2>4, <2>6, <1>1
  <2>8. ASSUME NEW i \in 1 .. NumItems(req) PROVE start < Ends(req, i) <=> f <= i
    <3>1. i < f => Ends(req, i) <= start
      BY <2>2
    <3>2. f <= i => start < Ends(req, i)
      <4>1. CASE f = i
        BY <4>1, <2>2
      <4>2. CASE f < i
        <5>1. f \in 1 .. NumItems(req) /\ start < Ends(req, f) /\ Ends(req, f) < Ends(req, i)
          BY <4>2, <2>2, <1>1
        <5> QED BY <5>1, <1>1
      <4> QED BY <4>1, <4>2, <2>2
    <3> QED BY <3>1, <3>2, <2>2, <1>1
  <2>9. ASSUME NEW i \in 1 .. NumItems(req) PROVE Off(req, i) < end <=> i <= l
    <3>1. CASE i < stop
      <4>1. Off(req, i) < Ends(req, i) /\ Ends(req, i) <= end /\ Off(req, i) \in Nat /\ Ends(req, i) \in Nat
        BY <3>1, <2>3, <1>1
      <4>2. i <= l
        BY <3>1, <2>3, <2>4
      <4> QED BY <4>1, <4>2
    <3>2. CASE i = stop
      BY <3>2, <2>3, <2>4
    <3>3. CASE stop < i
      <4>1. stop \in 1 .. NumItems(req) /\ end < Ends(req, stop) /\ Ends(req, stop) <= Off(req, i)
        BY <3>3, <2>3, <1>1
      <4>2. ~(Off(req, i) < end)
        BY <4>1, <1>1
      <4>3. ~(i <= l)
        BY <3>3, <2>3, <2>4
      <4> QED BY <4>2, <4>3
    <3> QED BY <3>1, <3>2, <3>3, <2>3
  <2>10. Over(req, start, end) = f .. l
    <3>1. Over(req, start, end) = {i \in 1 .. NumItems(req) : f <= i /\ i <= l}
      BY <2>8, <2>9 DEF Over
    <3> QED BY <3>1, <2>2, <2>7, <1>1
  <2>11. KeysFrom(req, start, end, f, l)
    BY <2>2, <2>5, <2>7, <2>10 DEF KeysFrom
  <2> QED BY <2>2, <2>7, <2>11
<1> QED BY <1>2, <1>3

(* Whatever item a block starts at, as long as those before it have ended, *)
(* its keys are the same, and the next block starts at such an item again. *)
LEMMA MmKeysSame ==
  ASSUME NEW req \in Prompts, NEW start \in Nat, NEW end \in Nat, start < end,
         NEW idx \in Int, Behind(req, idx, start)
  PROVE  /\ MmExtraHashKeys(req, start, end, idx).keys = MmExtraHashKeys(req, start, end, 1).keys
         /\ MmExtraHashKeys(req, start, end, idx).idx \in Int
         /\ Behind(req, MmExtraHashKeys(req, start, end, idx).idx, end)
<1>1. /\ NumItems(req) \in Nat /\ \A i \in 1 .. NumItems(req) : Ends(req, i) \in Nat
  BY ItemFacts
<1>2. CASE NumItems(req) = 0 \/ Ends(req, NumItems(req)) <= start
  <2>1. /\ MmExtraHashKeys(req, start, end, 1).keys = <<>>
        /\ MmExtraHashKeys(req, start, end, idx).keys = <<>>
        /\ MmExtraHashKeys(req, start, end, idx).idx = idx
    BY <1>2, MmNone
  <2>2. Behind(req, idx, end)
    BY <1>1 DEF Behind
  <2> QED BY <2>1, <2>2
<1>3. CASE ~(NumItems(req) = 0 \/ Ends(req, NumItems(req)) <= start)
  <2>1. /\ FirstAt(req, idx) \in Nat \ {0}
        /\ \A i \in 1 .. NumItems(req) : i < FirstAt(req, idx) => Ends(req, i) <= start
    BY <1>3 DEF Behind
  <2>2. \A i \in 1 .. NumItems(req) : i < FirstAt(req, idx) => Ends(req, i) <= end
    BY <2>1, <1>1
  <2>3. /\ FirstOpen(req, idx, start) = FirstOpen(req, 1, start)
        /\ FirstOpen(req, idx, end) = FirstOpen(req, 1, end)
    BY <1>3, <2>1, <2>2, FromSame
  <2>4. /\ FirstOpen(req, idx, end) \in 1 .. NumItems(req) + 1
        /\ \A i \in 1 .. NumItems(req) : i < FirstOpen(req, idx, end) => Ends(req, i) <= end
    BY <1>3, <2>1, <2>2, FromFacts
  <2>5. LastAt(req, idx, end) = LastAt(req, 1, end)
    BY <2>3 DEF LastAt
  <2>6. MmExtraHashKeys(req, start, end, idx).keys = MmExtraHashKeys(req, start, end, 1).keys
    BY <1>3, <2>3, <2>5, MmSome
  <2>7. MmExtraHashKeys(req, start, end, idx).idx = FirstOpen(req, idx, end)
    BY <1>3, MmSome
  <2>8. Behind(req, FirstOpen(req, idx, end), end)
    <3>1. FirstAt(req, FirstOpen(req, idx, end)) = FirstOpen(req, idx, end)
      BY <2>4, <1>1 DEF FirstAt
    <3> QED BY <3>1, <2>4, <1>1 DEF Behind
  <2> QED BY <2>4, <2>6, <2>7, <2>8
<1> QED BY <1>2, <1>3

-----------------------------------------------------------------------------
(* The hasher.                                                             *)

HBS == hash_block_size

LEMMA SizeNat == HBS \in Nat \ {0}
BY HashSizes DEF SizesOK, HBS

(* Multiples of the block size.                                            *)
LEMMA Times ==
  ASSUME NEW k \in Nat
  PROVE  k * HBS \in Nat /\ (k + 1) * HBS = k * HBS + HBS /\ k * HBS < (k + 1) * HBS
BY SizeNat

LEMMA TimesMono ==
  ASSUME NEW k \in Nat, NEW j \in Nat, j <= k
  PROVE  j * HBS <= k * HBS
<1>1. k - j \in Nat /\ (k - j) * HBS \in Nat /\ k * HBS = (k - j) * HBS + j * HBS
  BY SizeNat
<1> QED BY <1>1, SizeNat

(* As many full blocks as fit, and no more.                                *)
LEMMA FullBlocks ==
  ASSUME NEW n \in Nat, NEW k \in Nat
  PROVE  n \div HBS \in Nat /\ (k <= n \div HBS <=> k * HBS <= n)
<1>1. n \div HBS \in Nat /\ (n \div HBS) * HBS <= n /\ n < (n \div HBS) * HBS + HBS
  BY SizeNat
<1>2. k <= n \div HBS => k * HBS <= (n \div HBS) * HBS
  BY <1>1, TimesMono
<1>3. n \div HBS + 1 <= k => (n \div HBS + 1) * HBS <= k * HBS
  BY <1>1, TimesMono
<1>4. (n \div HBS + 1) * HBS = (n \div HBS) * HBS + HBS
  BY <1>1, Times
<1>5. k * HBS \in Nat /\ (n \div HBS) * HBS \in Nat
  BY <1>1, Times
<1> QED BY <1>1, <1>2, <1>3, <1>4, <1>5, SizeNat

LEMMA BlockBounds ==
  ASSUME NEW k \in Nat \ {0}
  PROVE  /\ (k - 1) * HBS \in Nat /\ k * HBS \in Nat /\ (k - 1) * HBS + HBS = k * HBS
         /\ (k - 1) * HBS < k * HBS
<1>1. k - 1 \in Nat /\ k - 1 + 1 = k
  OBVIOUS
<1> QED BY <1>1, Times

Keys(req, k) == ExtraKeys(req, (k - 1) * HBS, k * HBS, 1).keys
Tokens(tokens, k) == SubSeq(tokens, (k - 1) * HBS + 1, k * HBS)
Triple(req, tokens, prev, k) == <<prev, Tokens(tokens, k), Keys(req, k)>>

(* The hashes of the full blocks of these tokens.                          *)
Hashed(req, tokens, hashes) ==
  /\ DOMAIN hashes = 1 .. LastBlock(tokens) /\ Len(hashes) = LastBlock(tokens)
  /\ \A k \in 1 .. LastBlock(tokens) :
       hashes[k] = Triple(req, tokens, IF k = 1 THEN NONE_HASH ELSE hashes[k - 1], k)

StartOf(req, hashes) ==
  [hash |-> IF Len(hashes) = 0 THEN NONE_HASH ELSE hashes[Len(hashes)],
   idx |-> FirstItem(req, hashes)]

BlockAfter(req, tokens, acc, k) ==
  [hash |-> <<acc.hash, SubSeq(tokens, (k - 1) * HBS + 1, Smaller(k * HBS, Len(tokens))),
              ExtraKeys(req, (k - 1) * HBS, k * HBS, acc.idx).keys>>,
   idx |-> ExtraKeys(req, (k - 1) * HBS, k * HBS, acc.idx).idx]

Block(req, tokens, hashes, g, k) ==
  IF k = Len(hashes) THEN StartOf(req, hashes) ELSE BlockAfter(req, tokens, g[k - 1], k)

Hashing(req, tokens, hashes, g, n) ==
  g = [k \in Len(hashes) .. n |-> Block(req, tokens, hashes, g, k)]

(* The recursive function of the hasher is what its body says.             *)
LEMMA BlockRecursion ==
  ASSUME NEW req, NEW tokens, NEW hashes, Len(hashes) \in Nat
  PROVE  \A n \in Nat : \E g : Hashing(req, tokens, hashes, g, n)
<1> DEFINE done == Len(hashes)
           H == {n \in Nat : \E g : Hashing(req, tokens, hashes, g, n)}
<1> HIDE DEF done
<1>0. done \in Nat
  BY DEF done
<1>1. ASSUME NEW n \in Nat, \A m \in Nat : m < n => m \in H
      PROVE  n \in H
  <2>1. CASE n <= done
    <3> DEFINE g == [k \in done .. n |-> StartOf(req, hashes)]
    <3>1. \A k \in done .. n : Block(req, tokens, hashes, g, k) = StartOf(req, hashes)
      BY <2>1, <1>0 DEF Block, done
    <3>2. g = [k \in done .. n |-> Block(req, tokens, hashes, g, k)]
      BY <3>1
    <3> HIDE DEF g
    <3>3. Hashing(req, tokens, hashes, g, n)
      BY <3>2 DEF Hashing, done
    <3> QED BY <3>3
  <2>2. CASE done < n
    <3>1. n - 1 \in Nat /\ n - 1 < n /\ done <= n - 1
      BY <2>2, <1>0
    <3>2. PICK g : Hashing(req, tokens, hashes, g, n - 1)
      BY <1>1, <3>1
    <3>3. g = [k \in done .. n - 1 |-> Block(req, tokens, hashes, g, k)]
      BY <3>2 DEF Hashing, done
    <3> DEFINE h == [k \in done .. n |-> Block(req, tokens, hashes, g, k)]
    <3>4. \A k \in done .. n - 1 : h[k] = g[k]
      BY <3>3, <1>0
    <3>5. ASSUME NEW k \in done .. n
          PROVE  Block(req, tokens, hashes, g, k) = Block(req, tokens, hashes, h, k)
      <4>1. CASE k = done
        BY <4>1 DEF Block, done
      <4>2. CASE k # done
        <5>1. k - 1 \in done .. n - 1
          BY <4>2, <1>0
        <5>2. h[k - 1] = g[k - 1]
          BY <3>4, <5>1
        <5> HIDE DEF h
        <5> QED BY <5>2, <4>2 DEF Block, done
      <4> QED BY <4>1, <4>2
    <3>6. h = [k \in done .. n |-> Block(req, tokens, hashes, h, k)]
      BY <3>5
    <3> HIDE DEF h
    <3>7. Hashing(req, tokens, hashes, h, n)
      BY <3>6 DEF Hashing, done
    <3> QED BY <3>7
  <2> QED BY <2>1, <2>2, <1>0
<1>2. H \in SUBSET Nat
  OBVIOUS
<1> HIDE DEF H
<1>3. \A n \in Nat : n \in H
  BY <1>1, <1>2, StrongInduction
<1> QED BY <1>3 DEF H

Result(hashes, g, n) == [k \in 1 .. n |-> IF k <= Len(hashes) THEN hashes[k] ELSE g[k].hash]

(* A call keeps the hashes it is given and chains one per new block.       *)
LEMMA HasherUnrolled ==
  ASSUME NEW req, NEW tokens, NEW hashes, Len(hashes) \in Nat, LastBlock(tokens) \in Nat
  PROVE  \E g : /\ Hashing(req, tokens, hashes, g, LastBlock(tokens))
                /\ BlockHasher(req, tokens, hashes) = Result(hashes, g, LastBlock(tokens))
<1> DEFINE g == CHOOSE h : h = [k \in Len(hashes) .. LastBlock(tokens) |->
                                  Block(req, tokens, hashes, h, k)]
<1>1. \E h : h = [k \in Len(hashes) .. LastBlock(tokens) |-> Block(req, tokens, hashes, h, k)]
  <2>1. \E h : Hashing(req, tokens, hashes, h, LastBlock(tokens))
    BY BlockRecursion
  <2> QED BY <2>1 DEF Hashing
<1>2. Hashing(req, tokens, hashes, g, LastBlock(tokens))
  BY <1>1 DEF Hashing
<1>3. BlockHasher(req, tokens, hashes) = Result(hashes, g, LastBlock(tokens))
  BY DEF BlockHasher, Result, Block, StartOf, BlockAfter, HBS
<1> QED BY <1>2, <1>3

Extends(tokens, old) ==
  /\ Len(old) <= Len(tokens) /\ \A i \in 1 .. Len(old) : tokens[i] = old[i]

LEMMA FullFacts ==
  ASSUME NEW tokens \in Seq(Nat)
  PROVE  /\ LastBlock(tokens) \in Nat /\ Len(tokens) \in Nat
         /\ \A k \in Nat : k <= LastBlock(tokens) <=> k * HBS <= Len(tokens)
BY FullBlocks DEF LastBlock, HBS

LEMMA PieceFacts ==
  ASSUME NEW T, NEW s \in Seq(T), NEW a \in Nat, NEW b \in Nat, a <= b, b <= Len(s)
  PROVE  SubSeq(s, a + 1, b) = [i \in 1 .. b - a |-> s[a + i]]
OBVIOUS

(* The tokens of a full block do not change when more are appended.        *)
LEMMA TokensSame ==
  ASSUME NEW tokens \in Seq(Nat), NEW old \in Seq(Nat), Extends(tokens, old),
         NEW k \in 1 .. LastBlock(old)
  PROVE  Tokens(tokens, k) = Tokens(old, k)
<1>0. LastBlock(old) \in Nat /\ Len(old) \in Nat /\ Len(tokens) \in Nat /\ k \in Nat \ {0}
  BY FullFacts
<1>1. /\ (k - 1) * HBS \in Nat /\ k * HBS \in Nat /\ (k - 1) * HBS < k * HBS
      /\ LastBlock(old) \in Nat /\ Len(old) \in Nat /\ Len(tokens) \in Nat
  BY <1>0, BlockBounds
<1>2. k * HBS <= Len(old)
  BY <1>1, FullFacts
<1> DEFINE a == (k - 1) * HBS
           b == k * HBS
<1> HIDE DEF a, b
<1>3. a \in Nat /\ b \in Nat /\ a < b /\ b <= Len(old) /\ b <= Len(tokens)
  BY <1>1, <1>2 DEF a, b, Extends
<1>4. /\ SubSeq(tokens, a + 1, b) = [i \in 1 .. b - a |-> tokens[a + i]]
      /\ SubSeq(old, a + 1, b) = [i \in 1 .. b - a |-> old[a + i]]
  BY <1>3, PieceFacts
<1>5. ASSUME NEW i \in 1 .. b - a PROVE tokens[a + i] = old[a + i]
  <2>1. a + i \in 1 .. Len(old)
    BY <1>1, <1>3
  <2> QED BY <2>1 DEF Extends
<1> QED BY <1>4, <1>5 DEF Tokens, a, b

LEMMA ExtraSame ==
  ASSUME NEW req \in Prompts, NEW k \in Nat \ {0}, NEW idx \in Int,
         Behind(req, idx, (k - 1) * HBS)
  PROVE  /\ ExtraKeys(req, (k - 1) * HBS, k * HBS, idx).keys = Keys(req, k)
         /\ ExtraKeys(req, (k - 1) * HBS, k * HBS, idx).idx \in Int
         /\ Behind(req, ExtraKeys(req, (k - 1) * HBS, k * HBS, idx).idx, k * HBS)
<1> DEFINE a == (k - 1) * HBS
           b == k * HBS
<1>1. a \in Nat /\ b \in Nat /\ a < b /\ Behind(req, idx, a)
  BY BlockBounds
<1> HIDE DEF a, b
<1>2. /\ MmExtraHashKeys(req, a, b, idx).keys = MmExtraHashKeys(req, a, b, 1).keys
      /\ MmExtraHashKeys(req, a, b, idx).idx \in Int
      /\ Behind(req, MmExtraHashKeys(req, a, b, idx).idx, b)
  BY <1>1, MmKeysSame
<1>3. /\ ExtraKeys(req, a, b, idx).keys = ExtraKeys(req, a, b, 1).keys
      /\ ExtraKeys(req, a, b, idx).idx = MmExtraHashKeys(req, a, b, idx).idx
  BY <1>2 DEF ExtraKeys
<1> QED BY <1>2, <1>3 DEF a, b, Keys

(* Where the hasher starts, all items before have ended: at the first      *)
(* item, or at the last of a prompt whose full blocks end the others.      *)
LEMMA StartBehind ==
  ASSUME OneItemInTail, NEW req \in Prompts, NEW old \in Seq(Nat), NEW hashes,
         LastBlock(old) = 0 \/ Extends(old, req.tokens), Len(hashes) = LastBlock(old)
  PROVE  Behind(req, FirstItem(req, hashes), LastBlock(old) * HBS)
<1>1. /\ NumItems(req) \in Nat /\ Len(req.tokens) \in Nat /\ req.tokens \in Seq(Nat)
      /\ \A i \in 1 .. NumItems(req) : Ends(req, i) \in Nat /\ Ends(req, i) <= Len(req.tokens)
  BY ItemFacts
<1> DEFINE p == LastBlock(req.tokens)
           d == LastBlock(old)
<1>2. p \in Nat /\ d \in Nat /\ p * HBS \in Nat /\ d * HBS \in Nat
  BY <1>1, FullFacts, Times
<1>3. CASE d = 0
  <2>1. FirstItem(req, hashes) = 1
    BY <1>3 DEF FirstItem
  <2>2. FirstAt(req, 1) = 1
    BY DEF FirstAt
  <2> QED BY <2>1, <2>2, <1>1 DEF Behind
<1>4. CASE d # 0
  <2>1. FirstItem(req, hashes) = -1
    BY <1>4 DEF FirstItem
  <2>2. FirstAt(req, -1) = NumItems(req)
    BY DEF FirstAt
  <2>3. ASSUME NEW i \in 1 .. NumItems(req), i < NumItems(req)
        PROVE  Ends(req, i) <= d * HBS
    <3>1. CASE p = 0
      <4>1. ~(1 <= p) /\ 1 <= d
        BY <3>1, <1>2, <1>4
      <4>2. ~(1 * HBS <= Len(req.tokens))
        BY <4>1, <1>1, FullFacts
      <4>3. 1 * HBS <= d * HBS
        BY <4>1, <1>2, TimesMono
      <4>4. Ends(req, i) \in Nat /\ Ends(req, i) <= Len(req.tokens) /\ 1 * HBS \in Nat
        BY <1>1, SizeNat
      <4> HIDE DEF p, d
      <4> QED BY <4>2, <4>3, <4>4, <1>1, <1>2
    <3>2. CASE p # 0
      <4>1. p * HBS # 0
        BY <3>2, <1>2, SizeNat, TimesMono
      <4>2. p * HBS = (Len(req.tokens) \div hash_block_size) * hash_block_size
        BY DEF HBS, LastBlock
      <4>3. i \in 1 .. Len(req.mm_features) - 1
        BY <2>3, <1>1 DEF NumItems
      <4>4. Ends(req, i) <= p * HBS
        BY <4>1, <4>2, <4>3 DEF OneItemInTail, Ends
      <4>5. p * HBS <= Len(req.tokens)
        BY <1>1, <1>2, FullFacts
      <4>6. Len(req.tokens) <= Len(old) /\ Len(old) \in Nat
        BY <1>4, FullFacts DEF Extends
      <4>7. p * HBS <= Len(old)
        BY <4>5, <4>6, <1>1, <1>2
      <4>8. p <= d
        BY <4>7, <1>2, FullFacts
      <4>9. p * HBS <= d * HBS
        BY <4>8, <1>2, TimesMono
      <4> HIDE DEF p, d
      <4> QED BY <4>4, <4>9, <1>1, <1>2
    <3> QED BY <3>1, <3>2
  <2>4. NumItems(req) # 0 => NumItems(req) \in Nat \ {0}
    BY <1>1
  <2> HIDE DEF d
  <2>5. Behind(req, -1, d * HBS)
    BY <2>2, <2>3, <2>4 DEF Behind
  <2> QED BY <2>1, <2>5 DEF d
<1> QED BY <1>3, <1>4

HasherInv(req, tokens, hashes, g, k) ==
  /\ g[k].idx \in Int /\ Behind(req, g[k].idx, k * HBS)
  /\ g[k].hash = IF k = 0 THEN NONE_HASH ELSE Result(hashes, g, LastBlock(tokens))[k]

(* One round of the loop: the block is hashed as from the first item on.   *)
LEMMA AfterFacts ==
  ASSUME NEW req \in Prompts, NEW tokens \in Seq(Nat), NEW acc,
         NEW k \in 1 .. LastBlock(tokens), acc.idx \in Int, Behind(req, acc.idx, (k - 1) * HBS)
  PROVE  /\ BlockAfter(req, tokens, acc, k).hash = Triple(req, tokens, acc.hash, k)
         /\ BlockAfter(req, tokens, acc, k).idx \in Int
         /\ Behind(req, BlockAfter(req, tokens, acc, k).idx, k * HBS)
<1>0. LastBlock(tokens) \in Nat /\ Len(tokens) \in Nat /\ k \in Nat \ {0}
  BY FullFacts
<1>1. k * HBS \in Nat /\ k * HBS <= Len(tokens)
  BY <1>0, FullFacts, BlockBounds
<1>2. Smaller(k * HBS, Len(tokens)) = k * HBS
  BY <1>0, <1>1 DEF Smaller
<1>3. /\ ExtraKeys(req, (k - 1) * HBS, k * HBS, acc.idx).keys = Keys(req, k)
      /\ ExtraKeys(req, (k - 1) * HBS, k * HBS, acc.idx).idx \in Int
      /\ Behind(req, ExtraKeys(req, (k - 1) * HBS, k * HBS, acc.idx).idx, k * HBS)
  BY <1>0, ExtraSame
<1>4. BlockAfter(req, tokens, acc, k).idx = ExtraKeys(req, (k - 1) * HBS, k * HBS, acc.idx).idx
  BY DEF BlockAfter
<1>5. BlockAfter(req, tokens, acc, k).hash = Triple(req, tokens, acc.hash, k)
  BY <1>2, <1>3 DEF BlockAfter, Triple, Tokens
<1> QED BY <1>3, <1>4, <1>5

(* Hashing on from what an earlier call hashed is hashing from nothing.    *)
LEMMA HashesKept ==
  ASSUME OneItemInTail, NEW req \in Prompts, NEW tokens \in Seq(Nat), NEW old \in Seq(Nat),
         NEW hashes, LastBlock(old) = 0 \/ Extends(old, req.tokens), Extends(tokens, old),
         DOMAIN hashes = 1 .. LastBlock(old), Len(hashes) = LastBlock(old),
         \A k \in 1 .. LastBlock(old) :
           hashes[k] = Triple(req, old, IF k = 1 THEN NONE_HASH ELSE hashes[k - 1], k)
  PROVE  Hashed(req, tokens, BlockHasher(req, tokens, hashes))
<1> DEFINE d == LastBlock(old)
           n == LastBlock(tokens)
<1>1. /\ d \in Nat /\ n \in Nat /\ Len(old) \in Nat /\ Len(tokens) \in Nat
      /\ Len(hashes) = d /\ Len(old) <= Len(tokens)
  BY FullFacts DEF Extends
<1>2. d <= n
  <2>1. d * HBS <= Len(old) /\ d * HBS \in Nat
    <3>1. d * HBS \in Nat
      BY <1>1, Times
    <3> QED BY <3>1, FullFacts
  <2>2. d * HBS <= Len(tokens)
    BY <1>1, <2>1
  <2> QED BY <1>1, <2>2, FullFacts
<1>3. PICK g : /\ Hashing(req, tokens, hashes, g, n)
               /\ BlockHasher(req, tokens, hashes) = Result(hashes, g, n)
  BY <1>1, HasherUnrolled
<1> DEFINE R == Result(hashes, g, n)
<1>4. /\ DOMAIN R = 1 .. n /\ Len(R) = n
      /\ \A k \in 1 .. n : R[k] = IF k <= d THEN hashes[k] ELSE g[k].hash
  BY <1>1 DEF Result
<1>5. \A k \in d .. n : g[k] = IF k = d THEN StartOf(req, hashes)
                               ELSE BlockAfter(req, tokens, g[k - 1], k)
  BY <1>1, <1>3 DEF Hashing, Block
<1>6. Behind(req, FirstItem(req, hashes), d * HBS)
  BY StartBehind
<1> HIDE DEF d, n, R
<1>7. HasherInv(req, tokens, hashes, g, d)
  <2>1. g[d] = StartOf(req, hashes)
    BY <1>1, <1>2, <1>5
  <2>2. /\ g[d].idx = FirstItem(req, hashes)
        /\ g[d].hash = IF d = 0 THEN NONE_HASH ELSE hashes[d]
    BY <2>1, <1>1 DEF StartOf
  <2>3. FirstItem(req, hashes) \in Int
    BY DEF FirstItem
  <2>4. d # 0 => R[d] = hashes[d]
    BY <1>1, <1>2, <1>4
  <2> QED BY <2>2, <2>3, <2>4, <1>6 DEF HasherInv, n, R
<1>8. ASSUME NEW k \in d + 1 .. n, HasherInv(req, tokens, hashes, g, k - 1)
      PROVE  /\ HasherInv(req, tokens, hashes, g, k)
             /\ R[k] = Triple(req, tokens, IF k = 1 THEN NONE_HASH ELSE R[k - 1], k)
  <2>1. k \in 1 .. n /\ k \in d .. n /\ k # d /\ ~(k <= d)
    BY <1>1
  <2>2. g[k] = BlockAfter(req, tokens, g[k - 1], k)
    BY <2>1, <1>5
  <2>3. /\ g[k - 1].idx \in Int /\ Behind(req, g[k - 1].idx, (k - 1) * HBS)
        /\ g[k - 1].hash = IF k - 1 = 0 THEN NONE_HASH ELSE R[k - 1]
    BY <1>8 DEF HasherInv, R, n
  <2>4. /\ g[k].hash = Triple(req, tokens, g[k - 1].hash, k)
        /\ g[k].idx \in Int /\ Behind(req, g[k].idx, k * HBS)
    BY <2>1, <2>2, <2>3, AfterFacts DEF n
  <2>5. R[k] = g[k].hash
    BY <2>1, <1>4
  <2>6. g[k - 1].hash = IF k = 1 THEN NONE_HASH ELSE R[k - 1]
    BY <2>1, <2>3, <1>1
  <2>7. HasherInv(req, tokens, hashes, g, k)
    BY <2>1, <2>4, <2>5, <1>1 DEF HasherInv, R, n
  <2> QED BY <2>4, <2>5, <2>6, <2>7
<1>9. \A k \in d .. n : HasherInv(req, tokens, hashes, g, k)
  <2> DEFINE H == {m \in Nat : m \in d .. n => HasherInv(req, tokens, hashes, g, m)}
  <2>1. ASSUME NEW m \in Nat, \A j \in Nat : j < m => j \in H
        PROVE  m \in H
    <3> SUFFICES ASSUME m \in d .. n PROVE HasherInv(req, tokens, hashes, g, m)
      OBVIOUS
    <3>1. CASE m = d
      BY <3>1, <1>7
    <3>2. CASE m # d
      <4>1. m \in d + 1 .. n /\ m - 1 \in Nat /\ m - 1 < m /\ m - 1 \in d .. n
        BY <3>2, <1>1
      <4>2. HasherInv(req, tokens, hashes, g, m - 1)
        BY <4>1, <2>1
      <4> QED BY <4>1, <4>2, <1>8
    <3> QED BY <3>1, <3>2
  <2>2. H \in SUBSET Nat
    OBVIOUS
  <2> HIDE DEF H
  <2>3. \A m \in Nat : m \in H
    BY <2>1, <2>2, StrongInduction
  <2> QED BY <2>3, <1>1 DEF H
<1>10. ASSUME NEW k \in 1 .. n
       PROVE  R[k] = Triple(req, tokens, IF k = 1 THEN NONE_HASH ELSE R[k - 1], k)
  <2>1. CASE k <= d
    <3>1. k \in 1 .. d /\ (k # 1 => k - 1 \in 1 .. d /\ k - 1 \in 1 .. n)
      BY <2>1, <1>1, <1>2
    <3>2. R[k] = hashes[k] /\ (k # 1 => R[k - 1] = hashes[k - 1])
      BY <3>1, <1>1, <1>4
    <3>3. hashes[k] = Triple(req, old, IF k = 1 THEN NONE_HASH ELSE hashes[k - 1], k)
      BY <3>1 DEF d
    <3>4. Tokens(tokens, k) = Tokens(old, k)
      BY <3>1, TokensSame DEF d
    <3> QED BY <3>2, <3>3, <3>4 DEF Triple
  <2>2. CASE ~(k <= d)
    <3>1. k \in d + 1 .. n /\ k - 1 \in d .. n
      BY <2>2, <1>1
    <3> QED BY <3>1, <1>8, <1>9
  <2> QED BY <2>1, <2>2
<1> QED BY <1>3, <1>4, <1>10 DEF Hashed, R, n

-----------------------------------------------------------------------------
(* The inductive invariant: whenever the hasher ran, a request has the     *)
(* hashes of the full blocks of the tokens it has now.                     *)

Arrived(r) ==
  /\ Len(all_token_ids[r]) <= MaxLen /\ Extends(all_token_ids[r], request[r].tokens)
  /\ Hashed(request[r], all_token_ids[r], block_hashes[r])

HashInv ==
  /\ request \in [Requests -> Prompts \cup {NoPrompt}]
  /\ all_token_ids \in [Requests -> Seq(Nat)] /\ DOMAIN block_hashes = Requests
  /\ \A r \in Requests :
       IF request[r] = NoPrompt THEN all_token_ids[r] = <<>> /\ block_hashes[r] = <<>>
       ELSE Arrived(r)

LEMMA NoPromptNot == NoPrompt \notin Prompts
<1> SUFFICES ASSUME NoPrompt \in Prompts PROVE FALSE
  OBVIOUS
<1>1. Len(NoPrompt.tokens) \in Nat \ {0}
  BY ItemFacts
<1> QED BY <1>1 DEF NoPrompt

LEMMA HashInitHolds == HashInit => HashInv
BY DEF HashInit, HashInv

LEMMA EmptyHashed ==
  LastBlock(<<>>) = 0 /\ DOMAIN <<>> = 1 .. 0 /\ Len(<<>>) = 0 /\ <<>> \in Seq(Nat)
<1>1. 0 \div HBS = 0
  BY SizeNat
<1> QED BY <1>1 DEF LastBlock, HBS

LEMMA FirstHashes ==
  ASSUME OneItemInTail, NEW p \in Prompts
  PROVE  Hashed(p, p.tokens, BlockHasher(p, p.tokens, <<>>))
<1>1. p.tokens \in Seq(Nat)
  BY ItemFacts
<1>2. Extends(p.tokens, <<>>)
  BY <1>1 DEF Extends
<1>3. \A k \in 1 .. LastBlock(<<>>) : FALSE
  BY EmptyHashed
<1> QED BY <1>1, <1>2, <1>3, EmptyHashed, HashesKept

(* A request that arrives is hashed from its first block.                  *)
LEMMA ArriveKeeps ==
  ASSUME OneItemInTail, HashInv, NEW r \in Requests, Arrive(r)
  PROVE  HashInv'
<1>1. PICK p \in Prompts :
        /\ request' = [request EXCEPT ![r] = p]
        /\ all_token_ids' = [all_token_ids EXCEPT ![r] = p.tokens]
        /\ block_hashes' = [block_hashes EXCEPT ![r] = BlockHasher(p, p.tokens, <<>>)]
  BY DEF Arrive
<1>2. p.tokens \in Seq(Nat) /\ Len(p.tokens) \in Nat /\ Len(p.tokens) <= MaxLen
  BY ItemFacts
<1>3. /\ request' \in [Requests -> Prompts \cup {NoPrompt}]
      /\ all_token_ids' \in [Requests -> Seq(Nat)] /\ DOMAIN block_hashes' = Requests
  BY <1>1, <1>2 DEF HashInv
<1>4. /\ request'[r] = p /\ all_token_ids'[r] = p.tokens
      /\ block_hashes'[r] = BlockHasher(p, p.tokens, <<>>)
      /\ \A q \in Requests : q # r => /\ request'[q] = request[q]
                                      /\ all_token_ids'[q] = all_token_ids[q]
                                      /\ block_hashes'[q] = block_hashes[q]
  BY <1>1 DEF HashInv
<1>5. Extends(p.tokens, p.tokens)
  BY <1>2 DEF Extends
<1>6. Hashed(p, p.tokens, BlockHasher(p, p.tokens, <<>>))
  BY FirstHashes
<1>7. Arrived(r)' /\ request'[r] # NoPrompt
  BY <1>2, <1>4, <1>5, <1>6, NoPromptNot DEF Arrived
<1>8. ASSUME NEW q \in Requests, q # r
      PROVE  IF request'[q] = NoPrompt THEN all_token_ids'[q] = <<>> /\ block_hashes'[q] = <<>>
             ELSE Arrived(q)'
  BY <1>4, <1>8 DEF HashInv, Arrived
<1> QED BY <1>3, <1>7, <1>8 DEF HashInv

LEMMA MoreTokens ==
  ASSUME NEW old \in Seq(Nat), NEW new \in BoundedSeq(Generated, MaxNew)
  PROVE  old \o new \in Seq(Nat) /\ Extends(old \o new, old)
<1>1. new \in Seq(Nat)
  <2>1. PICK m \in 0 .. MaxNew : new \in [1 .. m -> Generated]
    BY DEF BoundedSeq, SeqOf
  <2>2. MaxNew \in Nat /\ Generated \subseteq Nat
    BY HashInputs DEF PromptsOK
  <2>3. m \in Nat
    BY <2>1, <2>2
  <2>4. new \in [1 .. m -> Nat]
    BY ONLY <2>1, <2>2
  <2> QED BY <2>3, <2>4
<1>2. old \o new \in Seq(Nat) /\ Len(old \o new) = Len(old) + Len(new) /\ Len(old) \in Nat /\ Len(new) \in Nat
  BY <1>1
<1>3. \A i \in 1 .. Len(old) : (old \o new)[i] = old[i]
  BY <1>1
<1> QED BY <1>2, <1>3 DEF Extends

LEMMA ExtendsTransitive ==
  ASSUME NEW s, NEW t, NEW u, Len(s) \in Nat, Len(t) \in Nat, Len(u) \in Nat,
         Extends(s, t), Extends(t, u)
  PROVE  Extends(s, u)
BY DEF Extends

(* Appended tokens leave the hashes and hash only the new blocks.          *)
LEMMA AppendKeeps ==
  ASSUME OneItemInTail, HashInv, NEW r \in Requests, AppendTokens(r)
  PROVE  HashInv'
<1>1. PICK new \in BoundedSeq(Generated, MaxNew) :
        /\ Len(all_token_ids[r] \o new) <= MaxLen
        /\ all_token_ids' = [all_token_ids EXCEPT ![r] = all_token_ids[r] \o new]
        /\ block_hashes' = [block_hashes EXCEPT ![r] =
             BlockHasher(request[r], all_token_ids[r] \o new, block_hashes[r])]
  BY DEF AppendTokens
<1> DEFINE p == request[r]
           old == all_token_ids[r]
           tokens == all_token_ids[r] \o new
           hashes == block_hashes[r]
<1>2. p # NoPrompt /\ p \in Prompts /\ request' = request
  BY DEF AppendTokens, HashInv
<1>3. old \in Seq(Nat) /\ Arrived(r)
  BY <1>2 DEF HashInv
<1>4. /\ Extends(old, p.tokens) /\ DOMAIN hashes = 1 .. LastBlock(old)
      /\ Len(hashes) = LastBlock(old)
      /\ \A k \in 1 .. LastBlock(old) :
           hashes[k] = Triple(p, old, IF k = 1 THEN NONE_HASH ELSE hashes[k - 1], k)
  BY <1>3 DEF Arrived, Hashed
<1>5. tokens \in Seq(Nat) /\ Extends(tokens, old)
  BY <1>3, MoreTokens
<1>6. /\ request'[r] = p /\ all_token_ids'[r] = tokens
      /\ block_hashes'[r] = BlockHasher(p, tokens, hashes)
      /\ \A q \in Requests : q # r => /\ request'[q] = request[q]
                                      /\ all_token_ids'[q] = all_token_ids[q]
                                      /\ block_hashes'[q] = block_hashes[q]
  BY <1>1, <1>2 DEF HashInv
<1>7. /\ request' \in [Requests -> Prompts \cup {NoPrompt}]
      /\ all_token_ids' \in [Requests -> Seq(Nat)] /\ DOMAIN block_hashes' = Requests
  BY <1>1, <1>2, <1>5 DEF HashInv
<1>8. Len(tokens) <= MaxLen
  BY <1>1
<1>9. Len(p.tokens) \in Nat /\ Len(old) \in Nat /\ Len(tokens) \in Nat
  <2>1. p.tokens \in Seq(Nat)
    BY <1>2, ItemFacts
  <2> QED BY <2>1, <1>3, <1>5, LenNat
<1> HIDE DEF p, old, tokens, hashes
<1>10. Hashed(p, tokens, BlockHasher(p, tokens, hashes))
  BY <1>2, <1>3, <1>4, <1>5, HashesKept
<1>11. Extends(tokens, p.tokens)
  BY <1>4, <1>5, <1>9, ExtendsTransitive
<1>12. Arrived(r)' /\ request'[r] # NoPrompt
  BY <1>2, <1>6, <1>8, <1>10, <1>11 DEF Arrived
<1>13. ASSUME NEW q \in Requests, q # r
       PROVE  IF request'[q] = NoPrompt THEN all_token_ids'[q] = <<>> /\ block_hashes'[q] = <<>>
              ELSE Arrived(q)'
  BY <1>6, <1>13 DEF HashInv, Arrived
<1> QED BY <1>7, <1>12, <1>13 DEF HashInv

(* Whatever the order of the steps, hashes are those of the tokens.        *)
LEMMA HashInvariance == OneItemInTail => (HashSpec => []HashInv)
<1> SUFFICES ASSUME OneItemInTail PROVE HashSpec => []HashInv
  OBVIOUS
<1>1. HashInv /\ [HashNext]_hashVars => HashInv'
  <2> SUFFICES ASSUME HashInv, [HashNext]_hashVars PROVE HashInv'
    OBVIOUS
  <2>1. CASE UNCHANGED hashVars
    BY <2>1 DEF hashVars, HashInv, Arrived
  <2>2. ASSUME NEW r \in Requests, Arrive(r) PROVE HashInv'
    BY <2>2, ArriveKeeps
  <2>3. ASSUME NEW r \in Requests, AppendTokens(r) PROVE HashInv'
    BY <2>3, AppendKeeps
  <2> QED BY <2>1, <2>2, <2>3 DEF HashNext
<1> QED BY <1>1, HashInitHolds, PTL DEF HashSpec

-----------------------------------------------------------------------------
(* Types: as many hashes as full blocks, whatever the prompts.             *)

Typed(r) ==
  /\ Len(all_token_ids[r]) <= MaxLen /\ Extends(all_token_ids[r], request[r].tokens)
  /\ Len(block_hashes[r]) = LastBlock(all_token_ids[r])

HashTypeInv ==
  /\ request \in [Requests -> Prompts \cup {NoPrompt}]
  /\ all_token_ids \in [Requests -> Seq(Nat)] /\ DOMAIN block_hashes = Requests
  /\ \A r \in Requests :
       IF request[r] = NoPrompt THEN all_token_ids[r] = <<>> /\ block_hashes[r] = <<>>
       ELSE Typed(r)

LEMMA HasherLength ==
  ASSUME NEW req, NEW tokens \in Seq(Nat), NEW hashes, Len(hashes) \in Nat
  PROVE  Len(BlockHasher(req, tokens, hashes)) = LastBlock(tokens)
<1>1. LastBlock(tokens) \in Nat
  BY FullFacts
<1>2. PICK g : BlockHasher(req, tokens, hashes) = Result(hashes, g, LastBlock(tokens))
  BY <1>1, HasherUnrolled
<1> QED BY <1>1, <1>2 DEF Result

LEMMA ArriveTypes ==
  ASSUME HashTypeInv, NEW r \in Requests, Arrive(r)
  PROVE  HashTypeInv'
<1>1. PICK p \in Prompts :
        /\ request' = [request EXCEPT ![r] = p]
        /\ all_token_ids' = [all_token_ids EXCEPT ![r] = p.tokens]
        /\ block_hashes' = [block_hashes EXCEPT ![r] = BlockHasher(p, p.tokens, <<>>)]
  BY DEF Arrive
<1>2. p.tokens \in Seq(Nat) /\ Len(p.tokens) \in Nat /\ Len(p.tokens) <= MaxLen
  BY ItemFacts
<1>3. /\ request' \in [Requests -> Prompts \cup {NoPrompt}]
      /\ all_token_ids' \in [Requests -> Seq(Nat)] /\ DOMAIN block_hashes' = Requests
  BY <1>1, <1>2 DEF HashTypeInv
<1>4. /\ request'[r] = p /\ all_token_ids'[r] = p.tokens
      /\ block_hashes'[r] = BlockHasher(p, p.tokens, <<>>)
      /\ \A q \in Requests : q # r => /\ request'[q] = request[q]
                                      /\ all_token_ids'[q] = all_token_ids[q]
                                      /\ block_hashes'[q] = block_hashes[q]
  BY <1>1 DEF HashTypeInv
<1>5. Extends(p.tokens, p.tokens) /\ Len(<<>>) \in Nat
  BY <1>2 DEF Extends
<1>6. Len(BlockHasher(p, p.tokens, <<>>)) = LastBlock(p.tokens)
  BY <1>2, <1>5, HasherLength
<1>7. Typed(r)' /\ request'[r] # NoPrompt
  BY <1>2, <1>4, <1>5, <1>6, NoPromptNot DEF Typed
<1>8. ASSUME NEW q \in Requests, q # r
      PROVE  IF request'[q] = NoPrompt THEN all_token_ids'[q] = <<>> /\ block_hashes'[q] = <<>>
             ELSE Typed(q)'
  BY <1>4, <1>8 DEF HashTypeInv, Typed
<1> QED BY <1>3, <1>7, <1>8 DEF HashTypeInv

LEMMA AppendTypes ==
  ASSUME HashTypeInv, NEW r \in Requests, AppendTokens(r)
  PROVE  HashTypeInv'
<1>1. PICK new \in BoundedSeq(Generated, MaxNew) :
        /\ Len(all_token_ids[r] \o new) <= MaxLen
        /\ all_token_ids' = [all_token_ids EXCEPT ![r] = all_token_ids[r] \o new]
        /\ block_hashes' = [block_hashes EXCEPT ![r] =
             BlockHasher(request[r], all_token_ids[r] \o new, block_hashes[r])]
  BY DEF AppendTokens
<1> DEFINE p == request[r]
           old == all_token_ids[r]
           tokens == all_token_ids[r] \o new
           hashes == block_hashes[r]
<1>2. p # NoPrompt /\ p \in Prompts /\ request' = request
  BY DEF AppendTokens, HashTypeInv
<1>3. old \in Seq(Nat) /\ Typed(r)
  BY <1>2 DEF HashTypeInv
<1>4. Extends(old, p.tokens) /\ Len(hashes) = LastBlock(old)
  BY <1>3 DEF Typed
<1>5. tokens \in Seq(Nat) /\ Extends(tokens, old)
  BY <1>3, MoreTokens
<1>6. /\ request'[r] = p /\ all_token_ids'[r] = tokens
      /\ block_hashes'[r] = BlockHasher(p, tokens, hashes)
      /\ \A q \in Requests : q # r => /\ request'[q] = request[q]
                                      /\ all_token_ids'[q] = all_token_ids[q]
                                      /\ block_hashes'[q] = block_hashes[q]
  BY <1>1, <1>2 DEF HashTypeInv
<1>7. /\ request' \in [Requests -> Prompts \cup {NoPrompt}]
      /\ all_token_ids' \in [Requests -> Seq(Nat)] /\ DOMAIN block_hashes' = Requests
  BY <1>1, <1>2, <1>5 DEF HashTypeInv
<1>8. Len(tokens) <= MaxLen
  BY <1>1
<1>9. Len(p.tokens) \in Nat /\ Len(old) \in Nat /\ Len(tokens) \in Nat /\ LastBlock(old) \in Nat
  <2>1. p.tokens \in Seq(Nat)
    BY <1>2, ItemFacts
  <2> QED BY <2>1, <1>3, <1>5, LenNat, FullFacts
<1> HIDE DEF p, old, tokens, hashes
<1>10. Len(BlockHasher(p, tokens, hashes)) = LastBlock(tokens)
  BY <1>4, <1>5, <1>9, HasherLength
<1>11. Extends(tokens, p.tokens)
  BY <1>4, <1>5, <1>9, ExtendsTransitive
<1>12. Typed(r)' /\ request'[r] # NoPrompt
  BY <1>2, <1>6, <1>8, <1>10, <1>11 DEF Typed
<1>13. ASSUME NEW q \in Requests, q # r
       PROVE  IF request'[q] = NoPrompt THEN all_token_ids'[q] = <<>> /\ block_hashes'[q] = <<>>
              ELSE Typed(q)'
  BY <1>6, <1>13 DEF HashTypeInv, Typed
<1> QED BY <1>7, <1>12, <1>13 DEF HashTypeInv

(* The same without the assumption on items: how many there are.           *)
LEMMA HashTypeInvariance == HashSpec => []HashTypeInv
<1>1. HashInit => HashTypeInv
  BY DEF HashInit, HashTypeInv
<1>2. HashTypeInv /\ [HashNext]_hashVars => HashTypeInv'
  <2> SUFFICES ASSUME HashTypeInv, [HashNext]_hashVars PROVE HashTypeInv'
    OBVIOUS
  <2>1. CASE UNCHANGED hashVars
    BY <2>1 DEF hashVars, HashTypeInv, Typed
  <2>2. ASSUME NEW r \in Requests, Arrive(r) PROVE HashTypeInv'
    BY <2>2, ArriveTypes
  <2>3. ASSUME NEW r \in Requests, AppendTokens(r) PROVE HashTypeInv'
    BY <2>3, AppendTypes
  <2> QED BY <2>1, <2>2, <2>3 DEF HashNext
<1> QED BY <1>1, <1>2, PTL DEF HashSpec

(* The inductive invariant implies the type invariant.                     *)
LEMMA HashTypes == HashTypeInv => HashTypeOK
<1> SUFFICES ASSUME HashTypeInv, NEW r \in Requests
             PROVE  /\ Len(all_token_ids[r]) <= MaxLen
                    /\ IsPrefix(request[r].tokens, all_token_ids[r])
                    /\ Len(block_hashes[r]) * hash_block_size <= Len(all_token_ids[r])
  BY DEF HashTypeInv, HashTypeOK
<1>1. all_token_ids[r] \in Seq(Nat) /\ request[r] \in Prompts \cup {NoPrompt}
  BY DEF HashTypeInv
<1>2. CASE request[r] = NoPrompt
  <2>0. NoPrompt.tokens = <<>>
    BY DEF NoPrompt
  <2>1. all_token_ids[r] = <<>> /\ block_hashes[r] = <<>> /\ request[r].tokens = <<>>
    BY <1>2, <2>0 DEF HashTypeInv
  <2>2. IsPrefix(<<>>, <<>>)
    BY DEF IsPrefix
  <2>3. Len(<<>>) = 0 /\ 0 * hash_block_size = 0
    BY SizeNat DEF HBS
  <2>4. MaxLen \in Nat
    BY HashInputs DEF PromptsOK
  <2> QED BY <2>1, <2>2, <2>3, <2>4
<1>3. CASE request[r] # NoPrompt
  <2> DEFINE p == request[r].tokens
             t == all_token_ids[r]
  <2>1. Typed(r) /\ p \in Seq(Nat) /\ t \in Seq(Nat)
    BY <1>1, <1>3, ItemFacts DEF HashTypeInv
  <2>2. Len(t) <= MaxLen /\ Extends(t, p) /\ Len(block_hashes[r]) = LastBlock(t)
    BY <2>1 DEF Typed
  <2> HIDE DEF p, t
  <2>3. LastBlock(t) * HBS <= Len(t)
    BY <2>1, FullFacts
  <2>4. Len(p) \in Nat /\ Len(t) \in Nat /\ Len(p) <= Len(t)
    BY <2>1, <2>2, LenNat DEF Extends
  <2>5. /\ SubSeq(p, 0 + 1, Len(p)) = [i \in 1 .. Len(p) - 0 |-> p[0 + i]]
        /\ SubSeq(t, 0 + 1, Len(p)) = [i \in 1 .. Len(p) - 0 |-> t[0 + i]]
    BY <2>1, <2>4, PieceFacts
  <2>6. SubSeq(p, 1, Len(p)) = SubSeq(t, 1, Len(p))
    BY <2>2, <2>4, <2>5 DEF Extends
  <2> QED BY <2>2, <2>3, <2>4, <2>6 DEF IsPrefix, HBS, p, t
<1> QED BY <1>2, <1>3

-----------------------------------------------------------------------------
(* One list of keys: its parts can be told apart.                          *)

(* Two lists, one behind the other.                                        *)
LEMMA TwoParts ==
  ASSUME NEW T, NEW a \in Seq(T), NEW b \in Seq(T)
  PROVE  /\ Len(a) \in Nat /\ Len(b) \in Nat /\ a \o b \in Seq(T)
         /\ Len(a \o b) = Len(a) + Len(b)
         /\ \A i \in 1 .. Len(a) : (a \o b)[i] = a[i]
         /\ \A i \in 1 .. Len(b) : (a \o b)[Len(a) + i] = b[i]
OBVIOUS

(* The four parts of a list of keys and where they stand in it.            *)
Parts(x, a, m, s, b) ==
  /\ Len(a) \in Nat /\ Len(m) \in Nat /\ Len(s) \in Nat /\ Len(b) \in Nat
  /\ Len(x) = Len(a) + Len(m) + Len(s) + Len(b)
  /\ \A i \in 1 .. Len(a) : x[i] = a[i]
  /\ \A i \in 1 .. Len(m) : x[Len(a) + i] = m[i]
  /\ \A i \in 1 .. Len(s) : x[Len(a) + Len(m) + i] = s[i]
  /\ \A i \in 1 .. Len(b) : x[Len(a) + Len(m) + Len(s) + i] = b[i]

(* A list of four parts, element by element.                               *)
LEMMA FourParts ==
  ASSUME NEW T, NEW a \in Seq(T), NEW m \in Seq(T), NEW s \in Seq(T), NEW b \in Seq(T)
  PROVE  Parts(a \o m \o s \o b, a, m, s, b)
<1>1. /\ Len(a) \in Nat /\ Len(m) \in Nat /\ a \o m \in Seq(T)
      /\ Len(a \o m) = Len(a) + Len(m)
      /\ \A i \in 1 .. Len(a) : (a \o m)[i] = a[i]
      /\ \A i \in 1 .. Len(m) : (a \o m)[Len(a) + i] = m[i]
  BY TwoParts
<1> DEFINE am == a \o m
<1> HIDE DEF am
<1>2. /\ Len(s) \in Nat /\ am \o s \in Seq(T)
      /\ Len(am \o s) = Len(am) + Len(s)
      /\ \A i \in 1 .. Len(am) : (am \o s)[i] = am[i]
      /\ \A i \in 1 .. Len(s) : (am \o s)[Len(am) + i] = s[i]
  BY <1>1, TwoParts DEF am
<1> DEFINE ams == am \o s
<1> HIDE DEF ams
<1>3. /\ Len(b) \in Nat
      /\ Len(ams \o b) = Len(ams) + Len(b)
      /\ \A i \in 1 .. Len(ams) : (ams \o b)[i] = ams[i]
      /\ \A i \in 1 .. Len(b) : (ams \o b)[Len(ams) + i] = b[i]
  BY <1>2, TwoParts DEF ams
<1> DEFINE x == ams \o b
<1> HIDE DEF x
<1>4. /\ Len(am) = Len(a) + Len(m) /\ Len(ams) = Len(a) + Len(m) + Len(s)
      /\ Len(x) = Len(a) + Len(m) + Len(s) + Len(b)
  BY <1>1, <1>2, <1>3 DEF am, ams, x
<1>5. \A i \in 1 .. Len(am) : x[i] = am[i]
  BY <1>1, <1>2, <1>3, <1>4 DEF ams, x
<1>6. /\ \A i \in 1 .. Len(a) : x[i] = a[i]
      /\ \A i \in 1 .. Len(m) : x[Len(a) + i] = m[i]
  <2>1. \A i \in 1 .. Len(a) : i \in 1 .. Len(am) /\ am[i] = a[i]
    BY <1>1, <1>4 DEF am
  <2>2. \A i \in 1 .. Len(m) : Len(a) + i \in 1 .. Len(am) /\ am[Len(a) + i] = m[i]
    BY <1>1, <1>4 DEF am
  <2> QED BY <1>5, <2>1, <2>2
<1>7. \A i \in 1 .. Len(s) : x[Len(a) + Len(m) + i] = s[i]
  BY <1>1, <1>2, <1>3, <1>4 DEF ams, x
<1>8. \A i \in 1 .. Len(b) : x[Len(a) + Len(m) + Len(s) + i] = b[i]
  BY <1>3, <1>4 DEF x
<1>9. Parts(x, a, m, s, b)
  BY <1>1, <1>2, <1>3, <1>4, <1>6, <1>7, <1>8 DEF Parts
<1> QED BY <1>9 DEF x, ams, am

(* An adapter or none, items, a salt or none, embeddings or none.          *)
Kinds(a, m, s, b) ==
  /\ Len(a) <= 1 /\ Len(s) <= 1 /\ Len(b) <= 1
  /\ \A i \in 1 .. Len(a) : a[i][1] = "str"
  /\ \A i \in 1 .. Len(m) : m[i][1] = "item"
  /\ \A i \in 1 .. Len(s) : s[i][1] = "str"
  /\ \A i \in 1 .. Len(b) : b[i][1] = "bytes"

LEMMA OneAndNone ==
  ASSUME NEW x \in Nat, NEW y \in Nat, x <= 1, ~(x <= y)
  PROVE  x = 1 /\ y = 0
OBVIOUS

(* An adapter is not the salt of another request, nor an item.             *)
LEMMA AdapterNotMissed ==
  ASSUME NEW x, NEW a, NEW m, NEW s, NEW b, NEW c, NEW n, NEW t, NEW d,
         Parts(x, a, m, s, b), Parts(x, c, n, t, d), Kinds(a, m, s, b), Kinds(c, n, t, d),
         \A i \in 1 .. Len(a), j \in 1 .. Len(t) : a[i] # t[j]
  PROVE  Len(a) <= Len(c)
<1>1. Len(a) \in Nat /\ Len(c) \in Nat /\ Len(a) <= 1
  BY DEF Parts, Kinds
<1> SUFFICES ASSUME Len(a) = 1, Len(c) = 0 PROVE FALSE
  BY <1>1, OneAndNone
<1>2. x[1] = a[1] /\ a[1][1] = "str" /\ Len(x) >= 1
  BY DEF Parts, Kinds
<1>3. Len(n) = 0
  <2> SUFFICES ASSUME Len(n) # 0 PROVE FALSE
    OBVIOUS
  <2>1. 1 \in 1 .. Len(n) /\ Len(c) + 1 = 1
    BY DEF Parts
  <2>2. x[Len(c) + 1] = n[1] /\ n[1][1] = "item"
    BY <2>1 DEF Parts, Kinds
  <2> QED BY <1>2, <2>1, <2>2
<1>4. Len(t) = 0
  <2> SUFFICES ASSUME Len(t) # 0 PROVE FALSE
    OBVIOUS
  <2>1. 1 \in 1 .. Len(t) /\ Len(c) + Len(n) + 1 = 1 /\ 1 \in 1 .. Len(a)
    BY <1>3 DEF Parts
  <2>2. x[Len(c) + Len(n) + 1] = t[1]
    BY <2>1 DEF Parts
  <2> QED BY <1>2, <2>1, <2>2
<1>5. 1 \in 1 .. Len(d) /\ Len(c) + Len(n) + Len(t) + 1 = 1
  BY <1>2, <1>3, <1>4 DEF Parts
<1>6. x[Len(c) + Len(n) + Len(t) + 1] = d[1] /\ d[1][1] = "bytes"
  BY <1>5 DEF Parts, Kinds
<1> QED BY <1>2, <1>5, <1>6

(* No list of keys has more items than an equal one.                       *)
LEMMA ItemNotMissed ==
  ASSUME NEW x, NEW a, NEW m, NEW s, NEW b, NEW c, NEW n, NEW t, NEW d,
         Parts(x, a, m, s, b), Parts(x, c, n, t, d), Kinds(a, m, s, b), Kinds(c, n, t, d),
         Len(a) = Len(c)
  PROVE  Len(m) <= Len(n)
<1> SUFFICES ASSUME Len(n) < Len(m) PROVE FALSE
  BY DEF Parts
<1> DEFINE p == Len(a) + Len(n) + 1
<1>1. x[p] = m[Len(n) + 1] /\ m[Len(n) + 1][1] = "item" /\ p <= Len(x)
  <2>1. Len(n) + 1 \in 1 .. Len(m) /\ p = Len(a) + (Len(n) + 1)
    BY DEF Parts
  <2>2. p <= Len(x)
    BY <2>1 DEF Parts
  <2>3. x[Len(a) + (Len(n) + 1)] = m[Len(n) + 1] /\ m[Len(n) + 1][1] = "item"
    BY <2>1 DEF Parts, Kinds
  <2> QED BY <2>1, <2>2, <2>3
<1>2. CASE Len(t) # 0
  <2>1. 1 \in 1 .. Len(t) /\ p = Len(c) + Len(n) + 1
    BY <1>2 DEF Parts
  <2>2. x[Len(c) + Len(n) + 1] = t[1] /\ t[1][1] = "str"
    BY <2>1 DEF Parts, Kinds
  <2> QED BY <1>1, <2>1, <2>2
<1>3. CASE Len(t) = 0
  <2>1. 1 \in 1 .. Len(d) /\ p = Len(c) + Len(n) + Len(t) + 1
    BY <1>1, <1>3 DEF Parts
  <2>2. x[Len(c) + Len(n) + Len(t) + 1] = d[1] /\ d[1][1] = "bytes"
    BY <2>1 DEF Parts, Kinds
  <2> QED BY <1>1, <2>1, <2>2
<1> QED BY <1>2, <1>3

(* A salt is not missed in the other list.                                 *)
LEMMA SaltNotMissed ==
  ASSUME NEW x, NEW a, NEW m, NEW s, NEW b, NEW c, NEW n, NEW t, NEW d,
         Parts(x, a, m, s, b), Parts(x, c, n, t, d), Kinds(a, m, s, b), Kinds(c, n, t, d),
         Len(a) = Len(c), Len(m) = Len(n)
  PROVE  Len(s) <= Len(t)
<1> SUFFICES ASSUME Len(s) = 1, Len(t) = 0 PROVE FALSE
  BY DEF Parts, Kinds
<1>1. 1 \in 1 .. Len(s) /\ Len(c) + Len(n) + Len(t) + 1 = Len(a) + Len(m) + 1
  BY DEF Parts
<1>2. x[Len(a) + Len(m) + 1] = s[1] /\ s[1][1] = "str"
  BY <1>1 DEF Parts, Kinds
<1>3. 1 \in 1 .. Len(d)
  BY DEF Parts
<1>4. x[Len(c) + Len(n) + Len(t) + 1] = d[1] /\ d[1][1] = "bytes"
  BY <1>3 DEF Parts, Kinds
<1> QED BY <1>1, <1>2, <1>4

(* Two lists of keys that are equal agree part by part.                    *)
LEMMA PartsEqual ==
  ASSUME NEW x, NEW a, NEW m, NEW s, NEW b, NEW c, NEW n, NEW t, NEW d,
         Parts(x, a, m, s, b), Parts(x, c, n, t, d), Kinds(a, m, s, b), Kinds(c, n, t, d),
         \A i \in 1 .. Len(a), j \in 1 .. Len(t) : a[i] # t[j],
         \A i \in 1 .. Len(c), j \in 1 .. Len(s) : c[i] # s[j]
  PROVE  /\ Len(a) = Len(c) /\ \A i \in 1 .. Len(a) : a[i] = c[i]
         /\ Len(m) = Len(n) /\ \A i \in 1 .. Len(m) : m[i] = n[i]
         /\ Len(s) = Len(t) /\ \A i \in 1 .. Len(s) : s[i] = t[i]
         /\ Len(b) = Len(d) /\ \A i \in 1 .. Len(b) : b[i] = d[i]
<1>0. /\ Len(a) \in Nat /\ Len(m) \in Nat /\ Len(s) \in Nat /\ Len(b) \in Nat
      /\ Len(c) \in Nat /\ Len(n) \in Nat /\ Len(t) \in Nat /\ Len(d) \in Nat
  BY DEF Parts
<1>1. Len(a) = Len(c)
  <2>1. Len(a) <= Len(c)
    BY AdapterNotMissed
  <2>2. Len(c) <= Len(a)
    BY AdapterNotMissed
  <2> QED BY <1>0, <2>1, <2>2
<1>2. Len(m) = Len(n)
  <2>1. Len(m) <= Len(n)
    BY <1>1, ItemNotMissed
  <2>2. Len(n) <= Len(m)
    BY <1>1, ItemNotMissed
  <2> QED BY <1>0, <2>1, <2>2
<1>3. Len(s) = Len(t)
  <2>1. Len(s) <= Len(t)
    BY <1>1, <1>2, SaltNotMissed
  <2>2. Len(t) <= Len(s)
    BY <1>1, <1>2, SaltNotMissed
  <2> QED BY <1>0, <2>1, <2>2
<1>4. Len(b) = Len(d)
  BY <1>0, <1>1, <1>2, <1>3 DEF Parts
<1>5. \A i \in 1 .. Len(a) : a[i] = c[i]
  BY <1>1 DEF Parts
<1>6. \A i \in 1 .. Len(m) : m[i] = n[i]
  BY <1>1, <1>2 DEF Parts
<1>7. \A i \in 1 .. Len(s) : s[i] = t[i]
  BY <1>1, <1>2, <1>3 DEF Parts
<1>8. \A i \in 1 .. Len(b) : b[i] = d[i]
  BY <1>1, <1>2, <1>3, <1>4 DEF Parts
<1> QED BY <1>1, <1>2, <1>3, <1>4, <1>5, <1>6, <1>7, <1>8

-----------------------------------------------------------------------------
(* The parts of the keys of a block.                                       *)

ItemPart(req, k) == MmExtraHashKeys(req, (k - 1) * HBS, k * HBS, 1).keys
SaltPart(req, k) == IF k = 1 THEN StrKeys(req.salt) ELSE <<>>
Embeds(req, k) == SubSeq(req.embeds, (k - 1) * HBS + 1, Smaller(k * HBS, Len(req.embeds)))
EmbedPart(req, k) == IF req.embeds = <<>> THEN <<>> ELSE <<<<"bytes", Embeds(req, k)>>>>

LEMMA KeysOf ==
  ASSUME NEW req, NEW k \in Nat \ {0}
  PROVE  Keys(req, k) = StrKeys(req.lora) \o ItemPart(req, k) \o SaltPart(req, k) \o EmbedPart(req, k)
<1>1. (k - 1) * HBS = 0 <=> k = 1
  <2>1. CASE k = 1
    BY <2>1, SizeNat
  <2>2. CASE k # 1
    <3>1. k - 1 \in Nat /\ 1 <= k - 1
      BY <2>2
    <3>2. 1 * HBS <= (k - 1) * HBS
      BY <3>1, TimesMono
    <3>3. (k - 1) * HBS # 0
      BY <3>1, <3>2, SizeNat
    <3> QED BY <2>2, <3>3
  <2> QED BY <2>1, <2>2
<1> QED BY <1>1 DEF Keys, ExtraKeys, ItemPart, SaltPart, EmbedPart, Embeds

LEMMA ItemPartFacts ==
  ASSUME NEW req \in Prompts, NEW k \in Nat \ {0}
  PROVE  \E f, l \in Nat :
           /\ f # 0 /\ f <= l + 1 /\ l <= NumItems(req)
           /\ Over(req, (k - 1) * HBS, k * HBS) = f .. l
           /\ ItemPart(req, k) = ItemKeys(req, (k - 1) * HBS, f, l)
<1>1. \E f, l \in Nat : KeysFrom(req, (k - 1) * HBS, k * HBS, f, l)
  BY BlockBounds, MmKeysFacts
<1>2. PICK f \in Nat, l \in Nat : KeysFrom(req, (k - 1) * HBS, k * HBS, f, l)
  BY <1>1
<1>3. /\ f # 0 /\ f <= l + 1 /\ l <= NumItems(req)
      /\ Over(req, (k - 1) * HBS, k * HBS) = f .. l
      /\ ItemPart(req, k) = ItemKeys(req, (k - 1) * HBS, f, l)
  BY <1>2 DEF KeysFrom, ItemPart
<1> QED BY <1>3

Blank == ""
StrKey(s) == <<"str", s>>

LEMMA StrKeyFacts ==
  ASSUME NEW s, NEW t
  PROVE  StrKey(s)[1] = "str" /\ (StrKey(s) = StrKey(t) => s = t)
<1>1. StrKey(s)[1] = "str" /\ StrKey(s)[2] = s /\ StrKey(t)[2] = t
  BY DEF StrKey
<1> QED BY <1>1

LEMMA OneOrNone ==
  ASSUME NEW e, NEW x, x = <<>> \/ x = <<e>>
  PROVE  /\ x \in Seq({e}) /\ Len(x) <= 1
         /\ Len(x) = IF x = <<>> THEN 0 ELSE 1
         /\ \A i \in 1 .. Len(x) : i = 1 /\ x = <<e>> /\ x[i] = e
<1>1. CASE x = <<>>
  <2>1. Len(x) = 0 /\ x \in Seq({e})
    BY <1>1
  <2> QED BY <1>1, <2>1
<1>2. CASE x = <<e>>
  <2>1. Len(x) = 1 /\ x \in Seq({e}) /\ x[1] = e /\ x # <<>>
    BY <1>2
  <2>2. \A i \in 1 .. Len(x) : i = 1
    BY <2>1
  <2> QED BY <1>2, <2>1, <2>2
<1> QED BY <1>1, <1>2

LEMMA StrFacts ==
  ASSUME NEW s
  PROVE  /\ StrKeys(s) \in Seq({StrKey(s)}) /\ Len(StrKeys(s)) <= 1
         /\ s = Blank => Len(StrKeys(s)) = 0
         /\ s # Blank => Len(StrKeys(s)) = 1 /\ StrKeys(s)[1] = StrKey(s)
         /\ \A i \in 1 .. Len(StrKeys(s)) :
              i = 1 /\ s # Blank /\ StrKeys(s)[i] = StrKey(s)
<1>1. /\ s = Blank => StrKeys(s) = <<>>
      /\ s # Blank => StrKeys(s) = <<StrKey(s)>>
  BY DEF StrKeys, StrKey, Blank
<1> DEFINE e == StrKey(s)
           x == StrKeys(s)
<1> HIDE DEF e, x
<1>2. x = <<>> \/ x = <<e>>
  BY <1>1 DEF e, x
<1>3. /\ x \in Seq({e}) /\ Len(x) <= 1
      /\ Len(x) = IF x = <<>> THEN 0 ELSE 1
      /\ \A i \in 1 .. Len(x) : i = 1 /\ x = <<e>> /\ x[i] = e
  BY <1>2, OneOrNone
<1>4. <<e>> # <<>>
  OBVIOUS
<1>5. s = Blank => Len(x) = 0
  BY <1>1, <1>3 DEF x
<1>6. s # Blank => Len(x) = 1 /\ x[1] = e
  <2> SUFFICES ASSUME s # Blank PROVE Len(x) = 1 /\ x[1] = e
    OBVIOUS
  <2>1. x = <<e>>
    BY <1>1 DEF x, e
  <2> QED BY <2>1
<1>7. \A i \in 1 .. Len(x) : i = 1 /\ s # Blank /\ x[i] = e
  BY <1>3, <1>5
<1> QED BY <1>3, <1>5, <1>6, <1>7 DEF e, x

LEMMA StrSame ==
  ASSUME NEW u, NEW v, Len(StrKeys(u)) = Len(StrKeys(v)),
         \A i \in 1 .. Len(StrKeys(u)) : StrKeys(u)[i] = StrKeys(v)[i]
  PROVE  u = v
<1>1. /\ u = Blank => Len(StrKeys(u)) = 0
      /\ u # Blank => Len(StrKeys(u)) = 1 /\ StrKeys(u)[1] = StrKey(u)
  BY StrFacts
<1>2. /\ v = Blank => Len(StrKeys(v)) = 0
      /\ v # Blank => Len(StrKeys(v)) = 1 /\ StrKeys(v)[1] = StrKey(v)
  BY StrFacts
<1>3. CASE u = Blank
  BY <1>1, <1>2, <1>3
<1>4. CASE u # Blank
  <2>1. v # Blank
    BY <1>1, <1>2, <1>4
  <2>2. StrKeys(u)[1] = StrKeys(v)[1]
    BY <1>1, <1>4
  <2>3. StrKey(u) = StrKey(v)
    BY <1>1, <1>2, <1>4, <2>1, <2>2
  <2> QED BY <2>3, StrKeyFacts
<1> QED BY <1>3, <1>4

LEMMA StrKind ==
  ASSUME NEW s, NEW i \in 1 .. Len(StrKeys(s))
  PROVE  StrKeys(s)[i][1] = "str"
<1>1. StrKeys(s)[i] = StrKey(s)
  BY StrFacts
<1> QED BY <1>1, StrKeyFacts

LEMMA SeqWider ==
  ASSUME NEW A, NEW B, A \subseteq B, NEW s \in Seq(A)
  PROVE  s \in Seq(B)
OBVIOUS

(* The keys of a block, part by part.                                      *)
LEMMA KeysParted ==
  ASSUME NEW req \in Prompts, NEW k \in Nat \ {0}
  PROVE  /\ Parts(Keys(req, k), StrKeys(req.lora), ItemPart(req, k), SaltPart(req, k), EmbedPart(req, k))
         /\ Kinds(StrKeys(req.lora), ItemPart(req, k), SaltPart(req, k), EmbedPart(req, k))
<1> DEFINE a == (k - 1) * HBS
           I == {MmKey(req.mm_features[i], a) : i \in 1 .. NumItems(req)}
           E == {<<"bytes", Embeds(req, k)>>}
           T == {StrKey(req.lora)} \cup I \cup {StrKey(req.salt)} \cup E
<1>1. PICK f \in Nat, l \in Nat :
        /\ f # 0 /\ f <= l + 1 /\ l <= NumItems(req)
        /\ ItemPart(req, k) = ItemKeys(req, a, f, l)
  BY ItemPartFacts
<1>2. ItemPart(req, k) \in Seq(I) /\ \A i \in 1 .. Len(ItemPart(req, k)) : ItemPart(req, k)[i][1] = "item"
  <2>1. NumItems(req) \in Nat
    BY ItemFacts
  <2>2. \A j \in 1 .. l - f + 1 : f + j - 1 \in 1 .. NumItems(req)
    BY <1>1, <2>1
  <2>3. \A j \in 1 .. l - f + 1 : MmKey(req.mm_features[f + j - 1], a) \in I
    BY <2>2
  <2>4. l - f + 1 \in Nat
    BY <1>1
  <2> HIDE DEF I
  <2>5. ItemKeys(req, a, f, l) \in [1 .. l - f + 1 -> I]
    BY <2>3 DEF ItemKeys
  <2>6. ItemPart(req, k) \in Seq(I) /\ Len(ItemPart(req, k)) = l - f + 1
    BY <1>1, <2>4, <2>5
  <2>7. \A j \in 1 .. l - f + 1 : ItemKeys(req, a, f, l)[j] = MmKey(req.mm_features[f + j - 1], a)
    BY DEF ItemKeys
  <2>8. \A j \in 1 .. l - f + 1 : ItemKeys(req, a, f, l)[j][1] = "item"
    BY <2>7 DEF MmKey
  <2> QED BY <1>1, <2>6, <2>8
<1>3. /\ SaltPart(req, k) \in Seq({StrKey(req.salt)}) /\ Len(SaltPart(req, k)) <= 1
      /\ \A i \in 1 .. Len(SaltPart(req, k)) : SaltPart(req, k)[i][1] = "str"
  <2>1. CASE k = 1
    <3>1. SaltPart(req, k) = StrKeys(req.salt)
      BY <2>1 DEF SaltPart
    <3> QED BY <3>1, StrFacts, StrKind
  <2>2. CASE k # 1
    <3>1. SaltPart(req, k) = <<>>
      BY <2>2 DEF SaltPart
    <3> QED BY <3>1
  <2> QED BY <2>1, <2>2
<1>4. /\ StrKeys(req.lora) \in Seq({StrKey(req.lora)}) /\ Len(StrKeys(req.lora)) <= 1
      /\ \A i \in 1 .. Len(StrKeys(req.lora)) : StrKeys(req.lora)[i][1] = "str"
  BY StrFacts, StrKind
<1>5. /\ EmbedPart(req, k) \in Seq(E) /\ Len(EmbedPart(req, k)) <= 1
      /\ \A i \in 1 .. Len(EmbedPart(req, k)) : EmbedPart(req, k)[i][1] = "bytes"
  BY DEF EmbedPart
<1>6. Kinds(StrKeys(req.lora), ItemPart(req, k), SaltPart(req, k), EmbedPart(req, k))
  BY <1>2, <1>3, <1>4, <1>5 DEF Kinds
<1> HIDE DEF I, E
<1>7. /\ StrKeys(req.lora) \in Seq(T) /\ ItemPart(req, k) \in Seq(T)
      /\ SaltPart(req, k) \in Seq(T) /\ EmbedPart(req, k) \in Seq(T)
  <2>1. /\ {StrKey(req.lora)} \subseteq T /\ I \subseteq T
        /\ {StrKey(req.salt)} \subseteq T /\ E \subseteq T
    OBVIOUS
  <2> HIDE DEF T
  <2> QED BY <2>1, <1>2, <1>3, <1>4, <1>5, SeqWider
<1> HIDE DEF T
<1>8. Parts(Keys(req, k), StrKeys(req.lora), ItemPart(req, k), SaltPart(req, k), EmbedPart(req, k))
  BY <1>7, KeysOf, FourParts
<1> QED BY <1>6, <1>8

(* Equal keys: the same adapter, items, embeddings, and salt in block one. *)
LEMMA KeysEqual ==
  ASSUME NEW r \in Prompts, NEW q \in Prompts, NEW k \in Nat \ {0}, Keys(r, k) = Keys(q, k)
  PROVE  /\ r.lora = q.lora /\ (k = 1 => r.salt = q.salt)
         /\ Len(ItemPart(r, k)) = Len(ItemPart(q, k))
         /\ \A i \in 1 .. Len(ItemPart(r, k)) : ItemPart(r, k)[i] = ItemPart(q, k)[i]
         /\ (r.embeds = <<>>) <=> (q.embeds = <<>>)
         /\ r.embeds # <<>> => Embeds(r, k) = Embeds(q, k)
<1>1. ASSUME NEW x \in Prompts, NEW y \in Prompts,
             NEW i \in 1 .. Len(StrKeys(x.lora)), NEW j \in 1 .. Len(SaltPart(y, k))
      PROVE  StrKeys(x.lora)[i] # SaltPart(y, k)[j]
  <2>1. x.lora # Blank /\ StrKeys(x.lora)[i] = StrKey(x.lora)
    BY StrFacts
  <2>2. SaltPart(y, k) = StrKeys(y.salt)
    <3>1. k # 1 => SaltPart(y, k) = <<>>
      BY DEF SaltPart
    <3>2. k = 1
      BY <3>1
    <3> QED BY <3>2 DEF SaltPart
  <2>3. y.salt # Blank /\ SaltPart(y, k)[j] = StrKey(y.salt)
    BY <2>2, StrFacts
  <2>4. x.lora # y.salt
    <3>1. {p.lora : p \in Prompts} \cap {p.salt : p \in Prompts} \subseteq {Blank}
      BY HashInputs DEF PromptsOK, Blank
    <3>2. x.lora \in {p.lora : p \in Prompts} /\ y.salt \in {p.salt : p \in Prompts}
      OBVIOUS
    <3> SUFFICES ASSUME x.lora = y.salt PROVE FALSE
      OBVIOUS
    <3>3. x.lora \in {p.lora : p \in Prompts} \cap {p.salt : p \in Prompts}
      BY <3>2
    <3> QED BY <2>1, <3>1, <3>3
  <2> QED BY <2>1, <2>3, <2>4, StrKeyFacts
<1> DEFINE a == StrKeys(r.lora)
           m == ItemPart(r, k)
           s == SaltPart(r, k)
           b == EmbedPart(r, k)
           c == StrKeys(q.lora)
           n == ItemPart(q, k)
           t == SaltPart(q, k)
           d == EmbedPart(q, k)
           x == Keys(r, k)
<1>2. /\ Parts(x, a, m, s, b) /\ Parts(x, c, n, t, d) /\ Kinds(a, m, s, b) /\ Kinds(c, n, t, d)
  BY KeysParted
<1>3. /\ \A i \in 1 .. Len(a), j \in 1 .. Len(t) : a[i] # t[j]
      /\ \A i \in 1 .. Len(c), j \in 1 .. Len(s) : c[i] # s[j]
  BY <1>1
<1> HIDE DEF a, m, s, b, c, n, t, d, x
<1>4. /\ Len(a) = Len(c) /\ \A i \in 1 .. Len(a) : a[i] = c[i]
      /\ Len(m) = Len(n) /\ \A i \in 1 .. Len(m) : m[i] = n[i]
      /\ Len(s) = Len(t) /\ \A i \in 1 .. Len(s) : s[i] = t[i]
      /\ Len(b) = Len(d) /\ \A i \in 1 .. Len(b) : b[i] = d[i]
  BY <1>2, <1>3, PartsEqual
<1>5. ASSUME NEW u, NEW v, Len(StrKeys(u)) = Len(StrKeys(v)),
             \A i \in 1 .. Len(StrKeys(u)) : StrKeys(u)[i] = StrKeys(v)[i]
      PROVE  u = v
  BY <1>5, StrSame
<1>6. r.lora = q.lora
  BY <1>4, <1>5 DEF a, c
<1>7. k = 1 => r.salt = q.salt
  BY <1>4, <1>5 DEF s, t, SaltPart
<1>8. /\ (r.embeds = <<>>) <=> (q.embeds = <<>>)
      /\ r.embeds # <<>> => Embeds(r, k) = Embeds(q, k)
  <2>1. Len(b) = (IF r.embeds = <<>> THEN 0 ELSE 1) /\ Len(d) = (IF q.embeds = <<>> THEN 0 ELSE 1)
    BY DEF b, d, EmbedPart
  <2>2. (r.embeds = <<>>) <=> (q.embeds = <<>>)
    <3>1. Len(b) = Len(d)
      BY <1>4
    <3> QED BY <2>1, <3>1
  <2>3. ASSUME r.embeds # <<>> PROVE Embeds(r, k) = Embeds(q, k)
    <3>1. b = <<<<"bytes", Embeds(r, k)>>>> /\ d = <<<<"bytes", Embeds(q, k)>>>>
      BY <2>2, <2>3 DEF b, d, EmbedPart
    <3>2. b[1] = d[1]
      BY <1>4, <2>1, <2>3
    <3> QED BY <3>1, <3>2
  <2> QED BY <2>2, <2>3
<1> QED BY <1>4, <1>6, <1>7, <1>8 DEF m, n

-----------------------------------------------------------------------------
(* The keys of a block say what its positions stand for, and nothing more. *)

Positions(k) == (k - 1) * HBS + 1 .. k * HBS
EmbedAt(req, p) == IF p <= Len(req.embeds) THEN req.embeds[p] ELSE Blank

LEMMA ElementIn ==
  ASSUME NEW T, NEW s \in Seq(T), NEW i \in 1 .. Len(s)
  PROVE  s[i] \in T
OBVIOUS

LEMMA EmbedNotBlank ==
  ASSUME NEW req \in Prompts, NEW p \in 1 .. Len(req.embeds)
  PROVE  req.embeds[p] # Blank
<1> DEFINE T == STRING \ {""}
<1>1. req.embeds \in Seq(T)
  BY ItemFacts
<1>2. Blank \notin T
  BY DEF Blank
<1> HIDE DEF T
<1>3. req.embeds[p] \in T
  BY <1>1, ElementIn
<1> QED BY <1>2, <1>3

(* The embeddings of a block are those of its positions in the prompt.     *)
EmbedsTo(req, k, m) ==
  /\ Embeds(req, k) = [i \in 1 .. m |-> req.embeds[(k - 1) * HBS + i]]
  /\ m <= HBS
  /\ \A i \in 1 .. HBS : i <= m <=> (k - 1) * HBS + i <= Len(req.embeds)

LEMMA EmbedsAre ==
  ASSUME NEW req \in Prompts, NEW k \in Nat \ {0}
  PROVE  \E m \in Nat : EmbedsTo(req, k, m)
<1> DEFINE a == (k - 1) * HBS
           b == k * HBS
           e == req.embeds
           n == Len(req.embeds)
           T == STRING \ {""}
<1>1. a \in Nat /\ b \in Nat /\ a + HBS = b /\ HBS \in Nat
  BY BlockBounds, SizeNat
<1>2. e \in Seq(T) /\ n \in Nat
  BY ItemFacts
<1> HIDE DEF a, b, T
<1>3. CASE a <= n
  <2> DEFINE m == Smaller(b, n) - a
  <2>1. m \in Nat /\ Smaller(b, n) \in Nat /\ a <= Smaller(b, n) /\ Smaller(b, n) <= n
    BY <1>1, <1>2, <1>3 DEF Smaller
  <2>2. SubSeq(e, a + 1, Smaller(b, n)) = [i \in 1 .. m |-> e[a + i]]
    <3> HIDE DEF e, n
    <3>1. n = Len(e)
      BY DEF e, n
    <3> QED BY <1>1, <1>2, <2>1, <3>1, PieceFacts
  <2>3. m <= HBS /\ \A i \in 1 .. HBS : i <= m <=> a + i <= n
    BY <1>1, <1>2, <1>3 DEF Smaller
  <2>4. EmbedsTo(req, k, m)
    BY <2>2, <2>3 DEF EmbedsTo, Embeds, a, b
  <2> QED BY <2>1, <2>4
<1>4. CASE n < a
  <2>1. Smaller(b, n) = n /\ n < a + 1 /\ a + 1 \in Int /\ n \in Int
    BY <1>1, <1>2, <1>4 DEF Smaller
  <2>2. SubSeq(e, a + 1, Smaller(b, n)) = <<>>
    BY <2>1, SubSeqEmpty
  <2>3. SubSeq(e, a + 1, Smaller(b, n)) = [i \in 1 .. 0 |-> e[a + i]]
    BY <2>2
  <2>4. 0 <= HBS /\ \A i \in 1 .. HBS : i <= 0 <=> a + i <= n
    BY <1>1, <1>2, <1>4
  <2>5. EmbedsTo(req, k, 0)
    BY <2>3, <2>4 DEF EmbedsTo, Embeds, a, b
  <2> QED BY <2>5
<1> QED BY <1>1, <1>2, <1>3, <1>4

LEMMA PositionFacts ==
  ASSUME NEW k \in Nat \ {0}
  PROVE  /\ \A p \in Positions(k) : p - (k - 1) * HBS \in 1 .. HBS /\ p \in Nat \ {0}
         /\ \A i \in 1 .. HBS : (k - 1) * HBS + i \in Positions(k)
<1> DEFINE a == (k - 1) * HBS
           b == k * HBS
<1>1. a \in Nat /\ b \in Nat /\ a + HBS = b /\ HBS \in Nat
  BY BlockBounds, SizeNat
<1>2. Positions(k) = a + 1 .. b
  BY DEF Positions
<1> HIDE DEF a, b
<1>3. \A p \in Positions(k) : p - a \in 1 .. HBS /\ p \in Nat \ {0}
  BY <1>1, <1>2
<1>4. \A i \in 1 .. HBS : a + i \in Positions(k)
  BY <1>1, <1>2
<1> QED BY <1>3, <1>4 DEF a

(* Equal bytes of a block are equal embeddings at its positions.           *)
LEMMA EmbedsTell ==
  ASSUME NEW r \in Prompts, NEW q \in Prompts, NEW k \in Nat \ {0},
         (r.embeds = <<>>) <=> (q.embeds = <<>>),
         r.embeds # <<>> => Embeds(r, k) = Embeds(q, k)
  PROVE  \A p \in Positions(k) : EmbedAt(r, p) = EmbedAt(q, p)
<1>1. CASE r.embeds = <<>>
  <2>1. Len(r.embeds) = 0 /\ Len(q.embeds) = 0
    BY <1>1
  <2>2. \A p \in Positions(k) : ~(p <= 0)
    BY PositionFacts
  <2> QED BY <2>1, <2>2 DEF EmbedAt
<1>2. CASE r.embeds # <<>>
  <2>1. PICK m \in Nat : EmbedsTo(r, k, m)
    BY EmbedsAre
  <2>2. PICK n \in Nat : EmbedsTo(q, k, n)
    BY EmbedsAre
  <2> DEFINE a == (k - 1) * HBS
  <2>3. a \in Nat
    BY BlockBounds
  <2> HIDE DEF a
  <2>4. [i \in 1 .. m |-> r.embeds[a + i]] = [i \in 1 .. n |-> q.embeds[a + i]]
    BY <1>2, <2>1, <2>2 DEF EmbedsTo, a
  <2>5. 1 .. m = 1 .. n
    <3> DEFINE f == [i \in 1 .. m |-> r.embeds[a + i]]
               g == [i \in 1 .. n |-> q.embeds[a + i]]
    <3>1. DOMAIN f = 1 .. m /\ DOMAIN g = 1 .. n
      OBVIOUS
    <3>2. f = g
      BY <2>4
    <3> HIDE DEF f, g
    <3> QED BY <3>1, <3>2
  <2>6. \A i \in 1 .. m : r.embeds[a + i] = q.embeds[a + i]
    <3> SUFFICES ASSUME NEW i \in 1 .. m PROVE r.embeds[a + i] = q.embeds[a + i]
      OBVIOUS
    <3>1. [j \in 1 .. m |-> r.embeds[a + j]][i] = [j \in 1 .. n |-> q.embeds[a + j]][i]
      BY <2>4
    <3>2. i \in 1 .. n
      BY <2>5
    <3> QED BY <3>1, <3>2
  <2>7. ASSUME NEW p \in Positions(k) PROVE EmbedAt(r, p) = EmbedAt(q, p)
    <3> DEFINE i == p - a
    <3>1. i \in 1 .. HBS /\ p = a + i /\ p \in Nat
      BY <2>3, PositionFacts DEF a
    <3> HIDE DEF i
    <3>2. /\ i <= m <=> p <= Len(r.embeds)
          /\ i <= n <=> p <= Len(q.embeds)
      BY <3>1, <2>1, <2>2 DEF EmbedsTo, a
    <3>3. i \in 1 .. m <=> i \in 1 .. n
      BY <2>5
    <3>4. i <= m <=> i <= n
      BY <3>1, <3>3
    <3>5. i <= m => r.embeds[p] = q.embeds[p]
      BY <3>1, <2>6
    <3> QED BY <3>2, <3>4, <3>5 DEF EmbedAt
  <2> QED BY <2>7
<1> QED BY <1>1, <1>2

(* Equal embeddings at the positions of a block are equal bytes.           *)
LEMMA EmbedsTold ==
  ASSUME NEW r \in Prompts, NEW q \in Prompts, NEW k \in Nat \ {0},
         \A p \in Positions(k) : EmbedAt(r, p) = EmbedAt(q, p)
  PROVE  Embeds(r, k) = Embeds(q, k)
<1>1. PICK m \in Nat : EmbedsTo(r, k, m)
  BY EmbedsAre
<1>2. PICK n \in Nat : EmbedsTo(q, k, n)
  BY EmbedsAre
<1> DEFINE a == (k - 1) * HBS
<1>3. a \in Nat /\ HBS \in Nat
  BY BlockBounds, SizeNat
<1>4. /\ Len(r.embeds) \in Nat /\ Len(q.embeds) \in Nat
  BY ItemFacts
<1> HIDE DEF a
<1>5. ASSUME NEW i \in 1 .. HBS
      PROVE  /\ i <= m <=> i <= n
             /\ i <= m => r.embeds[a + i] = q.embeds[a + i]
  <2>1. a + i \in Positions(k) /\ a + i \in Nat \ {0}
    <3>1. (k - 1) * HBS + i \in Positions(k)
      BY PositionFacts
    <3> QED BY <3>1, PositionFacts DEF a
  <2>2. EmbedAt(r, a + i) = EmbedAt(q, a + i)
    BY <2>1
  <2>3. /\ i <= m <=> a + i <= Len(r.embeds)
        /\ i <= n <=> a + i <= Len(q.embeds)
    BY <1>1, <1>2 DEF EmbedsTo, a
  <2>4. /\ a + i <= Len(r.embeds) => r.embeds[a + i] # Blank
        /\ a + i <= Len(q.embeds) => q.embeds[a + i] # Blank
    BY <2>1, <1>4, EmbedNotBlank
  <2>5. /\ a + i <= Len(r.embeds) <=> a + i <= Len(q.embeds)
        /\ a + i <= Len(r.embeds) => r.embeds[a + i] = q.embeds[a + i]
    BY <2>2, <2>4 DEF EmbedAt
  <2> QED BY <2>3, <2>5
<1>6. m <= HBS /\ n <= HBS
  BY <1>1, <1>2 DEF EmbedsTo
<1>7. m = n
  <2>1. ~(m < n)
    <3> SUFFICES ASSUME m < n PROVE FALSE
      OBVIOUS
    <3>1. m + 1 \in 1 .. HBS /\ m + 1 <= n /\ ~(m + 1 <= m)
      BY <1>3, <1>6
    <3> QED BY <3>1, <1>5
  <2>2. ~(n < m)
    <3> SUFFICES ASSUME n < m PROVE FALSE
      OBVIOUS
    <3>1. n + 1 \in 1 .. HBS /\ n + 1 <= m /\ ~(n + 1 <= n)
      BY <1>3, <1>6
    <3> QED BY <3>1, <1>5
  <2> QED BY <2>1, <2>2
<1>8. \A i \in 1 .. m : r.embeds[a + i] = q.embeds[a + i]
  BY <1>3, <1>5, <1>6
<1>9. [i \in 1 .. m |-> r.embeds[a + i]] = [i \in 1 .. n |-> q.embeds[a + i]]
  BY <1>7, <1>8
<1> QED BY <1>1, <1>2, <1>9 DEF EmbedsTo, a

(* Two increasing lists of the same elements are one list.                 *)
Listed(m, f, u, n, g, v) ==
  /\ m \in Nat /\ n \in Nat /\ u \in [1 .. m -> Nat] /\ v \in [1 .. n -> Nat]
  /\ \A i \in 1 .. m : \A j \in 1 .. m : i < j => u[i] < u[j]
  /\ \A i \in 1 .. n : \A j \in 1 .. n : i < j => v[i] < v[j]
  /\ \A i \in 1 .. m : \E j \in 1 .. n : f[i] = g[j] /\ u[i] = v[j]
  /\ \A j \in 1 .. n : \E i \in 1 .. m : g[j] = f[i] /\ v[j] = u[i]

(* Increasing lists of one set of pairs agree one element further on.      *)
LEMMA ListedStep ==
  ASSUME NEW m, NEW f, NEW u, NEW n, NEW g, NEW v, Listed(m, f, u, n, g, v),
         NEW k \in 1 .. m, \A j \in 1 .. k - 1 : j <= n /\ u[j] = v[j]
  PROVE  k <= n /\ f[k] = g[k] /\ u[k] = v[k]
<1>1. m \in Nat /\ n \in Nat /\ k \in Nat
  BY DEF Listed
<1>2. PICK j \in 1 .. n : f[k] = g[j] /\ u[k] = v[j]
  BY DEF Listed
<1>3. k <= j
  <2> SUFFICES ASSUME j < k PROVE FALSE
    BY <1>1
  <2>1. j \in 1 .. k - 1 /\ j \in 1 .. m
    BY <1>1
  <2>2. u[j] = v[j] /\ u[j] < u[k] /\ u[k] \in Nat
    BY <2>1 DEF Listed
  <2> QED BY <1>2, <2>2
<1>4. k \in 1 .. n
  BY <1>1, <1>3
<1>5. PICK i \in 1 .. m : g[k] = f[i] /\ v[k] = u[i]
  BY <1>4 DEF Listed
<1>6. k <= i
  <2> SUFFICES ASSUME i < k PROVE FALSE
    BY <1>1
  <2>1. i \in 1 .. k - 1
    BY <1>1
  <2>2. i \in 1 .. n /\ u[i] = v[i]
    BY <1>1, <1>4, <2>1
  <2>3. v[i] < v[k] /\ v[k] \in Nat
    BY <1>4, <2>2 DEF Listed
  <2> QED BY <1>5, <2>2, <2>3
<1>7. u[k] \in Nat /\ u[i] \in Nat /\ v[k] \in Nat /\ v[j] \in Nat
  BY <1>4 DEF Listed
<1>8. k = i \/ u[k] < u[i]
  BY <1>1, <1>6 DEF Listed
<1>9. k = j \/ v[k] < v[j]
  BY <1>1, <1>3, <1>4 DEF Listed
<1>10. k = j
  BY <1>2, <1>5, <1>7, <1>8, <1>9
<1> QED BY <1>2, <1>4, <1>10

LEMMA SortedPrefix ==
  ASSUME NEW m, NEW f, NEW u, NEW n, NEW g, NEW v, Listed(m, f, u, n, g, v)
  PROVE  \A k \in 1 .. m : k <= n /\ f[k] = g[k] /\ u[k] = v[k]
<1> DEFINE H == {k \in Nat : k \in 1 .. m => k <= n /\ f[k] = g[k] /\ u[k] = v[k]}
<1>0. m \in Nat
  BY DEF Listed
<1>1. ASSUME NEW k \in Nat, \A j \in Nat : j < k => j \in H PROVE k \in H
  <2> SUFFICES ASSUME k \in 1 .. m PROVE k <= n /\ f[k] = g[k] /\ u[k] = v[k]
    OBVIOUS
  <2>1. \A j \in 1 .. k - 1 : j \in Nat /\ j < k /\ j \in 1 .. m
    BY <1>0
  <2>2. \A j \in 1 .. k - 1 : j <= n /\ u[j] = v[j]
    BY <1>1, <2>1
  <2> QED BY <2>2, ListedStep
<1>2. H \in SUBSET Nat
  OBVIOUS
<1> HIDE DEF H
<1>3. \A k \in Nat : k \in H
  BY <1>1, <1>2, StrongInduction
<1> QED BY <1>0, <1>3 DEF H

(* Increasing lists of the same pairs are the same list.                   *)
LEMMA SortedSame ==
  ASSUME NEW m, NEW f, NEW u, NEW n, NEW g, NEW v, Listed(m, f, u, n, g, v)
  PROVE  m = n /\ \A k \in 1 .. m : f[k] = g[k] /\ u[k] = v[k]
<1>0. m \in Nat /\ n \in Nat
  BY DEF Listed
<1>1. \A k \in 1 .. m : k <= n /\ f[k] = g[k] /\ u[k] = v[k]
  BY SortedPrefix
<1>2. Listed(n, g, v, m, f, u)
  BY DEF Listed
<1>3. \A k \in 1 .. n : k <= m
  BY <1>2, SortedPrefix
<1>4. m # 0 => m <= n
  BY <1>0, <1>1
<1>5. n # 0 => n <= m
  BY <1>0, <1>3
<1> QED BY <1>0, <1>1, <1>4, <1>5

(* What a position stands for in the items over it.                        *)
Id(req, i) == req.mm_features[i].identifier
OverAt(req, p) == {i \in 1 .. NumItems(req) : Off(req, i) < p /\ p <= Ends(req, i)}
ItemsAt(req, p) == {<<Id(req, i), p - Off(req, i)>> : i \in OverAt(req, p)}
OverBlock(req, k) == Over(req, (k - 1) * HBS, k * HBS)

(* The items over a block are those over one of its positions.             *)
LEMMA OverBlockFacts ==
  ASSUME NEW req \in Prompts, NEW k \in Nat \ {0}
  PROVE  /\ \A p \in Positions(k) : OverAt(req, p) \subseteq OverBlock(req, k)
         /\ \A i \in OverBlock(req, k) : \E p \in Positions(k) : i \in OverAt(req, p)
<1> DEFINE a == (k - 1) * HBS
           b == k * HBS
<1>1. a \in Nat /\ b \in Nat /\ a < b
  BY BlockBounds
<1>2. /\ NumItems(req) \in Nat
      /\ \A i \in 1 .. NumItems(req) : /\ Off(req, i) \in Nat /\ Ends(req, i) \in Nat
                                       /\ Off(req, i) < Ends(req, i)
  BY ItemFacts
<1>3. Positions(k) = a + 1 .. b /\ OverBlock(req, k) = Over(req, a, b)
  BY DEF Positions, OverBlock
<1> HIDE DEF a, b
<1>4. ASSUME NEW p \in a + 1 .. b, NEW i \in OverAt(req, p) PROVE i \in Over(req, a, b)
  BY <1>1, <1>2 DEF OverAt, Over
<1>5. ASSUME NEW i \in Over(req, a, b) PROVE \E p \in a + 1 .. b : i \in OverAt(req, p)
  <2> DEFINE p == IF Off(req, i) < a THEN a + 1 ELSE Off(req, i) + 1
  <2>1. i \in 1 .. NumItems(req) /\ a < Ends(req, i) /\ Off(req, i) < b
    BY DEF Over
  <2>2. p \in a + 1 .. b /\ Off(req, i) < p /\ p <= Ends(req, i)
    BY <1>1, <1>2, <2>1
  <2> HIDE DEF p
  <2> QED BY <2>1, <2>2 DEF OverAt
<1> QED BY <1>3, <1>4, <1>5

(* Items of two prompts over the same positions.                           *)
SameItem(r, i, q, j) ==
  Id(r, i) = Id(q, j) /\ Off(r, i) = Off(q, j) /\ Ends(r, i) = Ends(q, j)

(* Items of one identifier and one offset end at one place.                *)
LEMMA SameIdSameEnd ==
  ASSUME NEW r \in Prompts, NEW q \in Prompts, NEW i \in 1 .. NumItems(r), NEW j \in 1 .. NumItems(q),
         Id(r, i) = Id(q, j), Off(r, i) = Off(q, j)
  PROVE  SameItem(r, i, q, j)
<1>1. i \in DOMAIN r.mm_features /\ j \in DOMAIN q.mm_features
  BY ItemFacts
<1>2. r.mm_features[i].length = q.mm_features[j].length
  BY <1>1, HashInputs DEF PromptsOK, Id
<1> QED BY <1>2 DEF SameItem, Ends, Off

(* An item in the keys of one block is in equal keys, at the same place.   *)
LEMMA KeyItem ==
  ASSUME NEW r \in Prompts, NEW q \in Prompts, NEW k \in Nat \ {0},
         Len(ItemPart(r, k)) = Len(ItemPart(q, k)),
         \A n \in 1 .. Len(ItemPart(r, k)) : ItemPart(r, k)[n] = ItemPart(q, k)[n],
         NEW i \in OverBlock(r, k)
  PROVE  \E j \in OverBlock(q, k) : SameItem(r, i, q, j)
<1> DEFINE a == (k - 1) * HBS
<1>1. PICK f \in Nat, l \in Nat :
        /\ f # 0 /\ f <= l + 1 /\ l <= NumItems(r)
        /\ OverBlock(r, k) = f .. l /\ ItemPart(r, k) = ItemKeys(r, a, f, l)
  BY ItemPartFacts DEF OverBlock
<1>2. PICK g \in Nat, h \in Nat :
        /\ g # 0 /\ g <= h + 1 /\ h <= NumItems(q)
        /\ OverBlock(q, k) = g .. h /\ ItemPart(q, k) = ItemKeys(q, a, g, h)
  BY ItemPartFacts DEF OverBlock
<1>3. a \in Nat /\ NumItems(r) \in Nat /\ NumItems(q) \in Nat
  BY BlockBounds, ItemFacts
<1> HIDE DEF a
<1>4. Len(ItemPart(r, k)) = l - f + 1 /\ Len(ItemPart(q, k)) = h - g + 1
  BY <1>1, <1>2 DEF ItemKeys
<1> DEFINE n == i - f + 1
           j == g + n - 1
<1>5. /\ i \in f .. l /\ n \in 1 .. l - f + 1 /\ n \in 1 .. h - g + 1 /\ f + n - 1 = i /\ j \in g .. h
      /\ i \in 1 .. NumItems(r) /\ j \in 1 .. NumItems(q)
  <2>1. i \in f .. l /\ l - f + 1 = h - g + 1
    BY <1>1, <1>4
  <2>2. /\ n \in 1 .. l - f + 1 /\ n \in 1 .. h - g + 1 /\ f + n - 1 = i /\ j \in g .. h
    BY <1>1, <1>2, <2>1
  <2>3. i \in 1 .. NumItems(r) /\ j \in 1 .. NumItems(q)
    BY <1>1, <1>2, <1>3, <2>1, <2>2
  <2> QED BY <2>1, <2>2, <2>3
<1>6. /\ ItemPart(r, k)[n] = MmKey(r.mm_features[f + n - 1], a)
      /\ ItemPart(q, k)[n] = MmKey(q.mm_features[j], a)
  BY <1>1, <1>2, <1>5 DEF ItemKeys
<1>7. ItemPart(r, k)[n] = ItemPart(q, k)[n]
  BY <1>4, <1>5
<1> HIDE DEF n, j
<1>8. MmKey(r.mm_features[i], a) = MmKey(q.mm_features[j], a)
  BY <1>5, <1>6, <1>7
<1>9. Id(r, i) = Id(q, j) /\ Off(r, i) - a = Off(q, j) - a
  BY <1>8 DEF MmKey, Id, Off
<1>10. Off(r, i) \in Nat /\ Off(q, j) \in Nat
  BY <1>5, ItemFacts
<1>11. Off(r, i) = Off(q, j)
  BY <1>3, <1>9, <1>10
<1>12. SameItem(r, i, q, j)
  BY <1>5, <1>9, <1>11, SameIdSameEnd
<1> QED BY <1>2, <1>5, <1>12

LEMMA ItemsTellOneWay ==
  ASSUME NEW r \in Prompts, NEW q \in Prompts, NEW k \in Nat \ {0},
         Len(ItemPart(r, k)) = Len(ItemPart(q, k)),
         \A n \in 1 .. Len(ItemPart(r, k)) : ItemPart(r, k)[n] = ItemPart(q, k)[n],
         NEW p \in Positions(k)
  PROVE  ItemsAt(r, p) \subseteq ItemsAt(q, p)
<1> SUFFICES ASSUME NEW i \in OverAt(r, p)
             PROVE  <<Id(r, i), p - Off(r, i)>> \in ItemsAt(q, p)
  BY DEF ItemsAt
<1>1. i \in OverBlock(r, k)
  BY OverBlockFacts
<1>2. PICK j \in OverBlock(q, k) : SameItem(r, i, q, j)
  BY <1>1, KeyItem
<1>3. j \in OverAt(q, p)
  BY <1>2 DEF SameItem, OverAt, OverBlock, Over
<1>4. <<Id(q, j), p - Off(q, j)>> \in ItemsAt(q, p)
  BY <1>3 DEF ItemsAt
<1> QED BY <1>2, <1>4 DEF SameItem

(* Equal item keys of a block: the same items at its positions.            *)
LEMMA ItemsTell ==
  ASSUME NEW r \in Prompts, NEW q \in Prompts, NEW k \in Nat \ {0},
         Len(ItemPart(r, k)) = Len(ItemPart(q, k)),
         \A n \in 1 .. Len(ItemPart(r, k)) : ItemPart(r, k)[n] = ItemPart(q, k)[n]
  PROVE  \A p \in Positions(k) : ItemsAt(r, p) = ItemsAt(q, p)
<1>1. \A n \in 1 .. Len(ItemPart(q, k)) : ItemPart(q, k)[n] = ItemPart(r, k)[n]
  OBVIOUS
<1>2. ASSUME NEW p \in Positions(k) PROVE ItemsAt(r, p) = ItemsAt(q, p)
  <2>1. ItemsAt(r, p) \subseteq ItemsAt(q, p)
    BY ItemsTellOneWay
  <2>2. ItemsAt(q, p) \subseteq ItemsAt(r, p)
    BY <1>1, ItemsTellOneWay
  <2> QED BY <2>1, <2>2
<1> QED BY <1>2

(* An item over a block is told by a position of the block it is over.     *)
LEMMA ItemTold ==
  ASSUME NEW r \in Prompts, NEW q \in Prompts, NEW k \in Nat \ {0},
         \A p \in Positions(k) : ItemsAt(r, p) = ItemsAt(q, p),
         NEW i \in OverBlock(r, k)
  PROVE  \E j \in OverBlock(q, k) : Id(r, i) = Id(q, j) /\ Off(r, i) = Off(q, j)
<1>1. PICK p \in Positions(k) : i \in OverAt(r, p)
  BY OverBlockFacts
<1>2. <<Id(r, i), p - Off(r, i)>> \in ItemsAt(q, p)
  BY <1>1 DEF ItemsAt
<1>3. PICK j \in OverAt(q, p) : <<Id(r, i), p - Off(r, i)>> = <<Id(q, j), p - Off(q, j)>>
  BY <1>2 DEF ItemsAt
<1>4. Id(r, i) = Id(q, j) /\ p - Off(r, i) = p - Off(q, j)
  BY <1>3
<1>5. j \in OverBlock(q, k)
  BY <1>3, OverBlockFacts
<1>6. p \in Nat /\ Off(r, i) \in Nat /\ Off(q, j) \in Nat
  BY <1>1, <1>3, ItemFacts, PositionFacts DEF OverAt
<1>7. Off(r, i) = Off(q, j)
  BY <1>4, <1>6
<1> QED BY <1>4, <1>5, <1>7

Ids(req, f, m) == [n \in 1 .. m |-> Id(req, f + n - 1)]
Offs(req, f, m) == [n \in 1 .. m |-> Off(req, f + n - 1)]

LEMMA OffsFacts ==
  ASSUME NEW req \in Prompts, NEW f \in Nat \ {0}, NEW l \in Nat, f <= l + 1, l <= NumItems(req)
  PROVE  /\ l - f + 1 \in Nat /\ Offs(req, f, l - f + 1) \in [1 .. l - f + 1 -> Nat]
         /\ \A i \in 1 .. l - f + 1 : \A j \in 1 .. l - f + 1 :
              i < j => Offs(req, f, l - f + 1)[i] < Offs(req, f, l - f + 1)[j]
<1> DEFINE m == l - f + 1
<1>0. NumItems(req) \in Nat
  BY ItemFacts
<1>1. m \in Nat /\ \A n \in 1 .. m : f + n - 1 \in 1 .. NumItems(req)
  BY <1>0
<1>2. /\ \A i \in 1 .. NumItems(req) : Off(req, i) \in Nat
      /\ \A i, j \in 1 .. NumItems(req) : i < j => Off(req, i) < Off(req, j)
  BY ItemFacts
<1> HIDE DEF m
<1>3. Offs(req, f, m) \in [1 .. m -> Nat]
  BY <1>1, <1>2 DEF Offs
<1>4. ASSUME NEW i \in 1 .. m, NEW j \in 1 .. m, i < j
      PROVE  Offs(req, f, m)[i] < Offs(req, f, m)[j]
  <2>1. /\ f + i - 1 \in 1 .. NumItems(req) /\ f + j - 1 \in 1 .. NumItems(req)
        /\ f + i - 1 < f + j - 1
    <3>1. i \in Nat /\ j \in Nat
      BY <1>1
    <3> QED BY <1>1, <1>4, <3>1
  <2>2. Off(req, f + i - 1) < Off(req, f + j - 1)
    BY <1>2, <2>1
  <2> QED BY <2>2 DEF Offs
<1> QED BY <1>1, <1>3, <1>4 DEF m

(* The same items at the positions of a block: equal item keys.            *)
LEMMA ItemsTold ==
  ASSUME NEW r \in Prompts, NEW q \in Prompts, NEW k \in Nat \ {0},
         \A p \in Positions(k) : ItemsAt(r, p) = ItemsAt(q, p)
  PROVE  ItemPart(r, k) = ItemPart(q, k)
<1> DEFINE a == (k - 1) * HBS
<1>1. PICK f \in Nat, l \in Nat :
        /\ f # 0 /\ f <= l + 1 /\ l <= NumItems(r)
        /\ OverBlock(r, k) = f .. l /\ ItemPart(r, k) = ItemKeys(r, a, f, l)
  BY ItemPartFacts DEF OverBlock
<1>2. PICK g \in Nat, h \in Nat :
        /\ g # 0 /\ g <= h + 1 /\ h <= NumItems(q)
        /\ OverBlock(q, k) = g .. h /\ ItemPart(q, k) = ItemKeys(q, a, g, h)
  BY ItemPartFacts DEF OverBlock
<1> HIDE DEF a
<1> DEFINE m == l - f + 1
           n == h - g + 1
<1>3. /\ m \in Nat /\ Offs(r, f, m) \in [1 .. m -> Nat]
      /\ \A i \in 1 .. m : \A j \in 1 .. m : i < j => Offs(r, f, m)[i] < Offs(r, f, m)[j]
  BY <1>1, OffsFacts
<1>4. /\ n \in Nat /\ Offs(q, g, n) \in [1 .. n -> Nat]
      /\ \A i \in 1 .. n : \A j \in 1 .. n : i < j => Offs(q, g, n)[i] < Offs(q, g, n)[j]
  BY <1>2, OffsFacts
<1>5. ASSUME NEW i \in 1 .. m
      PROVE  \E j \in 1 .. n : Ids(r, f, m)[i] = Ids(q, g, n)[j] /\ Offs(r, f, m)[i] = Offs(q, g, n)[j]
  <2> DEFINE y == f + i - 1
  <2>1. y \in f .. l /\ y \in OverBlock(r, k)
    BY <1>1, <1>2
  <2> HIDE DEF y
  <2>2. PICK x \in OverBlock(q, k) : Id(r, y) = Id(q, x) /\ Off(r, y) = Off(q, x)
    BY <2>1, ItemTold
  <2> DEFINE z == x - g + 1
  <2>3. z \in 1 .. n /\ g + z - 1 = x
    BY <1>1, <1>2, <2>2
  <2> HIDE DEF m, n, z
  <2>4. /\ Ids(r, f, m)[i] = Id(r, y) /\ Offs(r, f, m)[i] = Off(r, y)
        /\ Ids(q, g, n)[z] = Id(q, x) /\ Offs(q, g, n)[z] = Off(q, x)
    BY <2>3 DEF Ids, Offs, y
  <2> QED BY <2>2, <2>3, <2>4
<1>6. ASSUME NEW j \in 1 .. n
      PROVE  \E i \in 1 .. m : Ids(q, g, n)[j] = Ids(r, f, m)[i] /\ Offs(q, g, n)[j] = Offs(r, f, m)[i]
  <2>0. \A p \in Positions(k) : ItemsAt(q, p) = ItemsAt(r, p)
    OBVIOUS
  <2> DEFINE y == g + j - 1
  <2>1. y \in g .. h /\ y \in OverBlock(q, k)
    BY <1>1, <1>2
  <2> HIDE DEF y
  <2>2. PICK x \in OverBlock(r, k) : Id(q, y) = Id(r, x) /\ Off(q, y) = Off(r, x)
    BY <2>0, <2>1, ItemTold
  <2> DEFINE z == x - f + 1
  <2>3. z \in 1 .. m /\ f + z - 1 = x
    BY <1>1, <1>2, <2>2
  <2> HIDE DEF m, n, z
  <2>4. /\ Ids(q, g, n)[j] = Id(q, y) /\ Offs(q, g, n)[j] = Off(q, y)
        /\ Ids(r, f, m)[z] = Id(r, x) /\ Offs(r, f, m)[z] = Off(r, x)
    BY <2>3 DEF Ids, Offs, y
  <2> QED BY <2>2, <2>3, <2>4
<1> HIDE DEF m, n
<1>7. Listed(m, Ids(r, f, m), Offs(r, f, m), n, Ids(q, g, n), Offs(q, g, n))
  BY <1>3, <1>4, <1>5, <1>6 DEF Listed
<1>8. /\ m = n
      /\ \A i \in 1 .. m : /\ Ids(r, f, m)[i] = Ids(q, g, n)[i]
                           /\ Offs(r, f, m)[i] = Offs(q, g, n)[i]
  BY <1>7, SortedSame
<1>9. ASSUME NEW i \in 1 .. m
      PROVE  MmKey(r.mm_features[f + i - 1], a) = MmKey(q.mm_features[g + i - 1], a)
  <2>1. Id(r, f + i - 1) = Id(q, g + i - 1) /\ Off(r, f + i - 1) = Off(q, g + i - 1)
    BY <1>8 DEF Ids, Offs
  <2> QED BY <2>1 DEF MmKey, Id, Off
<1>10. ItemKeys(r, a, f, l) = [i \in 1 .. m |-> MmKey(r.mm_features[f + i - 1], a)]
  BY DEF ItemKeys, m
<1>11. ItemKeys(q, a, g, h) = [i \in 1 .. n |-> MmKey(q.mm_features[g + i - 1], a)]
  BY DEF ItemKeys, n
<1>12. ItemKeys(r, a, f, l) = ItemKeys(q, a, g, h)
  BY <1>8, <1>9, <1>10, <1>11
<1> QED BY <1>1, <1>2, <1>12

-----------------------------------------------------------------------------
(* What a block hash says of the prefix that ends at its block.            *)

(* Equal token lists of a block are equal tokens at its positions.         *)
LEMMA TokensTell ==
  ASSUME NEW t \in Seq(Nat), NEW u \in Seq(Nat), NEW k \in Nat \ {0},
         k <= LastBlock(t), k <= LastBlock(u)
  PROVE  Tokens(t, k) = Tokens(u, k) <=> \A p \in Positions(k) : t[p] = u[p]
<1> DEFINE a == (k - 1) * HBS
           b == k * HBS
           f == [i \in 1 .. b - a |-> t[a + i]]
           g == [i \in 1 .. b - a |-> u[a + i]]
<1>1. a \in Nat /\ b \in Nat /\ a < b
  BY BlockBounds
<1>2. b <= Len(t) /\ b <= Len(u)
  BY FullFacts
<1>3. Positions(k) = a + 1 .. b
  BY DEF Positions
<1>4. Tokens(t, k) = SubSeq(t, a + 1, b) /\ Tokens(u, k) = SubSeq(u, a + 1, b)
  BY DEF Tokens
<1> HIDE DEF a, b
<1>5. SubSeq(t, a + 1, b) = f /\ SubSeq(u, a + 1, b) = g
  BY <1>1, <1>2, PieceFacts
<1>6. ASSUME f = g, NEW p \in a + 1 .. b PROVE t[p] = u[p]
  <2>1. p - a \in 1 .. b - a /\ a + (p - a) = p
    BY <1>1
  <2>2. f[p - a] = g[p - a]
    BY <1>6
  <2> QED BY <2>1, <2>2
<1>7. ASSUME \A p \in a + 1 .. b : t[p] = u[p] PROVE f = g
  <2>1. \A i \in 1 .. b - a : a + i \in a + 1 .. b
    BY <1>1
  <2> QED BY <1>7, <2>1
<1> HIDE DEF f, g
<1> QED BY <1>3, <1>4, <1>5, <1>6, <1>7

LEMMA AtOf ==
  ASSUME NEW r \in Requests, request[r] \in Prompts, NEW p
  PROVE  At(r, p) = <<all_token_ids[r][p], ItemsAt(request[r], p), EmbedAt(request[r], p)>>
<1>1. DOMAIN request[r].mm_features = 1 .. NumItems(request[r])
  BY ItemFacts
<1> QED BY <1>1 DEF At, ItemsAt, EmbedAt, OverAt, Off, Ends, Id, Blank

LEMMA AtSame ==
  ASSUME NEW r \in Requests, NEW q \in Requests, request[r] \in Prompts, request[q] \in Prompts, NEW p
  PROVE  At(r, p) = At(q, p) <=> /\ all_token_ids[r][p] = all_token_ids[q][p]
                                 /\ ItemsAt(request[r], p) = ItemsAt(request[q], p)
                                 /\ EmbedAt(request[r], p) = EmbedAt(request[q], p)
<1>1. /\ At(r, p) = <<all_token_ids[r][p], ItemsAt(request[r], p), EmbedAt(request[r], p)>>
      /\ At(q, p) = <<all_token_ids[q][p], ItemsAt(request[q], p), EmbedAt(request[q], p)>>
  BY AtOf
<1> QED BY <1>1

(* A request with a k-th hash has arrived, and its hash is made of these.  *)
LEMMA HashOf ==
  ASSUME HashInv, NEW r \in Requests, NEW k \in DOMAIN block_hashes[r]
  PROVE  /\ request[r] \in Prompts /\ all_token_ids[r] \in Seq(Nat)
         /\ k \in Nat \ {0} /\ k <= LastBlock(all_token_ids[r])
         /\ DOMAIN block_hashes[r] = 1 .. LastBlock(all_token_ids[r])
         /\ LastBlock(all_token_ids[r]) \in Nat /\ Len(block_hashes[r]) = LastBlock(all_token_ids[r])
         /\ block_hashes[r][k] =
              Triple(request[r], all_token_ids[r],
                     IF k = 1 THEN NONE_HASH ELSE block_hashes[r][k - 1], k)
<1>1. request[r] # NoPrompt
  <2> SUFFICES ASSUME request[r] = NoPrompt PROVE FALSE
    OBVIOUS
  <2>1. block_hashes[r] = <<>>
    BY DEF HashInv
  <2> QED BY <2>1
<1>2. request[r] \in Prompts /\ all_token_ids[r] \in Seq(Nat) /\ Arrived(r)
  BY <1>1 DEF HashInv
<1>3. LastBlock(all_token_ids[r]) \in Nat
  BY <1>2, FullFacts
<1>4. Hashed(request[r], all_token_ids[r], block_hashes[r])
  BY <1>2 DEF Arrived
<1>5. DOMAIN block_hashes[r] = 1 .. LastBlock(all_token_ids[r]) /\ Len(block_hashes[r]) = LastBlock(all_token_ids[r])
  BY <1>4 DEF Hashed
<1>6. block_hashes[r][k] = Triple(request[r], all_token_ids[r],
                                  IF k = 1 THEN NONE_HASH ELSE block_hashes[r][k - 1], k)
  BY <1>4, <1>5 DEF Hashed
<1>7. k \in Nat \ {0} /\ k <= LastBlock(all_token_ids[r])
  BY <1>3, <1>5
<1> QED BY <1>2, <1>3, <1>5, <1>6, <1>7

LEMMA TripleFacts ==
  ASSUME NEW x, NEW t, NEW a, NEW k
  PROVE  /\ Triple(x, t, a, k)[1] = a /\ Triple(x, t, a, k)[2] = Tokens(t, k)
         /\ Triple(x, t, a, k)[3] = Keys(x, k)
         /\ Triple(x, t, a, k) # NONE_HASH
BY DEF Triple, NONE_HASH

LEMMA TripleSame ==
  ASSUME NEW x, NEW t, NEW a, NEW y, NEW u, NEW b, NEW k, NEW j,
         Triple(x, t, a, k) = Triple(y, u, b, j)
  PROVE  a = b /\ Tokens(t, k) = Tokens(u, j) /\ Keys(x, k) = Keys(y, j)
<1>1. /\ Triple(x, t, a, k)[1] = a /\ Triple(x, t, a, k)[2] = Tokens(t, k)
      /\ Triple(x, t, a, k)[3] = Keys(x, k)
  BY TripleFacts
<1>2. /\ Triple(y, u, b, j)[1] = b /\ Triple(y, u, b, j)[2] = Tokens(u, j)
      /\ Triple(y, u, b, j)[3] = Keys(y, j)
  BY TripleFacts
<1> QED BY <1>1, <1>2

(* Same tokens and keys in a block: the same at each of its positions.     *)
LEMMA BlockTells ==
  ASSUME HashInv, NEW r \in Requests, NEW q \in Requests,
         NEW k \in DOMAIN block_hashes[r], k \in DOMAIN block_hashes[q],
         Tokens(all_token_ids[r], k) = Tokens(all_token_ids[q], k),
         Keys(request[r], k) = Keys(request[q], k)
  PROVE  /\ request[r].lora = request[q].lora
         /\ k = 1 => request[r].salt = request[q].salt
         /\ \A p \in Positions(k) : At(r, p) = At(q, p)
<1> DEFINE x == request[r]
           y == request[q]
<1>1. /\ x \in Prompts /\ y \in Prompts /\ k \in Nat \ {0}
      /\ all_token_ids[r] \in Seq(Nat) /\ all_token_ids[q] \in Seq(Nat)
      /\ k <= LastBlock(all_token_ids[r]) /\ k <= LastBlock(all_token_ids[q])
  BY HashOf
<1>2. \A p \in Positions(k) : all_token_ids[r][p] = all_token_ids[q][p]
  BY <1>1, TokensTell
<1> HIDE DEF x, y
<1>3. Keys(x, k) = Keys(y, k)
  BY DEF x, y
<1>4. /\ x.lora = y.lora /\ (k = 1 => x.salt = y.salt)
      /\ Len(ItemPart(x, k)) = Len(ItemPart(y, k))
      /\ \A i \in 1 .. Len(ItemPart(x, k)) : ItemPart(x, k)[i] = ItemPart(y, k)[i]
      /\ (x.embeds = <<>>) <=> (y.embeds = <<>>)
      /\ x.embeds # <<>> => Embeds(x, k) = Embeds(y, k)
  BY <1>1, <1>3, KeysEqual
<1>5. \A p \in Positions(k) : ItemsAt(x, p) = ItemsAt(y, p)
  BY <1>1, <1>4, ItemsTell
<1>6. \A p \in Positions(k) : EmbedAt(x, p) = EmbedAt(y, p)
  BY <1>1, <1>4, EmbedsTell
<1>7. ASSUME NEW p \in Positions(k) PROVE At(r, p) = At(q, p)
  BY <1>1, <1>2, <1>5, <1>6, AtSame DEF x, y
<1> QED BY <1>4, <1>7 DEF x, y

LEMMA PrefixPositions ==
  ASSUME NEW k \in Nat \ {0}
  PROVE  /\ 1 \in 1 .. k * HBS
         /\ \A p \in 1 .. k * HBS : p \in 1 .. (k - 1) * HBS \/ p \in Positions(k)
         /\ Positions(k) \subseteq 1 .. k * HBS /\ 1 .. (k - 1) * HBS \subseteq 1 .. k * HBS
<1> DEFINE a == (k - 1) * HBS
           b == k * HBS
<1>1. a \in Nat /\ b \in Nat /\ a < b /\ Positions(k) = a + 1 .. b
  BY BlockBounds DEF Positions
<1> HIDE DEF a, b
<1>2. 1 \in 1 .. b /\ \A p \in 1 .. b : p \in 1 .. a \/ p \in Positions(k)
  BY <1>1
<1>3. Positions(k) \subseteq 1 .. b /\ 1 .. a \subseteq 1 .. b
  BY <1>1
<1> QED BY <1>2, <1>3 DEF a, b

(* The same prefix up to the end of a block: the same tokens and keys.     *)
LEMMA BlockTold ==
  ASSUME HashInv, NEW r \in Requests, NEW q \in Requests,
         NEW k \in DOMAIN block_hashes[r], k \in DOMAIN block_hashes[q],
         SamePrefix(r, q, k * HBS)
  PROVE  /\ Tokens(all_token_ids[r], k) = Tokens(all_token_ids[q], k)
         /\ Keys(request[r], k) = Keys(request[q], k)
<1> DEFINE x == request[r]
           y == request[q]
<1>1. /\ x \in Prompts /\ y \in Prompts /\ k \in Nat \ {0}
      /\ all_token_ids[r] \in Seq(Nat) /\ all_token_ids[q] \in Seq(Nat)
      /\ k <= LastBlock(all_token_ids[r]) /\ k <= LastBlock(all_token_ids[q])
  BY HashOf
<1>2. x.lora = y.lora /\ x.salt = y.salt /\ \A p \in 1 .. k * HBS : At(r, p) = At(q, p)
  BY DEF SamePrefix
<1>3. \A p \in 1 .. k * HBS : /\ all_token_ids[r][p] = all_token_ids[q][p]
                              /\ ItemsAt(x, p) = ItemsAt(y, p)
                              /\ EmbedAt(x, p) = EmbedAt(y, p)
  BY <1>1, <1>2, AtSame
<1> HIDE DEF x, y
<1>4. \A p \in Positions(k) : /\ all_token_ids[r][p] = all_token_ids[q][p]
                              /\ ItemsAt(x, p) = ItemsAt(y, p)
                              /\ EmbedAt(x, p) = EmbedAt(y, p)
  BY <1>1, <1>3, PrefixPositions
<1>5. Tokens(all_token_ids[r], k) = Tokens(all_token_ids[q], k)
  BY <1>1, <1>4, TokensTell
<1>6. ItemPart(x, k) = ItemPart(y, k)
  BY <1>1, <1>4, ItemsTold
<1>7. Embeds(x, k) = Embeds(y, k)
  BY <1>1, <1>4, EmbedsTold
<1>8. ASSUME NEW z \in Prompts PROVE EmbedAt(z, 1) = Blank <=> z.embeds = <<>>
  <2>1. Len(z.embeds) \in Nat
    BY ItemFacts
  <2>2. CASE z.embeds = <<>>
    <3>1. Len(z.embeds) = 0
      BY <2>2
    <3> QED BY <2>2, <3>1 DEF EmbedAt
  <2>3. CASE z.embeds # <<>>
    <3>1. Len(z.embeds) # 0
      <4> DEFINE T == STRING \ {""}
      <4>1. z.embeds \in Seq(T)
        BY ItemFacts
      <4> HIDE DEF T
      <4> QED BY <2>3, <4>1
    <3>2. 1 \in 1 .. Len(z.embeds)
      BY <2>1, <3>1
    <3>3. z.embeds[1] # Blank
      BY <3>2, EmbedNotBlank
    <3> QED BY <2>3, <3>2, <3>3 DEF EmbedAt
  <2> QED BY <2>2, <2>3
<1>9. (x.embeds = <<>>) <=> (y.embeds = <<>>)
  BY <1>1, <1>3, <1>8, PrefixPositions
<1>10. EmbedPart(x, k) = EmbedPart(y, k) /\ SaltPart(x, k) = SaltPart(y, k)
  BY <1>2, <1>7, <1>9 DEF EmbedPart, SaltPart, x, y
<1>11. Keys(x, k) = Keys(y, k)
  BY <1>1, <1>2, <1>6, <1>10, KeysOf DEF x, y
<1> QED BY <1>5, <1>11 DEF x, y

LEMMA PrefixGrows ==
  ASSUME NEW r, NEW q, NEW k \in Nat \ {0}
  PROVE  /\ SamePrefix(r, q, k * HBS) => SamePrefix(r, q, (k - 1) * HBS)
         /\ (/\ SamePrefix(r, q, (k - 1) * HBS)
             /\ \A p \in Positions(k) : At(r, p) = At(q, p)) => SamePrefix(r, q, k * HBS)
BY PrefixPositions DEF SamePrefix

(* The hash at the block before, where there is one.                       *)
LEMMA HashBefore ==
  ASSUME HashInv, NEW r \in Requests, NEW k \in DOMAIN block_hashes[r], k # 1
  PROVE  k - 1 \in DOMAIN block_hashes[r] /\ block_hashes[r][k - 1] # NONE_HASH
<1>1. k \in 1 .. LastBlock(all_token_ids[r]) /\ LastBlock(all_token_ids[r]) \in Nat
      /\ DOMAIN block_hashes[r] = 1 .. LastBlock(all_token_ids[r])
  BY HashOf
<1>2. k - 1 \in DOMAIN block_hashes[r]
  BY <1>1
<1>3. block_hashes[r][k - 1] =
        Triple(request[r], all_token_ids[r],
               IF k - 1 = 1 THEN NONE_HASH ELSE block_hashes[r][k - 1 - 1], k - 1)
  BY <1>2, HashOf
<1> QED BY <1>2, <1>3, TripleFacts

FingerprintAt(k) ==
  \A r \in Requests : \A q \in Requests : \A j \in DOMAIN block_hashes[q] :
    k \in DOMAIN block_hashes[r] /\ block_hashes[r][k] = block_hashes[q][j] =>
      k = j /\ SamePrefix(r, q, k * HBS)

(* Equal hashes of block k have equal parents and equal blocks k.          *)
LEMMA FingerprintStep ==
  ASSUME HashInv, NEW k \in Nat, k > 1 => FingerprintAt(k - 1)
  PROVE  FingerprintAt(k)
<1> SUFFICES ASSUME NEW r \in Requests, NEW q \in Requests, NEW j \in DOMAIN block_hashes[q],
                    k \in DOMAIN block_hashes[r], block_hashes[r][k] = block_hashes[q][j]
             PROVE  k = j /\ SamePrefix(r, q, k * HBS)
  BY DEF FingerprintAt
<1> DEFINE a == IF k = 1 THEN NONE_HASH ELSE block_hashes[r][k - 1]
           b == IF j = 1 THEN NONE_HASH ELSE block_hashes[q][j - 1]
<1>1. /\ k \in Nat \ {0} /\ j \in Nat \ {0}
      /\ block_hashes[r][k] = Triple(request[r], all_token_ids[r], a, k)
      /\ block_hashes[q][j] = Triple(request[q], all_token_ids[q], b, j)
  BY HashOf
<1>2. /\ a = b /\ Tokens(all_token_ids[r], k) = Tokens(all_token_ids[q], j)
      /\ Keys(request[r], k) = Keys(request[q], j)
  <2> HIDE DEF a, b
  <2>1. Triple(request[r], all_token_ids[r], a, k) = Triple(request[q], all_token_ids[q], b, j)
    BY <1>1
  <2> QED BY ONLY <2>1, TripleSame
<1>3. (k = 1) <=> (j = 1)
  BY <1>2, HashBefore
<1>4. k = j
  <2>1. CASE k = 1
    BY <1>3, <2>1
  <2>2. CASE k # 1
    <3>1. j # 1 /\ block_hashes[r][k - 1] = block_hashes[q][j - 1]
      BY <1>2, <1>3, <2>2
    <3>2. k - 1 \in DOMAIN block_hashes[r] /\ j - 1 \in DOMAIN block_hashes[q]
      BY <2>2, <3>1, HashBefore
    <3>3. FingerprintAt(k - 1)
      BY <1>1, <2>2
    <3>4. k - 1 = j - 1
      BY <3>1, <3>2, <3>3 DEF FingerprintAt
    <3> QED BY <1>1, <3>4
  <2> QED BY <2>1, <2>2
<1>5. /\ request[r].lora = request[q].lora
      /\ k = 1 => request[r].salt = request[q].salt
      /\ \A p \in Positions(k) : At(r, p) = At(q, p)
  BY <1>2, <1>4, BlockTells
<1>6. SamePrefix(r, q, (k - 1) * HBS)
  <2>1. CASE k = 1
    <3>1. 1 .. (k - 1) * HBS = {}
      <4>1. (k - 1) * HBS = 0
        BY <2>1, SizeNat
      <4> QED BY <4>1
    <3> QED BY <1>5, <2>1, <3>1 DEF SamePrefix
  <2>2. CASE k # 1
    <3>1. block_hashes[r][k - 1] = block_hashes[q][k - 1]
      BY <1>2, <1>4, <2>2
    <3>2. k - 1 \in DOMAIN block_hashes[r] /\ k - 1 \in DOMAIN block_hashes[q]
      BY <1>4, <2>2, HashBefore
    <3>3. FingerprintAt(k - 1)
      BY <1>1, <2>2
    <3> QED BY <3>1, <3>2, <3>3 DEF FingerprintAt
  <2> QED BY <2>1, <2>2
<1> QED BY <1>1, <1>4, <1>5, <1>6, PrefixGrows

(* By induction on the block: equal hashes, equal prefixes.                *)
LEMMA FingerprintsHold ==
  ASSUME HashInv
  PROVE  HashesFingerprintPrefix
<1> DEFINE H == {k \in Nat : FingerprintAt(k)}
<1>1. ASSUME NEW k \in Nat, \A j \in Nat : j < k => j \in H PROVE k \in H
  <2>1. k > 1 => k - 1 \in Nat /\ k - 1 < k
    OBVIOUS
  <2>2. k > 1 => FingerprintAt(k - 1)
    BY <1>1, <2>1
  <2> QED BY <2>2, FingerprintStep
<1>2. H \in SUBSET Nat
  OBVIOUS
<1> HIDE DEF H
<1>3. \A k \in Nat : k \in H
  BY <1>1, <1>2, StrongInduction
<1>4. \A k \in Nat : FingerprintAt(k)
  BY <1>3 DEF H
<1> SUFFICES ASSUME NEW r \in Requests, NEW q \in Requests, NEW i \in DOMAIN block_hashes[r],
                    NEW j \in DOMAIN block_hashes[q], block_hashes[r][i] = block_hashes[q][j]
             PROVE  i = j /\ SamePrefix(r, q, i * hash_block_size)
  BY DEF HashesFingerprintPrefix
<1>5. i \in Nat
  BY HashOf
<1> QED BY <1>4, <1>5 DEF FingerprintAt, HBS

HitsAt(k) ==
  \A r \in Requests : \A q \in Requests :
    k \in DOMAIN block_hashes[r] /\ k \in DOMAIN block_hashes[q] /\ SamePrefix(r, q, k * HBS) =>
      block_hashes[r][k] = block_hashes[q][k]

(* An equal prefix has equal blocks k, chained to equal parents.           *)
LEMMA HitsStep ==
  ASSUME HashInv, NEW k \in Nat, k > 1 => HitsAt(k - 1)
  PROVE  HitsAt(k)
<1> SUFFICES ASSUME NEW r \in Requests, NEW q \in Requests,
                    k \in DOMAIN block_hashes[r], k \in DOMAIN block_hashes[q],
                    SamePrefix(r, q, k * HBS)
             PROVE  block_hashes[r][k] = block_hashes[q][k]
  BY DEF HitsAt
<1> DEFINE a == IF k = 1 THEN NONE_HASH ELSE block_hashes[r][k - 1]
           b == IF k = 1 THEN NONE_HASH ELSE block_hashes[q][k - 1]
<1>1. /\ k \in Nat \ {0}
      /\ block_hashes[r][k] = Triple(request[r], all_token_ids[r], a, k)
      /\ block_hashes[q][k] = Triple(request[q], all_token_ids[q], b, k)
  BY HashOf
<1>2. /\ Tokens(all_token_ids[r], k) = Tokens(all_token_ids[q], k)
      /\ Keys(request[r], k) = Keys(request[q], k)
  BY BlockTold
<1>3. a = b
  <2>1. CASE k = 1
    BY <2>1
  <2>2. CASE k # 1
    <3>1. k - 1 \in DOMAIN block_hashes[r] /\ k - 1 \in DOMAIN block_hashes[q]
      BY <2>2, HashBefore
    <3>2. SamePrefix(r, q, (k - 1) * HBS)
      BY <1>1, PrefixGrows
    <3>3. HitsAt(k - 1)
      BY <1>1, <2>2
    <3>4. block_hashes[r][k - 1] = block_hashes[q][k - 1]
      BY <3>1, <3>2, <3>3 DEF HitsAt
    <3> QED BY <2>2, <3>4
  <2> QED BY <2>1, <2>2
<1> HIDE DEF a, b
<1> QED BY <1>1, <1>2, <1>3 DEF Triple

(* By induction on the block: equal prefixes, equal hashes.                *)
LEMMA HitsHold ==
  ASSUME HashInv
  PROVE  SamePrefixHits
<1> DEFINE H == {k \in Nat : HitsAt(k)}
<1>1. ASSUME NEW k \in Nat, \A j \in Nat : j < k => j \in H PROVE k \in H
  <2>1. k > 1 => k - 1 \in Nat /\ k - 1 < k
    OBVIOUS
  <2>2. k > 1 => HitsAt(k - 1)
    BY <1>1, <2>1
  <2> QED BY <2>2, HitsStep
<1>2. H \in SUBSET Nat
  OBVIOUS
<1> HIDE DEF H
<1>3. \A k \in Nat : k \in H
  BY <1>1, <1>2, StrongInduction
<1>4. \A k \in Nat : HitsAt(k)
  BY <1>3 DEF H
<1> SUFFICES ASSUME NEW r \in Requests, NEW q \in Requests,
                    NEW i \in DOMAIN block_hashes[r] \cap DOMAIN block_hashes[q],
                    SamePrefix(r, q, i * hash_block_size)
             PROVE  block_hashes[r][i] = block_hashes[q][i]
  BY DEF SamePrefixHits
<1>5. i \in Nat
  BY HashOf
<1> QED BY <1>4, <1>5 DEF HitsAt, HBS

LEMMA Division ==
  ASSUME NEW n \in Nat, NEW d \in Nat \ {0}
  PROVE  /\ n \div d \in Nat /\ n % d \in 0 .. d - 1
         /\ n = d * (n \div d) + (n % d)
OBVIOUS

(* A hash of a larger block is the hash of the last of its small blocks.   *)
LEMMA CoarseFacts ==
  ASSUME HashInv, NEW r \in Requests, NEW size \in TargetSizes,
         NEW i \in DOMAIN ResolveBlockHashes(block_hashes[r], size)
  PROVE  \E k \in DOMAIN block_hashes[r] :
           /\ k = i * (size \div HBS) /\ k * HBS = i * size
           /\ ResolveBlockHashes(block_hashes[r], size)[i] = block_hashes[r][k]
<1> DEFINE c == size \div HBS
           n == Len(block_hashes[r])
<1>1. size \in Nat \ {0} /\ size % HBS = 0 /\ HBS \in Nat \ {0}
  BY HashSizes DEF SizesOK, HBS
<1>2. c \in Nat \ {0} /\ c * HBS = size
  <2>1. size = HBS * c + (size % HBS) /\ c \in Nat
    BY <1>1, Division
  <2>2. c # 0
    BY <1>1, <2>1
  <2> HIDE DEF c
  <2> QED BY <1>1, <2>1, <2>2
<1>3. CASE size = HBS
  <2>1. ResolveBlockHashes(block_hashes[r], size) = block_hashes[r]
    BY <1>3 DEF ResolveBlockHashes, HBS
  <2>2. i \in DOMAIN block_hashes[r]
    BY <2>1
  <2>3. i \in Nat
    BY <2>2, HashOf
  <2>4. c = 1
    BY <1>1, <1>3
  <2>5. i = i * c /\ i * HBS = i * size
    BY <1>3, <2>3, <2>4
  <2> QED BY <2>1, <2>2, <2>5
<1>4. CASE size # HBS
  <2>1. ResolveBlockHashes(block_hashes[r], size) =
          [m \in 1 .. n \div c |-> block_hashes[r][m * c]]
    BY <1>4 DEF ResolveBlockHashes, CoarseHash, HBS
  <2>2. i \in 1 .. n \div c /\ ResolveBlockHashes(block_hashes[r], size)[i] = block_hashes[r][i * c]
    BY <2>1
  <2>3. n \in Nat /\ DOMAIN block_hashes[r] = 1 .. n
    <3>1. CASE request[r] = NoPrompt
      <4>1. block_hashes[r] = <<>>
        BY <3>1 DEF HashInv
      <4> QED BY <4>1
    <3>2. CASE request[r] # NoPrompt
      <4>1. all_token_ids[r] \in Seq(Nat) /\ Hashed(request[r], all_token_ids[r], block_hashes[r])
        BY <3>2 DEF HashInv, Arrived
      <4>2. LastBlock(all_token_ids[r]) \in Nat
        BY <4>1, FullFacts
      <4> QED BY <4>1, <4>2 DEF Hashed
    <3> QED BY <3>1, <3>2
  <2> HIDE DEF c, n
  <2>4. n \div c \in Nat /\ (n \div c) * c <= n
    BY <1>2, <2>3
  <2>5. i \in Nat \ {0} /\ i * c \in Nat /\ i * c <= (n \div c) * c /\ c <= i * c
    <3>1. i \in Nat \ {0} /\ i <= n \div c
      BY <2>2, <2>4
    <3>2. ASSUME NEW u \in Nat, NEW v \in Nat, u <= v PROVE u * c <= v * c /\ u * c \in Nat /\ v * c \in Nat
      <4>1. v - u \in Nat /\ (v - u) * c \in Nat /\ v * c = (v - u) * c + u * c /\ u * c \in Nat /\ v * c \in Nat
        BY <1>2, <3>2
      <4> QED BY <4>1
    <3>3. i * c <= (n \div c) * c /\ i * c \in Nat
      BY <2>4, <3>1, <3>2
    <3>4. 1 * c <= i * c
      BY <3>1, <3>2
    <3> QED BY <3>1, <3>3, <3>4, <1>2
  <2>6. i * c \in 1 .. n
    BY <1>2, <2>3, <2>4, <2>5
  <2>7. (i * c) * HBS = i * size
    BY <1>1, <1>2, <2>5
  <2> QED BY <2>2, <2>3, <2>6, <2>7 DEF c
<1> QED BY <1>3, <1>4

(* Both ways, at the fine hash that stands for the coarse block.           *)
LEMMA CoarseHitsHold ==
  ASSUME HashInv
  PROVE  CoarseHitsExact
<1> SUFFICES ASSUME NEW r \in Requests, NEW q \in Requests, NEW size \in TargetSizes,
                    NEW i \in DOMAIN ResolveBlockHashes(block_hashes[r], size)
                              \cap DOMAIN ResolveBlockHashes(block_hashes[q], size)
             PROVE  ResolveBlockHashes(block_hashes[r], size)[i] = ResolveBlockHashes(block_hashes[q], size)[i]
                      <=> SamePrefix(r, q, i * size)
  BY DEF CoarseHitsExact
<1>1. PICK k \in DOMAIN block_hashes[r] :
        /\ k = i * (size \div HBS) /\ k * HBS = i * size
        /\ ResolveBlockHashes(block_hashes[r], size)[i] = block_hashes[r][k]
  BY CoarseFacts
<1>2. PICK j \in DOMAIN block_hashes[q] :
        /\ j = i * (size \div HBS)
        /\ ResolveBlockHashes(block_hashes[q], size)[i] = block_hashes[q][j]
  BY CoarseFacts
<1>3. k = j
  BY <1>1, <1>2
<1>4. block_hashes[r][k] = block_hashes[q][k] => SamePrefix(r, q, k * hash_block_size)
  BY <1>2, <1>3, FingerprintsHold DEF HashesFingerprintPrefix
<1>5. SamePrefix(r, q, k * hash_block_size) => block_hashes[r][k] = block_hashes[q][k]
  BY <1>2, <1>3, HitsHold DEF SamePrefixHits
<1> QED BY <1>1, <1>2, <1>3, <1>4, <1>5 DEF HBS

(* A request keeps its prompt and only ever gets more tokens, and however  *)
(* they are appended no block that is not full has a hash.                 *)
THEOREM HashTypeCorrect == HashSpec => []HashTypeOK
BY HashTypeInvariance, HashTypes, PTL

(* "each hash uniquely fingerprints the prefix ending at its boundary":    *)
(* for all prompts and block sizes, and however request_block_hasher is    *)
(* called, equal hashes end equal prefixes.  The hasher restarts at the    *)
(* last item of the prompt, so it takes OneItemInTail: without it the run  *)
(* on two images in a tail has two prefixes of one hash.                   *)
THEOREM HashesFingerprint == OneItemInTail => (HashSpec => []HashesFingerprintPrefix)
<1> SUFFICES ASSUME OneItemInTail PROVE HashSpec => []HashesFingerprintPrefix
  OBVIOUS
<1>1. HashSpec => []HashInv
  BY HashInvariance
<1>2. HashInv => HashesFingerprintPrefix
  BY FingerprintsHold
<1> QED BY <1>1, <1>2, PTL

(* For all prompts and block sizes, a prefix has the same hashes whether   *)
(* its tokens came with the prompt or were generated in any pieces: what   *)
(* request_block_hasher leaves out when called again (the items before the *)
(* last, the hashes it kept) it does not need.                             *)
THEOREM PrefixesHit == OneItemInTail => (HashSpec => []SamePrefixHits)
<1> SUFFICES ASSUME OneItemInTail PROVE HashSpec => []SamePrefixHits
  OBVIOUS
<1>1. HashSpec => []HashInv
  BY HashInvariance
<1>2. HashInv => SamePrefixHits
  BY HitsHold
<1> QED BY <1>1, <1>2, PTL

(* For every block size of a group that the hash block size divides, the   *)
(* hashes BlockHashListWithBlockSize picks are equal exactly for equal     *)
(* prefixes: those it passes over are chained into them.                   *)
THEOREM CoarseExact == OneItemInTail => (HashSpec => []CoarseHitsExact)
<1> SUFFICES ASSUME OneItemInTail PROVE HashSpec => []CoarseHitsExact
  OBVIOUS
<1>1. HashSpec => []HashInv
  BY HashInvariance
<1>2. HashInv => CoarseHitsExact
  BY CoarseHitsHold
<1> QED BY <1>1, <1>2, PTL

=============================================================================
