------------------------- MODULE TensorParallel_proofs -------------------------
(***************************************************************************)
(* Proofs, for every number of ranks and every setup, that the shares of   *)
(* an expert partition its columns (Exl3Moe), that the collectives of any  *)
(* two ranks match, that the sum of the experts is whole and that each     *)
(* rank prepares its output projection at most once.                       *)
(***************************************************************************)
EXTENDS TensorParallel, FiniteSetTheorems, WellFoundedInduction, TLAPS

-----------------------------------------------------------------------------
(* The shares of _tp_split lie end to end over the whole dimension.        *)

Off(even, tp, r) == TpSplit(even, tp, r).off
Width(even, tp, r) == TpSplit(even, tp, r).width

LEMMA DivFacts ==
  ASSUME NEW a \in Nat, NEW b \in Nat \ {0}
  PROVE  /\ a \div b \in Nat /\ a % b \in 0 .. b - 1
         /\ a = b * (a \div b) + (a % b)
OBVIOUS

(* Ranks before r that are a block longer: all of 1 .. r - 1 up to rem.    *)
LEMMA LongerBefore ==
  ASSUME NEW rem \in Nat, NEW r \in Nat
  PROVE  Cardinality({k \in 1 .. rem : k < r})
           = IF r = 0 THEN 0 ELSE IF r - 1 < rem THEN r - 1 ELSE rem
<1>1. CASE r = 0
  <2>1. {k \in 1 .. rem : k < r} = {}
    BY <1>1
  <2> QED BY <2>1, <1>1, FS_EmptySet
<1>2. CASE r # 0 /\ r - 1 < rem
  <2>1. {k \in 1 .. rem : k < r} = 1 .. r - 1
    BY <1>2
  <2>2. Cardinality(1 .. r - 1) = r - 1
    BY <1>2, FS_Interval
  <2> QED BY <2>1, <2>2, <1>2
<1>3. CASE r # 0 /\ rem <= r - 1
  <2>1. {k \in 1 .. rem : k < r} = 1 .. rem
    BY <1>3
  <2>2. Cardinality(1 .. rem) = rem
    BY FS_Interval, 0 \in Int, 1 \in Int
  <2>3. r # 0 /\ ~(r - 1 < rem)
    BY <1>3
  <2> QED BY <2>1, <2>2, <2>3
<1> QED BY <1>1, <1>2, <1>3

(* The shares in blocks: what is before rank r, and what it takes.         *)
Before(base, rem, r) == r * base + Cardinality({k \in 1 .. rem : k < r})
Own(base, rem, r) == base + (IF r \in 1 .. rem THEN 1 ELSE 0)

LEMMA BlocksBefore ==
  ASSUME NEW base \in Nat, NEW tp \in Nat \ {0}, NEW rem \in 0 .. tp - 1
  PROVE  /\ Before(base, rem, 0) = 0
         /\ \A r \in 0 .. tp - 1 : Before(base, rem, r) \in Nat /\ Own(base, rem, r) \in Nat
         /\ \A r \in 0 .. tp - 1 :
              Before(base, rem, r + 1) = Before(base, rem, r) + Own(base, rem, r)
         /\ Before(base, rem, tp) = tp * base + rem
<1> DEFINE before(r) == Before(base, rem, r)
           own(r) == Own(base, rem, r)
           count(r) == IF r = 0 THEN 0 ELSE IF r - 1 < rem THEN r - 1 ELSE rem
<1>1. \A r \in Nat : before(r) = r * base + count(r) /\ count(r) \in Nat
  BY LongerBefore DEF Before
<1>2. \A r \in Nat : r * base \in Nat /\ (r + 1) * base = r * base + base
  OBVIOUS
<1> HIDE DEF before
<1>3. \A r \in 0 .. tp - 1 : count(r + 1) = count(r) + (IF r \in 1 .. rem THEN 1 ELSE 0)
  OBVIOUS
<1>4. count(0) = 0 /\ count(tp) = rem
  OBVIOUS
<1> HIDE DEF count
<1>5. before(0) = 0
  BY <1>1, <1>4
<1>6. \A r \in 0 .. tp - 1 : before(r) \in Nat /\ own(r) \in Nat
  BY <1>1, <1>2 DEF Own
<1>7. \A r \in 0 .. tp - 1 : before(r + 1) = before(r) + own(r)
  BY <1>1, <1>2, <1>3 DEF Own
<1>8. before(tp) = tp * base + rem
  BY <1>1, <1>4
<1> QED BY <1>5, <1>6, <1>7, <1>8 DEF before

(* Shares lie end to end, from column 0 to the last, in whole tiles if the *)
(* equal share is.                                                         *)
LEMMA SharesEndToEnd ==
  ASSUME NEW even \in Nat, NEW tp \in Nat \ {0}
  PROVE  /\ Off(even, tp, 0) = 0
         /\ \A r \in 0 .. tp - 1 : Off(even, tp, r) \in Nat /\ Width(even, tp, r) \in Nat
         /\ \A r \in 0 .. tp - 2 :
              Off(even, tp, r + 1) = Off(even, tp, r) + Width(even, tp, r)
         /\ Off(even, tp, tp - 1) + Width(even, tp, tp - 1) = even * tp
<1> DEFINE blocks == (even * tp) \div BLOCK
           base == blocks \div tp
           rem == blocks % tp
           before(r) == Before(base, rem, r)
           own(r) == Own(base, rem, r)
<1>1. BLOCK \in Nat \ {0} /\ even * tp \in Nat
  BY TilesOfBlock
<1>2. CASE even % BLOCK = 0 \/ (even * tp) % BLOCK # 0
  <2>1. \A r : Off(even, tp, r) = r * even /\ Width(even, tp, r) = even
    BY <1>2 DEF Off, Width, TpSplit
  <2>2. \A r \in Nat : r * even \in Nat /\ (r + 1) * even = r * even + even
    OBVIOUS
  <2>3. tp - 1 \in Nat /\ (tp - 1) + 1 = tp /\ tp * even = even * tp /\ 0 * even = 0
    OBVIOUS
  <2>4. (tp - 1) * even + even = even * tp
    BY <2>2, <2>3
  <2> QED BY <2>1, <2>2, <2>3, <2>4
<1>3. CASE ~(even % BLOCK = 0 \/ (even * tp) % BLOCK # 0)
  <2>1. blocks \in Nat /\ BLOCK * blocks = even * tp
    BY <1>1, <1>3, DivFacts
  <2>2. base \in Nat /\ rem \in 0 .. tp - 1 /\ blocks = tp * base + rem
    <3> HIDE DEF blocks
    <3> QED BY <2>1, DivFacts
  <2>3. \A r : Off(even, tp, r) = before(r) * BLOCK /\ Width(even, tp, r) = own(r) * BLOCK
    BY <1>3 DEF Off, Width, TpSplit, Before, Own
  <2> HIDE DEF blocks, base, rem
  <2>4. /\ before(0) = 0
        /\ \A r \in 0 .. tp - 1 : before(r) \in Nat /\ own(r) \in Nat
        /\ \A r \in 0 .. tp - 1 : before(r + 1) = before(r) + own(r)
        /\ before(tp) = blocks
    BY <2>2, BlocksBefore
  <2> HIDE DEF before, own
  <2>5. \A m, n \in Nat : m * BLOCK \in Nat /\ (m + n) * BLOCK = m * BLOCK + n * BLOCK
    BY <1>1
  <2>6. Off(even, tp, 0) = 0
    BY <1>1, <2>3, <2>4
  <2>7. ASSUME NEW r \in 0 .. tp - 1
        PROVE  Off(even, tp, r) \in Nat /\ Width(even, tp, r) \in Nat
    <3>1. before(r) * BLOCK \in Nat /\ own(r) * BLOCK \in Nat
      BY <2>4, <2>5
    <3> QED BY <2>3, <3>1
  <2>8. ASSUME NEW r \in 0 .. tp - 1
        PROVE  before(r + 1) * BLOCK = Off(even, tp, r) + Width(even, tp, r)
    BY <2>3, <2>4, <2>5
  <2>9. \A r \in 0 .. tp - 2 :
          Off(even, tp, r + 1) = Off(even, tp, r) + Width(even, tp, r)
    BY <2>3, <2>8
  <2>10. Off(even, tp, tp - 1) + Width(even, tp, tp - 1) = even * tp
    <3>1. tp - 1 \in 0 .. tp - 1 /\ (tp - 1) + 1 = tp
      OBVIOUS
    <3>2. before(tp) * BLOCK = Off(even, tp, tp - 1) + Width(even, tp, tp - 1)
      BY <2>8, <3>1
    <3>3. before(tp) * BLOCK = even * tp
      BY <2>1, <2>4, <1>1
    <3> QED BY <3>2, <3>3
  <2> QED BY <2>6, <2>7, <2>9, <2>10
<1> QED BY <1>2, <1>3

(* A later share begins where an earlier one has ended.                    *)
LEMMA SharesApart ==
  ASSUME NEW even \in Nat, NEW tp \in Nat \ {0},
         NEW r \in 0 .. tp - 1, NEW q \in 0 .. tp - 1, r < q
  PROVE  Off(even, tp, r) + Width(even, tp, r) <= Off(even, tp, q)
<1> DEFINE T == {k \in Nat : /\ r < k /\ k <= q
                              /\ ~(Off(even, tp, r) + Width(even, tp, r) <= Off(even, tp, k))}
<1>1. /\ \A k \in 0 .. tp - 1 : Off(even, tp, k) \in Nat /\ Width(even, tp, k) \in Nat
      /\ \A k \in 0 .. tp - 2 : Off(even, tp, k + 1) = Off(even, tp, k) + Width(even, tp, k)
  BY SharesEndToEnd
<1>2. SUFFICES ASSUME T # {} PROVE FALSE
  <2>1. q \in Nat /\ r < q /\ q <= q
    OBVIOUS
  <2> QED BY <2>1
<1>3. PICK k \in T : \A j \in T : ~(j < k)
  <2>1. PICK k \in T : \A j \in T : <<j, k>> \notin OpToRel(<, Nat)
    BY <1>2, NatLessThanWellFounded, WFMin
  <2> QED BY <2>1 DEF OpToRel
<1>4. k - 1 \in 0 .. tp - 2 /\ (k - 1) + 1 = k /\ k - 1 \in 0 .. tp - 1 /\ k \in 0 .. tp - 1
  BY <1>3
<1>5. Off(even, tp, k) = Off(even, tp, k - 1) + Width(even, tp, k - 1)
  BY <1>1, <1>4
<1>6. CASE k - 1 = r
  BY <1>1, <1>3, <1>4, <1>5, <1>6
<1>7. CASE k - 1 # r
  <2>1. k - 1 \in Nat /\ r < k - 1 /\ k - 1 <= q /\ k - 1 < k
    BY <1>3, <1>7
  <2>2. Off(even, tp, r) + Width(even, tp, r) <= Off(even, tp, k - 1)
    BY <1>3, <2>1
  <2> QED BY <1>1, <1>3, <1>4, <1>5, <2>2
<1> QED BY <1>6, <1>7

(* Every column of the dimension is in a share.                            *)
LEMMA SharesCover ==
  ASSUME NEW even \in Nat, NEW tp \in Nat \ {0}, NEW c \in 0 .. even * tp - 1
  PROVE  \E r \in 0 .. tp - 1 :
           Off(even, tp, r) <= c /\ c < Off(even, tp, r) + Width(even, tp, r)
<1> DEFINE T == {k \in Nat : k < tp /\ c < Off(even, tp, k) + Width(even, tp, k)}
<1>1. /\ Off(even, tp, 0) = 0
      /\ \A k \in 0 .. tp - 1 : Off(even, tp, k) \in Nat /\ Width(even, tp, k) \in Nat
      /\ \A k \in 0 .. tp - 2 : Off(even, tp, k + 1) = Off(even, tp, k) + Width(even, tp, k)
      /\ Off(even, tp, tp - 1) + Width(even, tp, tp - 1) = even * tp
  BY SharesEndToEnd
<1>2. even * tp \in Nat /\ c \in Nat /\ c < even * tp
  OBVIOUS
<1>3. tp - 1 \in T
  BY <1>1, <1>2
<1>4. PICK k \in T : \A j \in T : ~(j < k)
  <2>1. PICK k \in T : \A j \in T : <<j, k>> \notin OpToRel(<, Nat)
    BY <1>3, NatLessThanWellFounded, WFMin
  <2> QED BY <2>1 DEF OpToRel
<1>5. k \in 0 .. tp - 1 /\ c < Off(even, tp, k) + Width(even, tp, k)
  BY <1>4
<1>6. CASE k = 0
  BY <1>1, <1>2, <1>5, <1>6
<1>7. CASE k # 0
  <2>1. k - 1 \in 0 .. tp - 2 /\ (k - 1) + 1 = k /\ k - 1 \in Nat /\ k - 1 < k /\ k - 1 < tp
        /\ k - 1 \in 0 .. tp - 1
    BY <1>5, <1>7
  <2>2. ~(c < Off(even, tp, k - 1) + Width(even, tp, k - 1))
    BY <1>4, <2>1
  <2>3. Off(even, tp, k) = Off(even, tp, k - 1) + Width(even, tp, k - 1)
    BY <1>1, <2>1
  <2>4. Off(even, tp, k) <= c
    BY <1>1, <1>2, <1>5, <2>1, <2>2, <2>3
  <2> QED BY <1>5, <2>4
<1> QED BY <1>6, <1>7

(* Shares are whole tiles wherever the equal share is: trellis and scales  *)
(* are then cut at the same columns.                                       *)
LEMMA SharesInTiles ==
  ASSUME NEW even \in Nat, NEW tp \in Nat \ {0}, NEW r \in 0 .. tp - 1, even % TILE = 0
  PROVE  /\ TILE * (Off(even, tp, r) \div TILE) = Off(even, tp, r)
         /\ TILE * (Width(even, tp, r) \div TILE) = Width(even, tp, r)
<1>1. /\ TILE \in Nat \ {0} /\ BLOCK \in Nat \ {0}
      /\ Off(even, tp, r) \in Nat /\ Width(even, tp, r) \in Nat
  BY TilesOfBlock, SharesEndToEnd
<1>2. \A m, n \in Nat : n % TILE = 0 => m * n = TILE * (m * (n \div TILE))
  <2> SUFFICES ASSUME NEW m \in Nat, NEW n \in Nat, n % TILE = 0
               PROVE  m * n = TILE * (m * (n \div TILE))
    OBVIOUS
  <2>1. PICK d \in Nat : d = n \div TILE /\ n = TILE * d + (n % TILE)
    BY <1>1, DivFacts
  <2>2. n = TILE * d
    BY <1>1, <2>1
  <2>3. m * (TILE * d) = TILE * (m * d)
    BY <1>1
  <2> QED BY <2>1, <2>2, <2>3
<1>3. \A d \in Nat : TILE * ((TILE * d) \div TILE) = TILE * d
  <2> SUFFICES ASSUME NEW d \in Nat PROVE (TILE * d) \div TILE = d
    OBVIOUS
  <2> QED BY <1>1
<1>4. \E m, n \in Nat : n % TILE = 0 /\ Off(even, tp, r) = m * n
  <2>1. CASE even % BLOCK = 0 \/ (even * tp) % BLOCK # 0
    BY <2>1 DEF Off, TpSplit
  <2>2. CASE ~(even % BLOCK = 0 \/ (even * tp) % BLOCK # 0)
    <3> DEFINE m == Before(((even * tp) \div BLOCK) \div tp, ((even * tp) \div BLOCK) % tp, r)
    <3>1. m \in Nat
      <4>1. (even * tp) \div BLOCK \in Nat
        BY <1>1
      <4>2. ((even * tp) \div BLOCK) \div tp \in Nat
            /\ ((even * tp) \div BLOCK) % tp \in 0 .. tp - 1
        BY <4>1, DivFacts
      <4> QED BY <4>2, BlocksBefore
    <3>2. Off(even, tp, r) = m * BLOCK
      BY <2>2 DEF Off, TpSplit, Before
    <3> QED BY <1>1, <3>1, <3>2, TilesOfBlock
  <2> QED BY <2>1, <2>2
<1>5. \E m, n \in Nat : n % TILE = 0 /\ Width(even, tp, r) = m * n
  <2>1. CASE even % BLOCK = 0 \/ (even * tp) % BLOCK # 0
    <3>1. Width(even, tp, r) = 1 * even
      BY <2>1 DEF Width, TpSplit
    <3> QED BY <3>1
  <2>2. CASE ~(even % BLOCK = 0 \/ (even * tp) % BLOCK # 0)
    <3> DEFINE m == Own(((even * tp) \div BLOCK) \div tp, ((even * tp) \div BLOCK) % tp, r)
    <3>1. m \in Nat
      <4>1. (even * tp) \div BLOCK \in Nat
        BY <1>1
      <4>2. ((even * tp) \div BLOCK) \div tp \in Nat
        BY <4>1, DivFacts
      <4> QED BY <4>2 DEF Own
    <3>2. Width(even, tp, r) = m * BLOCK
      BY <2>2 DEF Width, TpSplit, Own
    <3> QED BY <1>1, <3>1, <3>2, TilesOfBlock
  <2> QED BY <2>1, <2>2
<1>6. \A x : (\E m, n \in Nat : n % TILE = 0 /\ x = m * n) => TILE * (x \div TILE) = x
  <2> SUFFICES ASSUME NEW m \in Nat, NEW n \in Nat, n % TILE = 0
               PROVE  TILE * ((m * n) \div TILE) = m * n
    OBVIOUS
  <2>1. m * (n \div TILE) \in Nat /\ m * n = TILE * (m * (n \div TILE))
    <3>1. n \div TILE \in Nat
      BY <1>1, DivFacts
    <3>2. m * (n \div TILE) \in Nat
      BY <3>1
    <3> QED BY <1>2, <3>2
  <2> QED BY <1>3, <2>1
<1> QED BY <1>4, <1>5, <1>6

(* The shares of the ranks partition the columns, whatever the dimension,  *)
(* the number of ranks and the block (_tp_split of exl3_moe.py).           *)
THEOREM SharesPartition ==
  ASSUME NEW even \in Nat, NEW tp \in Nat \ {0}
  PROVE  LET share(r) == Columns([from |-> Off(even, tp, r), count |-> Width(even, tp, r)])
         IN /\ UNION {share(r) : r \in 0 .. tp - 1} = 0 .. even * tp - 1
            /\ \A r, q \in 0 .. tp - 1 : r # q => share(r) \cap share(q) = {}
<1> DEFINE share(r) == Columns([from |-> Off(even, tp, r), count |-> Width(even, tp, r)])
<1>1. \A r \in 0 .. tp - 1 :
        /\ Off(even, tp, r) \in Nat /\ Width(even, tp, r) \in Nat
        /\ share(r) = {c \in Int : /\ Off(even, tp, r) <= c
                                  /\ c < Off(even, tp, r) + Width(even, tp, r)}
  BY SharesEndToEnd DEF Columns
<1> HIDE DEF share
<1>2. ASSUME NEW r \in 0 .. tp - 1, NEW q \in 0 .. tp - 1, r < q
      PROVE  share(r) \cap share(q) = {}
  BY <1>1, <1>2, SharesApart
<1>3. \A r, q \in 0 .. tp - 1 : r # q => share(r) \cap share(q) = {}
  BY <1>2
<1>4. ASSUME NEW r \in 0 .. tp - 1
      PROVE  Off(even, tp, r) + Width(even, tp, r) <= even * tp
  <2>1. Off(even, tp, tp - 1) + Width(even, tp, tp - 1) = even * tp
    BY SharesEndToEnd
  <2>2. tp - 1 \in 0 .. tp - 1 /\ even * tp \in Nat
    OBVIOUS
  <2>3. CASE r = tp - 1
    BY <2>1, <2>2, <2>3
  <2>4. CASE r # tp - 1
    <3>1. r < tp - 1
      BY <2>4
    <3>2. Off(even, tp, r) + Width(even, tp, r) <= Off(even, tp, tp - 1)
      BY <2>2, <3>1, SharesApart
    <3> QED BY <1>1, <2>1, <2>2, <3>2
  <2> QED BY <2>3, <2>4
<1>5. UNION {share(r) : r \in 0 .. tp - 1} \subseteq 0 .. even * tp - 1
  <2> SUFFICES ASSUME NEW r \in 0 .. tp - 1, NEW c \in share(r)
               PROVE  c \in 0 .. even * tp - 1
    OBVIOUS
  <2>1. even * tp \in Nat
    OBVIOUS
  <2> QED BY <1>1, <1>4, <2>1
<1>6. 0 .. even * tp - 1 \subseteq UNION {share(r) : r \in 0 .. tp - 1}
  <2> SUFFICES ASSUME NEW c \in 0 .. even * tp - 1
               PROVE  \E r \in 0 .. tp - 1 : c \in share(r)
    OBVIOUS
  <2> QED BY <1>1, SharesCover
<1> QED BY <1>3, <1>5, <1>6 DEF share

-----------------------------------------------------------------------------
(* The collectives.                                                        *)

(* What item n asks of rank r, before the buffers it has are set aside.    *)
CallOf(r, n) ==
  LET item == Program[n] IN
  CASE item.op = "moe" -> AllReduceCall
    [] item.op = "o_proj" -> IF setup.reduce_results THEN AllReduceCall ELSE NoCall
    [] item.op = "all_gather" -> AllGatherCall(item)
    [] item.op = "all_gatherv" -> AllGathervCall(r, item)
    [] item.op = "reduce_scatter" -> ReduceScatterCall(item)
    [] item.op = "reduce_scatterv" -> ReduceScattervCall(item)
    [] OTHER -> NoCall

Without(call, have) == [call EXCEPT !.registers = @ \ have]
Registered(s, n) == UNION {s[k].registers : k \in 1 .. n}

(* The n-th call of a rank is that of item n without the buffers that its  *)
(* earlier calls registered; and these are all it has.                     *)
Recorded(r) ==
  /\ scratch[r] = Registered(calls[r], Len(calls[r]))
  /\ \A n \in 1 .. Len(calls[r]) :
       calls[r][n] = Without(CallOf(r, n), Registered(calls[r], n - 1))

Position(r) == IF place[r] < 1 THEN Len(calls[r]) = 0
               ELSE Len(calls[r]) \in {place[r] - 1, place[r]}

Shape ==
  /\ setup \in Setups
  /\ place \in [Ranks -> Int] /\ DOMAIN scratch = Ranks
  /\ scratch = [r \in Ranks |-> scratch[r]]
  /\ \E S : calls \in [Ranks -> Seq(S)]

CInv == Shape /\ CollectivesMatch /\ \A r \in Ranks : Position(r) /\ Recorded(r)

-----------------------------------------------------------------------------

(* Every item is a call, and the same one on every rank: how many rows a   *)
(* rank has shows only where all have as many.                             *)
LEMMA SameCall ==
  ASSUME setup \in Setups, NEW n \in DOMAIN Program, NEW r \in Ranks, NEW q \in Ranks
  PROVE  /\ CallOf(r, n) = CallOf(q, n)
         /\ "registers" \in DOMAIN CallOf(r, n)
<1> DEFINE item == Program[n]
<1>1. item.sizes = <<>> \/ DOMAIN item.sizes = 1 .. N
  BY SetupsOK DEF Program
<1>2. N \in Nat /\ r + 1 \in 1 .. N /\ q + 1 \in 1 .. N
  BY SeveralRanks DEF Ranks
<1>3. ~Uneven(item.sizes) => OwnRows(r, item) = OwnRows(q, item)
  BY <1>1, <1>2 DEF Uneven, OwnRows
<1>4. AllGathervCall(r, item) = AllGathervCall(q, item)
  BY <1>3 DEF AllGathervCall
<1>5. CallOf(r, n) = CallOf(q, n)
  BY <1>4 DEF CallOf
<1>6. \A op, backend, steps, buffers : "registers" \in DOMAIN Call(op, backend, steps, buffers)
  BY DEF Call
<1>7. "registers" \in DOMAIN CallOf(r, n)
  <2>1. /\ "registers" \in DOMAIN NoCall /\ "registers" \in DOMAIN AllReduceCall
        /\ "registers" \in DOMAIN AllGatherCall(item)
        /\ "registers" \in DOMAIN AllGathervCall(r, item)
        /\ "registers" \in DOMAIN ReduceScatterCall(item)
    BY <1>6 DEF NoCall, AllReduceCall, AllGatherCall, AllGathervCall, ReduceScatterCall
  <2>2. "registers" \in DOMAIN ReduceScattervCall(item)
    BY <1>6, <2>1 DEF ReduceScattervCall
  <2> QED BY <2>1, <2>2 DEF CallOf
<1> QED BY <1>5, <1>7

(* One more element, and the others where they were.                       *)
LEMMA AppendFacts ==
  ASSUME NEW S, NEW s \in Seq(S), NEW e
  PROVE  /\ Append(s, e) \in Seq(S \cup {e})
         /\ Len(s) \in Nat /\ Len(Append(s, e)) = Len(s) + 1
         /\ DOMAIN Append(s, e) = 1 .. Len(s) + 1 /\ DOMAIN s = 1 .. Len(s)
         /\ Append(s, e)[Len(s) + 1] = e
         /\ \A k \in 1 .. Len(s) : Append(s, e)[k] = s[k]
<1>1. s \in Seq(S \cup {e}) /\ e \in S \cup {e}
  OBVIOUS
<1> QED BY <1>1

(* What a call is depends on the setup alone.                              *)
LEMMA SameSetup ==
  ASSUME UNCHANGED setup
  PROVE  \A q \in Ranks : \A n : (CallOf(q, n) = CallOf(q, n)')
<1>0. Program' = Program
  BY DEF Program
<1>1. Usable("all_reduce")' = Usable("all_reduce") /\ Usable("all_gather")' = Usable("all_gather")
  BY DEF Usable, Present, Env
<1>2. AllReduceBackend' = AllReduceBackend
  BY <1>1 DEF AllReduceBackend, SelectInSeq
<1>3. AllReduceCall' = AllReduceCall
  BY <1>2 DEF AllReduceCall, Call
<1>4. \A item : AllGatherCall(item)' = AllGatherCall(item)
  BY <1>1 DEF AllGatherCall, Call, Env
<1>5. \A q \in Ranks : \A item : AllGathervCall(q, item)' = AllGathervCall(q, item)
  BY DEF AllGathervCall, Call, Env
<1>6. \A item : ReduceScatterCall(item)' = ReduceScatterCall(item)
  BY DEF ReduceScatterCall, Call, Env
<1>7. \A item : ReduceScattervCall(item)' = ReduceScattervCall(item)
  BY <1>6 DEF ReduceScattervCall, Call, Env
<1> QED BY <1>0, <1>3, <1>4, <1>5, <1>6, <1>7 DEF CallOf, NoCall, Call

(* Entering the next item keeps what is recorded, and matches what every   *)
(* rank that has been there recorded.                                      *)
LEMMA EnterStep ==
  ASSUME CInv, NEW r \in Ranks, NotWaiting(r), Enter(r, CallOf(r, place[r])),
         UNCHANGED setup
  PROVE  CInv'
<1> DEFINE n == place[r]
           call == CallOf(r, n)
           s == calls[r]
           mine == Without(call, scratch[r])
           t == Append(s, mine)
<1>1. PICK S : calls \in [Ranks -> Seq(S)]
  BY DEF CInv, Shape
<1>2. /\ setup \in Setups /\ place \in [Ranks -> Int] /\ n \in 1 .. Len(Program)
      /\ n \in DOMAIN Program /\ Len(Program) \in Nat /\ n \in Nat /\ n > 0
  BY SetupsOK DEF CInv, Shape, NotWaiting, Program
<1>3. Len(s) \in Nat /\ Len(s) = n - 1
  <2>1. Len(s) \in Nat
    BY <1>1
  <2>2. Len(s) \in {n - 1, n} /\ Len(s) < n
    BY <1>2 DEF CInv, Position, NotWaiting
  <2> QED BY <2>1, <2>2, <1>2
<1>4. /\ calls' = [calls EXCEPT ![r] = t] /\ place' = place
      /\ scratch' = [scratch EXCEPT ![r] = @ \cup call.registers]
      /\ Program' = Program /\ setup' = setup
  BY DEF Enter, Without, Program
<1>5. /\ t \in Seq(S \cup {mine}) /\ Len(t) = n /\ DOMAIN t = 1 .. n /\ DOMAIN s = 1 .. n - 1
      /\ t[n] = mine /\ \A k \in 1 .. n - 1 : t[k] = s[k]
  <2> HIDE DEF mine
  <2>1. s \in Seq(S)
    BY <1>1
  <2>2. /\ Append(s, mine) \in Seq(S \cup {mine}) /\ Len(Append(s, mine)) = Len(s) + 1
        /\ DOMAIN Append(s, mine) = 1 .. Len(s) + 1 /\ DOMAIN s = 1 .. Len(s)
        /\ Append(s, mine)[Len(s) + 1] = mine
        /\ \A k \in 1 .. Len(s) : Append(s, mine)[k] = s[k]
    BY <2>1, AppendFacts
  <2> QED BY <2>2, <1>3, <1>2
<1>6. calls'[r] = t /\ \A q \in Ranks : q # r => calls'[q] = calls[q] /\ scratch'[q] = scratch[q]
  BY <1>1, <1>4 DEF CInv, Shape
<1>7. scratch[r] = Registered(s, n - 1) /\ scratch'[r] = scratch[r] \cup call.registers
  BY <1>3, <1>4 DEF CInv, Shape, Recorded
<1>8. mine.registers = call.registers \ scratch[r]
  BY SameCall, <1>2 DEF Without
<1>. HIDE DEF mine, t
<1>9. \A k \in 0 .. n - 1 : Registered(t, k) = Registered(s, k)
  <2> SUFFICES ASSUME NEW k \in 0 .. n - 1 PROVE Registered(t, k) = Registered(s, k)
    OBVIOUS
  <2>1. \A j \in 1 .. k : t[j] = s[j]
    BY <1>5, <1>2
  <2> QED BY <2>1 DEF Registered
<1>10. Registered(t, n) = Registered(t, n - 1) \cup t[n].registers
  <2>1. 1 .. n = (1 .. n - 1) \cup {n}
    BY <1>2
  <2> QED BY <2>1 DEF Registered
<1>11. Shape'
  <2>1. /\ (setup \in Setups)' /\ (place \in [Ranks -> Int])' /\ (DOMAIN scratch = Ranks)'
        /\ (scratch = [q \in Ranks |-> scratch[q]])'
    BY <1>2, <1>4 DEF CInv, Shape, Ranks
  <2>2. \A q \in Ranks : calls'[q] \in Seq(S \cup {mine})
    <3> HIDE DEF mine
    <3>1. ASSUME NEW q \in Ranks, q # r PROVE calls[q] \in Seq(S \cup {mine})
      BY <1>1
    <3> QED BY <3>1, <1>5, <1>6
  <2>3. calls' \in [Ranks -> Seq(S \cup {mine})]
    BY <2>2, <1>4, <1>1
  <2> QED BY <2>1, <2>3 DEF Shape, Ranks
<1>12. \A q \in Ranks : \A k : (CallOf(q, k) = CallOf(q, k)')
  BY <1>4, SameSetup
<1>13. ASSUME NEW q \in Ranks PROVE Position(q)' /\ Recorded(q)'
  <2>1. CASE q # r
    BY <2>1, <1>4, <1>6, <1>12 DEF CInv, Position, Recorded
  <2>2. CASE q = r
    <3>1. Position(r)'
      BY <1>2, <1>4, <1>5, <1>6 DEF Position
    <3>2. scratch'[r] = Registered(t, n)
      BY <1>5, <1>7, <1>8, <1>9, <1>10, <1>2
    <3>3. t[n] = Without(CallOf(r, n), Registered(t, n - 1))
      <4>1. n - 1 \in 0 .. n - 1
        BY <1>2
      <4>2. Registered(t, n - 1) = scratch[r]
        BY <4>1, <1>7, <1>9
      <4> QED BY <4>2, <1>5 DEF mine
    <3>4. ASSUME NEW k \in 1 .. n - 1
          PROVE  t[k] = Without(CallOf(r, k), Registered(t, k - 1))
      <4>1. s[k] = Without(CallOf(r, k), Registered(s, k - 1))
        BY <1>3 DEF CInv, Recorded
      <4>2. k - 1 \in 0 .. n - 1
        BY <1>2
      <4> QED BY <4>1, <4>2, <1>5, <1>9
    <3>5. \A k \in 1 .. n : t[k] = Without(CallOf(r, k), Registered(t, k - 1))
      BY <3>3, <3>4, <1>2
    <3>6. Recorded(r)'
      BY <3>2, <3>5, <1>4, <1>5, <1>6, <1>12 DEF Recorded
    <3> QED BY <3>1, <3>6, <2>2
  <2> QED BY <2>1, <2>2
<1>14. ASSUME NEW q \in Ranks, q # r, NEW k \in DOMAIN t \cap DOMAIN calls[q]
       PROVE  t[k] = calls[q][k]
  <2>1. k \in 1 .. n /\ DOMAIN calls[q] = 1 .. Len(calls[q]) /\ Len(calls[q]) \in Nat
    BY <1>5, <1>1
  <2>2. \A j \in 1 .. n - 1 : j \in DOMAIN calls[q] => s[j] = calls[q][j]
    BY <1>5 DEF CInv, CollectivesMatch
  <2>3. CASE k < n
    BY <2>1, <2>2, <2>3, <1>5, <1>2
  <2>4. CASE k = n
    <3>1. n \in 1 .. Len(calls[q])
      BY <2>1, <2>4
    <3>2. calls[q][n] = Without(CallOf(q, n), Registered(calls[q], n - 1))
      BY <3>1 DEF CInv, Recorded
    <3>3. \A j \in 1 .. n - 1 : s[j] = calls[q][j]
      BY <2>1, <2>2, <3>1, <1>2
    <3>4. Registered(calls[q], n - 1) = Registered(s, n - 1)
      BY <3>3 DEF Registered
    <3>5. CallOf(q, n) = CallOf(r, n)
      BY SameCall, <1>2
    <3> QED BY <3>2, <3>4, <3>5, <1>5, <1>7, <2>4 DEF mine
  <2> QED BY <2>1, <2>3, <2>4, <1>2
<1>15. CollectivesMatch'
  <2> SUFFICES ASSUME NEW p \in Ranks, NEW q \in Ranks,
                      NEW k \in DOMAIN calls'[p] \cap DOMAIN calls'[q]
               PROVE  calls'[p][k] = calls'[q][k]
    BY DEF CollectivesMatch, Ranks
  <2>1. CASE p # r /\ q # r
    BY <2>1, <1>6 DEF CInv, CollectivesMatch
  <2>2. CASE p = r /\ q # r
    BY <2>2, <1>6, <1>14
  <2>3. CASE p # r /\ q = r
    BY <2>3, <1>6, <1>14
  <2> QED BY <2>1, <2>2, <2>3
<1> QED BY <1>11, <1>13, <1>15 DEF CInv, Ranks

(* What a rank enters is the call of its item.                             *)
LEMMA EntersCallOf ==
  ASSUME CInv, NEW r \in Ranks, OProj(r) \/ Moe(r) \/ Collective(r)
  PROVE  NotWaiting(r) /\ Enter(r, CallOf(r, place[r])) /\ UNCHANGED setup
<1> DEFINE item == Program[place[r]]
           call == CallOf(r, place[r])
<1>0. /\ item.op = "moe" => call = AllReduceCall
      /\ item.op = "o_proj" => call = IF setup.reduce_results THEN AllReduceCall ELSE NoCall
      /\ item.op = "all_gather" => call = AllGatherCall(item)
      /\ item.op = "all_gatherv" => call = AllGathervCall(r, item)
      /\ item.op = "reduce_scatter" => call = ReduceScatterCall(item)
      /\ item.op = "reduce_scatterv" => call = ReduceScattervCall(item)
  BY DEF CallOf
<1>1. CASE OProj(r)
  BY <1>0, <1>1 DEF OProj, Enter
<1>2. CASE Moe(r)
  BY <1>0, <1>2 DEF Moe, Enter
<1>3. CASE Collective(r)
  <2>1. NotWaiting(r) /\ UNCHANGED setup
    BY <1>3 DEF Collective
  <2>2. CASE item.op = "all_gather" /\ Enter(r, AllGatherCall(item))
    BY <1>0, <2>1, <2>2 DEF Enter
  <2>3. CASE item.op = "all_gatherv" /\ Enter(r, AllGathervCall(r, item))
    BY <1>0, <2>1, <2>3 DEF Enter
  <2>4. CASE item.op = "reduce_scatter" /\ Enter(r, ReduceScatterCall(item))
    BY <1>0, <2>1, <2>4 DEF Enter
  <2>5. CASE item.op = "reduce_scatterv" /\ Enter(r, ReduceScattervCall(item))
    BY <1>0, <2>1, <2>5 DEF Enter
  <2> QED BY <1>3, <2>2, <2>3, <2>4, <2>5 DEF Collective
<1> QED BY <1>1, <1>2, <1>3

(* A step that enters nothing moves a rank on, where it has called.        *)
LEMMA MoveStep ==
  ASSUME CInv, UNCHANGED <<setup, calls, scratch>>, place' \in [Ranks -> Int],
         \A q \in Ranks : Position(q)'
  PROVE  CInv'
<1>1. \A q \in Ranks : \A n : (CallOf(q, n) = CallOf(q, n)')
  BY SameSetup
<1>2. \A q \in Ranks : Recorded(q)'
  BY <1>1 DEF CInv, Recorded
<1>3. Shape' /\ CollectivesMatch'
  BY DEF CInv, Shape, CollectivesMatch, Ranks
<1> QED BY <1>2, <1>3 DEF CInv, Ranks

LEMMA CollectivesStep == CInv /\ [Next]_vars => CInv'
<1> SUFFICES ASSUME CInv, [Next]_vars PROVE CInv'
  OBVIOUS
<1>1. /\ place \in [Ranks -> Int] /\ \A q \in Ranks : Position(q)
      /\ \A q \in Ranks : Len(calls[q]) \in Nat
  BY DEF CInv, Shape
<1>2. ASSUME NEW r \in Ranks, Load(r) PROVE CInv'
  BY <1>1, <1>2, MoveStep DEF Load, Position
<1>3. ASSUME NEW r \in Ranks, ProcessWeights(r) PROVE CInv'
  <2>1. place[r] = 0 /\ place' = [place EXCEPT ![r] = 1] /\ UNCHANGED <<setup, calls, scratch>>
    BY <1>3 DEF ProcessWeights
  <2> QED BY <1>1, <2>1, MoveStep DEF Position
<1>4. ASSUME NEW r \in Ranks, OProj(r) \/ Moe(r) \/ Collective(r) PROVE CInv'
  BY <1>4, EntersCallOf, EnterStep
<1>5. ASSUME NEW r \in Ranks, Leave(r) PROVE CInv'
  <2>1. place[r] \in 1 .. Len(Program) /\ Len(Program) \in Nat
    BY <1>5, SetupsOK DEF Leave, CInv, Shape, Program
  <2> QED BY <1>1, <1>5, <2>1, MoveStep DEF Leave, Position
<1>6. CASE UNCHANGED vars
  BY <1>1, <1>6, MoveStep DEF vars, Position
<1> QED BY <1>2, <1>3, <1>4, <1>5, <1>6 DEF Next, Step

LEMMA CollectivesInit == Init => CInv
<1> SUFFICES ASSUME Init PROVE CInv
  OBVIOUS
<1>1. calls \in [Ranks -> Seq({})] /\ \A r \in Ranks : Len(calls[r]) = 0 /\ calls[r] = <<>>
  BY DEF Init
<1>2. Shape
  BY <1>1 DEF Init, Shape
<1>3. CollectivesMatch /\ \A r \in Ranks : Position(r) /\ Recorded(r)
  BY <1>1 DEF Init, CollectivesMatch, Position, Recorded, Registered
<1> QED BY <1>2, <1>3 DEF CInv

(* Any two ranks make the same collectives in the same order, however far  *)
(* each is and whatever its output projection fell back to                 *)
(* (roce_cuda_communicator.py, flashinfer_sparse_woproj.py).               *)
THEOREM Matching == Spec => []CollectivesMatch
<1>1. CInv => CollectivesMatch
  BY DEF CInv
<1> QED BY CollectivesInit, CollectivesStep, <1>1, PTL DEF Spec

-----------------------------------------------------------------------------
(* The experts.                                                            *)

Split(r) ==
  IF setup.tp_size = 1 THEN [width |-> setup.even, off |-> 0]
  ELSE TpSplit(setup.even, setup.tp_size, r)

Loaded(r) == LoadWeights(setup.checkpoint, setup.expert_map[r], Split(r))

WInv ==
  /\ setup \in Setups /\ DOMAIN weights = Ranks
  /\ \A r \in Ranks : place[r] # -1 => weights[r] = Loaded(r)

Here(r) == {e \in setup.routed : setup.expert_map[r][e] # -1}
Share(r) == Columns([from |-> Split(r).off, count |-> Split(r).width])

(* Trellis and scales of a slot are cut at the same columns.               *)
LEMMA SplitInTiles ==
  ASSUME setup \in Setups, NEW r \in Ranks
  PROVE  /\ TILE * (Split(r).off \div TILE) = Split(r).off
         /\ TILE * (Split(r).width \div TILE) = Split(r).width
<1>1. /\ N \in Nat \ {0} /\ N # 1 /\ setup.even \in Nat /\ setup.even % TILE = 0
      /\ setup.tp_size \in {1, N} /\ r \in 0 .. N - 1 /\ TILE \in Nat \ {0}
  BY SeveralRanks, ExpertsOK, TilesOfBlock DEF Ranks
<1>2. CASE setup.tp_size = 1
  <2>1. Split(r).off = 0 /\ Split(r).width = setup.even
    BY <1>2 DEF Split
  <2>2. setup.even = TILE * (setup.even \div TILE) + (setup.even % TILE)
        /\ setup.even \div TILE \in Nat
    BY <1>1, DivFacts
  <2>3. TILE * (0 \div TILE) = 0
    BY <1>1
  <2>4. TILE * (setup.even \div TILE) \in Nat
    BY <1>1, <2>2
  <2> QED BY <1>1, <2>1, <2>2, <2>3, <2>4
<1>3. CASE setup.tp_size = N
  <2>1. Split(r).off = Off(setup.even, N, r) /\ Split(r).width = Width(setup.even, N, r)
    BY <1>1, <1>3 DEF Split, Off, Width
  <2> QED BY <1>1, <2>1, SharesInTiles
<1> QED BY <1>1, <1>2, <1>3

(* What a rank sums up: its columns of the experts it has.                 *)
LEMMA PartialIs ==
  ASSUME setup \in Setups, NEW r \in Ranks
  PROVE  Partial(Loaded(r), setup.expert_map[r], setup.routed) = Here(r) \X Share(r)
<1> DEFINE map == setup.expert_map[r]
           w == Loaded(r)
           whole == [from |-> Split(r).off, count |-> Split(r).width]
           cut(l) == {<<l, "gate_proj", "trellis">>, <<l, "gate_proj", "svh">>,
                      <<l, "up_proj", "trellis">>, <<l, "up_proj", "svh">>,
                      <<l, "down_proj", "trellis">>, <<l, "down_proj", "suh">>}
           computed(e) == IF /\ cut(map[e]) \subseteq DOMAIN w
                             /\ Cardinality({w[s] : s \in cut(map[e])}) = 1
                          THEN Columns(w[<<map[e], "up_proj", "svh">>])
                          ELSE {-1}
<1>1. ASSUME NEW e \in Here(r), NEW shard \in DOMAIN ProjOf, NEW suffix \in {"suh", "svh", "trellis"}
      PROVE  /\ <<map[e], ProjOf[shard], suffix>> \in DOMAIN w
             /\ w[<<map[e], ProjOf[shard], suffix>>] = Placed(Split(r), ProjOf[shard], suffix)
  <2>1. PICK i \in DOMAIN setup.checkpoint :
          setup.checkpoint[i] = [expert |-> e, shard |-> shard, suffix |-> suffix]
    BY ExpertsOK DEF Here
  <2>2. i \in {j \in DOMAIN setup.checkpoint : map[setup.checkpoint[j].expert] # -1}
    BY <2>1 DEF Here
  <2>3. <<map[e], ProjOf[shard], suffix>>
          = <<map[setup.checkpoint[i].expert], ProjOf[setup.checkpoint[i].shard],
              setup.checkpoint[i].suffix>>
    BY <2>1
  <2>4. <<map[e], ProjOf[shard], suffix>> \in DOMAIN w
    BY <2>2, <2>3 DEF Loaded, LoadWeights
  <2> QED BY <2>4 DEF Loaded, LoadWeights
<1>2. \A proj, suffix : Placed(Split(r), proj, "trellis") = whole
  BY SplitInTiles DEF Placed
<1>3. /\ Placed(Split(r), "gate_proj", "svh") = whole /\ Placed(Split(r), "up_proj", "svh") = whole
      /\ Placed(Split(r), "down_proj", "suh") = whole
  BY DEF Placed
<1>4. /\ DOMAIN ProjOf = {"w1", "w2", "w3"} /\ ProjOf["w1"] = "gate_proj"
      /\ ProjOf["w3"] = "up_proj" /\ ProjOf["w2"] = "down_proj"
  BY DEF ProjOf
<1> HIDE DEF map, w, whole
<1>5. ASSUME NEW e \in Here(r)
      PROVE  \A s \in cut(map[e]) : s \in DOMAIN w /\ w[s] = whole
  <2>1. /\ <<map[e], "gate_proj", "trellis">> \in DOMAIN w
        /\ w[<<map[e], "gate_proj", "trellis">>] = whole
    BY <1>1, <1>2, <1>4
  <2>2. /\ <<map[e], "gate_proj", "svh">> \in DOMAIN w /\ w[<<map[e], "gate_proj", "svh">>] = whole
    BY <1>1, <1>3, <1>4
  <2>3. /\ <<map[e], "up_proj", "trellis">> \in DOMAIN w
        /\ w[<<map[e], "up_proj", "trellis">>] = whole
    BY <1>1, <1>2, <1>4
  <2>4. /\ <<map[e], "up_proj", "svh">> \in DOMAIN w /\ w[<<map[e], "up_proj", "svh">>] = whole
    BY <1>1, <1>3, <1>4
  <2>5. /\ <<map[e], "down_proj", "trellis">> \in DOMAIN w
        /\ w[<<map[e], "down_proj", "trellis">>] = whole
    BY <1>1, <1>2, <1>4
  <2>6. /\ <<map[e], "down_proj", "suh">> \in DOMAIN w /\ w[<<map[e], "down_proj", "suh">>] = whole
    BY <1>1, <1>3, <1>4
  <2> QED BY <2>1, <2>2, <2>3, <2>4, <2>5, <2>6
<1>6. ASSUME NEW e \in Here(r) PROVE computed(e) = Columns(whole)
  <2>1. <<map[e], "up_proj", "svh">> \in cut(map[e])
    OBVIOUS
  <2> HIDE DEF cut
  <2>2. {w[s] : s \in cut(map[e])} = {whole}
    BY <1>5, <2>1
  <2>3. Cardinality({whole}) = 1
    BY FS_Singleton
  <2>4. cut(map[e]) \subseteq DOMAIN w
    BY <1>5
  <2> QED BY <1>5, <2>1, <2>2, <2>3, <2>4
<1>7. Partial(w, map, setup.routed) = UNION {{<<e, c>> : c \in computed(e)} : e \in Here(r)}
  BY DEF Partial, Here, map
<1> HIDE DEF computed
<1>8. UNION {{<<e, c>> : c \in computed(e)} : e \in Here(r)} = Here(r) \X Columns(whole)
  BY <1>6
<1> QED BY <1>7, <1>8 DEF Share, map, w, whole

LEMMA WeightsInit == Init => WInv
BY DEF Init, WInv

(* Weights are loaded once, at the first step of a rank.                   *)
LEMMA WeightsStep == CInv /\ WInv /\ [Next]_vars => WInv'
<1> SUFFICES ASSUME CInv, WInv, [Next]_vars PROVE WInv'
  OBVIOUS
<1>1. setup' = setup => \A q \in Ranks : (Loaded(q) = Loaded(q)')
  BY DEF Loaded, Split
<1>2. place \in [Ranks -> Int]
  BY DEF CInv, Shape
<1>3. ASSUME UNCHANGED <<setup, weights>>, \A q \in Ranks : place'[q] # -1 => place[q] # -1
      PROVE  WInv'
  BY <1>1, <1>3 DEF WInv, Ranks
<1>4. ASSUME NEW r \in Ranks, Load(r) PROVE WInv'
  <2>1. /\ weights' = [weights EXCEPT ![r] = Loaded(r)] /\ setup' = setup
        /\ place' = [place EXCEPT ![r] = 0]
    BY <1>4 DEF Load, Loaded, Split
  <2> QED BY <1>1, <1>2, <2>1 DEF WInv, Ranks
<1>5. ASSUME NEW r \in Ranks, ProcessWeights(r) PROVE WInv'
  <2>1. /\ UNCHANGED <<setup, weights>> /\ place[r] = 0
        /\ place' = [place EXCEPT ![r] = 1]
    BY <1>5 DEF ProcessWeights
  <2> QED BY <1>2, <1>3, <2>1
<1>6. ASSUME NEW r \in Ranks, OProj(r) \/ Moe(r) \/ Collective(r) PROVE WInv'
  <2>1. Enter(r, CallOf(r, place[r]))
    BY <1>6, EntersCallOf
  <2>2. UNCHANGED <<setup, weights, place>>
    BY <1>6, <2>1 DEF OProj, Moe, Collective, Enter
  <2> QED BY <1>3, <2>2
<1>7. ASSUME NEW r \in Ranks, Leave(r) PROVE WInv'
  <2>1. UNCHANGED <<setup, weights>> /\ place' = [place EXCEPT ![r] = @ + 1]
    BY <1>7 DEF Leave
  <2>2. place[r] # -1
    BY <1>7, SetupsOK DEF Leave, CInv, Shape, Program
  <2> QED BY <1>2, <1>3, <2>1, <2>2
<1>8. CASE UNCHANGED vars
  BY <1>3, <1>8 DEF vars
<1> QED BY <1>4, <1>5, <1>6, <1>7, <1>8 DEF Next, Step

(* An expert is whole on one rank, or its shares partition the columns.    *)
LEMMA WholeSum ==
  ASSUME setup \in Setups
  PROVE  /\ UNION {Here(r) \X Share(r) : r \in Ranks}
              = setup.routed \X (0 .. setup.even * setup.tp_size - 1)
         /\ \A r, q \in Ranks : r # q => (Here(r) \X Share(r)) \cap (Here(q) \X Share(q)) = {}
<1>1. /\ N \in Nat \ {0} /\ N # 1 /\ setup.even \in Nat
      /\ \/ setup.tp_size = N /\ \A r \in Ranks, e \in setup.routed : setup.expert_map[r][e] # -1
         \/ /\ setup.tp_size = 1
            /\ \A e \in setup.routed : \E r \in Ranks : \A q \in Ranks :
                 setup.expert_map[q][e] # -1 <=> q = r
  <2>1. N \in Nat \ {0} /\ N # 1
    BY SeveralRanks
  <2>2. setup.even \in Nat
    BY ExpertsOK
  <2>3. \/ setup.tp_size = N /\ \A r \in 0 .. N - 1, e \in setup.routed : setup.expert_map[r][e] # -1
        \/ /\ setup.tp_size = 1
           /\ \A e \in setup.routed : \E r \in 0 .. N - 1 : \A q \in 0 .. N - 1 :
                setup.expert_map[q][e] # -1 <=> q = r
    BY ExpertsOK, Zenon
  <2> QED BY <2>1, <2>2, <2>3, Zenon DEF Ranks
<1> DEFINE total == 0 .. setup.even * setup.tp_size - 1
<1>2. CASE setup.tp_size = N /\ \A r \in Ranks : Here(r) = setup.routed
  <2>1. \A r \in Ranks :
          Share(r) = Columns([from |-> Off(setup.even, N, r), count |-> Width(setup.even, N, r)])
    BY <1>1, <1>2 DEF Share, Split, Off, Width
  <2>2. /\ UNION {Share(r) : r \in Ranks} = total
        /\ \A r, q \in Ranks : r # q => Share(r) \cap Share(q) = {}
    <3> DEFINE share(r) ==
          Columns([from |-> Off(setup.even, N, r), count |-> Width(setup.even, N, r)])
    <3>1. /\ UNION {share(r) : r \in 0 .. N - 1} = 0 .. setup.even * N - 1
          /\ \A r, q \in 0 .. N - 1 : r # q => share(r) \cap share(q) = {}
      BY <1>1, SharesPartition
    <3>2. \A r \in Ranks : Share(r) = share(r)
      BY <2>1
    <3> HIDE DEF share
    <3> QED BY <1>2, <3>1, <3>2 DEF Ranks
  <2> HIDE DEF total
  <2>3. UNION {Here(r) \X Share(r) : r \in Ranks} = setup.routed \X total
    BY <1>2, <2>2
  <2> QED BY <1>2, <2>2, <2>3 DEF total
<1>3. CASE /\ setup.tp_size = 1
           /\ \A e \in setup.routed : \E r \in Ranks : \A q \in Ranks :
                setup.expert_map[q][e] # -1 <=> q = r
  <2>1. \A r \in Ranks : Share(r) = total
    BY <1>1, <1>3 DEF Share, Split, Columns
  <2>2. \A e \in setup.routed : \E r \in Ranks : e \in Here(r)
    BY <1>3 DEF Here
  <2>3. \A r, q \in Ranks : r # q => Here(r) \cap Here(q) = {}
    BY <1>3 DEF Here
  <2>4. \A r \in Ranks : Here(r) \subseteq setup.routed
    BY DEF Here
  <2> HIDE DEF total
  <2>5. UNION {Here(r) \X Share(r) : r \in Ranks} = setup.routed \X total
    BY <2>1, <2>2, <2>4
  <2> QED BY <2>3, <2>5 DEF total
<1> QED BY <1>1, <1>2, <1>3 DEF Here

(* The sum of the experts over the ranks holds each column of each routed  *)
(* expert once, with its own scales, however the dimension is cut          *)
(* (exl3_moe.py).                                                          *)
THEOREM ExpertsWhole == Spec => []SumIsWhole
<1>1. ASSUME CInv, WInv PROVE SumIsWhole
  <2> SUFFICES ASSUME NEW n \in DOMAIN Program, \A r \in Ranks : Len(calls[r]) = n
      PROVE  LET sum == [r \in Ranks |-> Partial(weights[r], setup.expert_map[r], setup.routed)]
                 total == 0 .. setup.even * setup.tp_size - 1
             IN /\ UNION {sum[r] : r \in Ranks} = setup.routed \X total
                /\ \A r, q \in Ranks : r # q => sum[r] \cap sum[q] = {}
    BY DEF SumIsWhole
  <2>1. setup \in Setups /\ n \in Nat /\ n > 0
    BY <1>1, SetupsOK DEF WInv, Program
  <2>2. \A r \in Ranks : place[r] # -1
    BY <1>1, <2>1 DEF CInv, Position
  <2>3. \A r \in Ranks : Partial(weights[r], setup.expert_map[r], setup.routed)
                            = Here(r) \X Share(r)
    BY <1>1, <2>1, <2>2, PartialIs DEF WInv
  <2> DEFINE sum == [r \in Ranks |-> Partial(weights[r], setup.expert_map[r], setup.routed)]
  <2>4. \A r \in Ranks : sum[r] = Here(r) \X Share(r)
    BY <2>3
  <2> HIDE DEF sum
  <2>5. /\ UNION {sum[r] : r \in Ranks} = setup.routed \X (0 .. setup.even * setup.tp_size - 1)
        /\ \A r, q \in Ranks : r # q => sum[r] \cap sum[q] = {}
    BY <2>1, <2>4, WholeSum
  <2> QED BY <2>5 DEF sum
<1> QED BY CollectivesInit, CollectivesStep, WeightsInit, WeightsStep, <1>1, PTL DEF Spec

-----------------------------------------------------------------------------
(* The output projection of a rank.                                        *)

(* It is prepared at most once, and what is built is not off.              *)
Prepared ==
  {wo \in [stashed : SUBSET {"wo_a", "wo_b"}, built : BOOLEAN, attempts : 0 .. 1,
           disabled : BOOLEAN] :
     wo.built => wo.attempts = 1 /\ ~wo.disabled}

LEMMA FreshPrepared == ASSUME NEW r PROVE Fresh(r) \in Prepared
BY DEF Fresh, Prepared

Wo(kept, built, n, off) ==
  [stashed |-> kept, built |-> built, attempts |-> n, disabled |-> off]
GivenUp(wo, d) == [wo EXCEPT !.attempts = 1, !.disabled = d]
Attempted(wo, b, d) == [wo EXCEPT !.attempts = 1, !.built = b, !.disabled = d]

LEMMA PreparedRecord ==
  ASSUME NEW kept \in SUBSET {"wo_a", "wo_b"}, NEW built \in BOOLEAN, NEW n \in 0 .. 1,
         NEW off \in BOOLEAN, built => n = 1 /\ ~off
  PROVE  Wo(kept, built, n, off) \in Prepared
<1> DEFINE wo == Wo(kept, built, n, off)
<1>1. wo \in [stashed : SUBSET {"wo_a", "wo_b"}, built : BOOLEAN, attempts : 0 .. 1,
              disabled : BOOLEAN]
  BY Zenon DEF Wo
<1>2. wo.built = built /\ wo.attempts = n /\ wo.disabled = off
  BY Zenon DEF Wo
<1> HIDE DEF wo
<1> QED BY <1>1, <1>2, Zenon DEF Prepared, wo

LEMMA Tried ==
  ASSUME NEW kept, NEW built, NEW n, NEW off, NEW b, NEW d
  PROVE  /\ GivenUp(Wo(kept, built, n, off), d) = Wo(kept, built, 1, d)
         /\ Attempted(Wo(kept, built, n, off), b, d) = Wo(kept, b, 1, d)
<1> DEFINE wo == Wo(kept, built, n, off)
           w1 == [wo EXCEPT !.attempts = 1]
           w2 == [w1 EXCEPT !.built = b]
<1>0. wo = [stashed |-> kept, built |-> built, attempts |-> n, disabled |-> off]
  BY DEF Wo
<1> HIDE DEF wo
<1>1. w1 = [stashed |-> kept, built |-> built, attempts |-> 1, disabled |-> off]
  BY <1>0
<1>2. GivenUp(wo, d) = [w1 EXCEPT !.disabled = d]
  BY DEF GivenUp
<1>3. Attempted(wo, b, d) = [w2 EXCEPT !.disabled = d]
  BY DEF Attempted
<1> HIDE DEF w1
<1>4. w2 = [stashed |-> kept, built |-> b, attempts |-> 1, disabled |-> off]
  BY <1>1
<1>5. [w1 EXCEPT !.disabled = d]
        = [stashed |-> kept, built |-> built, attempts |-> 1, disabled |-> d]
  BY <1>1
<1> HIDE DEF w2
<1>6. [w2 EXCEPT !.disabled = d] = [stashed |-> kept, built |-> b, attempts |-> 1, disabled |-> d]
  BY <1>4
<1>7. GivenUp(wo, d) = Wo(kept, built, 1, d)
  BY <1>2, <1>5, Zenon DEF Wo
<1>8. Attempted(wo, b, d) = Wo(kept, b, 1, d)
  BY <1>3, <1>6, Zenon DEF Wo
<1> QED BY <1>7, <1>8, Zenon DEF wo

LEMMA TryInitPrepared ==
  ASSUME NEW wo \in Prepared, NEW final \in BOOLEAN, NEW ok \in BOOLEAN
  PROVE  TryInit(wo, final, ok) \in Prepared
<1>1. PICK kept \in SUBSET {"wo_a", "wo_b"}, built \in BOOLEAN, n \in 0 .. 1, off \in BOOLEAN :
        wo = Wo(kept, built, n, off)
  BY DEF Prepared, Wo
<1>2. wo.built = built /\ 1 \in 0 .. 1
  BY <1>1 DEF Wo
<1>3. CASE wo.built \/ wo.attempts > 0
  BY <1>3 DEF TryInit
<1>4. CASE ~(wo.built \/ wo.attempts > 0) /\ wo.stashed # {"wo_a", "wo_b"}
  <2>1. PICK d \in BOOLEAN : d = TRUE
    OBVIOUS
  <2>2. TryInit(wo, final, ok) = IF final THEN GivenUp(wo, TRUE) ELSE wo
    BY <1>4 DEF TryInit, GivenUp
  <2>3. GivenUp(wo, d) = Wo(kept, built, 1, d)
    <3>1. GivenUp(Wo(kept, built, n, off), d) = Wo(kept, built, 1, d)
      BY Tried
    <3> QED BY <1>1, <3>1, Zenon
  <2>4. Wo(kept, built, 1, d) \in Prepared
    BY <1>2, <1>4, PreparedRecord, Zenon
  <2> QED BY <2>1, <2>2, <2>3, <2>4, Zenon
<1>5. CASE ~(wo.built \/ wo.attempts > 0) /\ wo.stashed = {"wo_a", "wo_b"}
  <2>1. PICK d \in BOOLEAN : d = ~ok
    OBVIOUS
  <2>2. TryInit(wo, final, ok) = Attempted(wo, ok, ~ok)
    BY <1>5, Zenon DEF TryInit, Attempted
  <2>3. TryInit(wo, final, ok) = Attempted(wo, ok, d)
    BY <2>1, <2>2, Zenon
  <2>4. Attempted(wo, ok, d) = Wo(kept, ok, 1, d)
    <3>1. Attempted(Wo(kept, built, n, off), ok, d) = Wo(kept, ok, 1, d)
      BY Tried
    <3> QED BY <1>1, <3>1, Zenon
  <2>5. ok => 1 = 1 /\ ~d
    BY <2>1, Zenon
  <2>6. Wo(kept, ok, 1, d) \in Prepared
    BY <1>2, <2>5, PreparedRecord, Zenon
  <2> QED BY <2>3, <2>4, <2>6, Zenon
<1> QED BY <1>3, <1>4, <1>5

LEMMA HookedPrepared ==
  ASSUME NEW wo \in Prepared, NEW linear \in {"wo_a", "wo_b"}, NEW ok \in BOOLEAN
  PROVE  Hooked(wo, linear, ok) \in Prepared
<1> DEFINE kept == IF linear \in setup.mxfp8 THEN [wo EXCEPT !.stashed = @ \cup {linear}]
                   ELSE wo
<1>1. kept \in Prepared
  BY DEF Prepared
<1>2. Hooked(wo, linear, ok) = IF linear = "wo_b" THEN TryInit(kept, FALSE, ok) ELSE kept
  BY DEF Hooked
<1> HIDE DEF kept
<1> QED BY <1>1, <1>2, TryInitPrepared

Hook(wo, ok, g, n) == IF n = 0 THEN wo ELSE Hooked(g[n - 1], setup.linears[n], ok)
Hooking(wo, ok, g, n) == g = [i \in 0 .. n |-> Hook(wo, ok, g, i)]

LEMMA NatInduct ==
  ASSUME NEW G \in SUBSET Nat,
         \A n \in Nat : (\A m \in Nat : m < n => m \in G) => n \in G
  PROVE  \A n \in Nat : n \in G
<1> SUFFICES ASSUME Nat \ G # {} PROVE FALSE
  OBVIOUS
<1>1. PICK n \in Nat \ G : \A m \in Nat \ G : <<m, n>> \notin OpToRel(<, Nat)
  BY NatLessThanWellFounded, WFMin
<1>2. \A m \in Nat : m < n => m \in G
  BY <1>1 DEF OpToRel
<1> QED BY <1>1, <1>2

(* One linear after the other: the state after each of the first n.        *)
LEMMA HookRecursion ==
  ASSUME NEW wo, NEW ok
  PROVE  \A n \in Nat : \E g : Hooking(wo, ok, g, n)
<1> DEFINE H == {n \in Nat : \E g : Hooking(wo, ok, g, n)}
<1>1. ASSUME NEW n \in Nat, \A m \in Nat : m < n => m \in H
      PROVE  n \in H
  <2>1. CASE n = 0
    <3> DEFINE g == [i \in 0 .. n |-> wo]
    <3>1. g = [i \in 0 .. n |-> Hook(wo, ok, g, i)]
      BY <2>1 DEF Hook
    <3> HIDE DEF g
    <3>2. Hooking(wo, ok, g, n)
      BY <3>1 DEF Hooking
    <3> QED BY <3>2
  <2>2. CASE n # 0
    <3>1. n - 1 \in Nat /\ n - 1 < n
      BY <2>2
    <3>2. PICK g : Hooking(wo, ok, g, n - 1)
      BY <1>1, <3>1
    <3>3. g = [i \in 0 .. n - 1 |-> Hook(wo, ok, g, i)]
      BY <3>2 DEF Hooking
    <3> DEFINE h == [i \in 0 .. n |-> Hook(wo, ok, g, i)]
    <3>4. \A i \in 0 .. n - 1 : h[i] = g[i]
      BY <3>3
    <3>5. ASSUME NEW i \in 0 .. n
          PROVE  Hook(wo, ok, g, i) = Hook(wo, ok, h, i)
      <4>1. CASE i = 0
        BY <4>1 DEF Hook
      <4>2. CASE i # 0
        <5>1. i - 1 \in 0 .. n - 1
          BY <4>2
        <5>2. h[i - 1] = g[i - 1]
          BY <3>4, <5>1
        <5> HIDE DEF h
        <5> QED BY <5>2 DEF Hook
      <4> QED BY <4>1, <4>2
    <3>6. h = [i \in 0 .. n |-> Hook(wo, ok, h, i)]
      BY <3>5
    <3> HIDE DEF h
    <3>7. Hooking(wo, ok, h, n)
      BY <3>6 DEF Hooking
    <3> QED BY <3>7
  <2> QED BY <2>1, <2>2
<1>2. H \in SUBSET Nat
  OBVIOUS
<1> HIDE DEF H
<1>3. \A n \in Nat : n \in H
  BY <1>1, <1>2, NatInduct
<1> QED BY <1>3 DEF H

LEMMA LinearsPrepared ==
  ASSUME setup \in Setups, NEW wo \in Prepared, NEW ok \in BOOLEAN
  PROVE  HookLinears(wo, ok) \in Prepared
<1> DEFINE L == Len(setup.linears)
           g == CHOOSE h : h = [i \in 0 .. L |-> Hook(wo, ok, h, i)]
<1>1. L \in Nat /\ \A n \in 1 .. L : setup.linears[n] \in {"wo_a", "wo_b"}
  BY SetupsOK
<1>2. HookLinears(wo, ok) = g[L]
  BY DEF HookLinears, Hook
<1>3. g = [i \in 0 .. L |-> Hook(wo, ok, g, i)]
  BY <1>1, HookRecursion DEF Hooking
<1> HIDE DEF g, L
<1> DEFINE H == {n \in Nat : n <= L => g[n] \in Prepared}
<1>4. ASSUME NEW n \in Nat, \A m \in Nat : m < n => m \in H
      PROVE  n \in H
  <2> SUFFICES ASSUME n <= L PROVE g[n] \in Prepared
    OBVIOUS
  <2>1. g[n] = Hook(wo, ok, g, n)
    BY <1>1, <1>3
  <2>2. CASE n = 0
    BY <2>1, <2>2 DEF Hook
  <2>3. CASE n # 0
    <3>1. n - 1 \in Nat /\ n - 1 < n /\ n - 1 <= L /\ n \in 1 .. L
      BY <1>1, <2>3
    <3>2. g[n - 1] \in Prepared
      BY <1>4, <3>1
    <3>3. g[n] = Hooked(g[n - 1], setup.linears[n], ok)
      BY <2>1, <2>3 DEF Hook
    <3> QED BY <1>1, <3>1, <3>2, <3>3, HookedPrepared
  <2> QED BY <2>2, <2>3
<1>5. H \in SUBSET Nat
  OBVIOUS
<1>6. L \in H
  <2> HIDE DEF H
  <2> QED BY <1>1, <1>4, <1>5, NatInduct
<1> QED BY <1>1, <1>2, <1>6

TInv == woproj \in [Ranks -> Prepared] /\ place \in [Ranks -> -1 .. Len(Program) + 1]

LEMMA TypesInit == Init => TInv
<1> SUFFICES ASSUME Init PROVE TInv
  OBVIOUS
<1>1. Len(Program) \in Nat
  BY SetupsOK DEF Init, Program
<1> QED BY <1>1, FreshPrepared DEF Init, TInv

LEMMA TypesStep == CInv /\ TInv /\ [Next]_vars => TInv'
<1> SUFFICES ASSUME CInv, TInv, [Next]_vars PROVE TInv'
  OBVIOUS
<1>1. setup \in Setups /\ Len(Program) \in Nat /\ DOMAIN Program = 1 .. Len(Program)
  BY SetupsOK DEF CInv, Shape, Program
<1>2. setup' = setup => Len(Program)' = Len(Program) /\ Ranks' = Ranks
  BY DEF Program, Ranks
<1>3. ASSUME NEW r \in Ranks, Load(r) PROVE TInv'
  BY <1>1, <1>2, <1>3 DEF Load, TInv
<1>4. ASSUME NEW r \in Ranks, ProcessWeights(r) PROVE TInv'
  <2>1. PICK ok \in BOOLEAN : woproj' = [woproj EXCEPT ![r] = IF @.disabled THEN @
                                                          ELSE HookLinears(@, ok)]
    BY <1>4 DEF ProcessWeights
  <2>2. woproj[r] \in Prepared /\ HookLinears(woproj[r], ok) \in Prepared
    BY <1>1, LinearsPrepared DEF TInv
  <2>3. woproj' \in [Ranks -> Prepared]
    BY <2>1, <2>2 DEF TInv
  <2>4. setup' = setup /\ place' = [place EXCEPT ![r] = 1]
    BY <1>4 DEF ProcessWeights
  <2> QED BY <1>1, <1>2, <2>3, <2>4 DEF TInv
<1>5. ASSUME NEW r \in Ranks, OProj(r) PROVE TInv'
  <2>1. PICK ok \in BOOLEAN : woproj' = [woproj EXCEPT ![r] = IF @.disabled THEN @
                                                          ELSE TryInit(@, TRUE, ok)]
    BY <1>5 DEF OProj
  <2>2. woproj[r] \in Prepared /\ TryInit(woproj[r], TRUE, ok) \in Prepared
    BY TryInitPrepared DEF TInv
  <2>3. woproj' \in [Ranks -> Prepared]
    BY <2>1, <2>2 DEF TInv
  <2>4. setup' = setup /\ place' = place
    BY <1>5 DEF OProj, Enter
  <2> QED BY <1>2, <2>3, <2>4 DEF TInv
<1>6. ASSUME NEW r \in Ranks, Moe(r) \/ Collective(r) PROVE TInv'
  <2>1. UNCHANGED <<setup, woproj, place>>
    BY <1>6 DEF Moe, Collective, Enter
  <2> QED BY <1>2, <2>1 DEF TInv
<1>7. ASSUME NEW r \in Ranks, Leave(r) PROVE TInv'
  BY <1>1, <1>2, <1>7 DEF Leave, TInv
<1>8. CASE UNCHANGED vars
  BY <1>2, <1>8 DEF vars, TInv
<1> QED BY <1>3, <1>4, <1>5, <1>6, <1>7, <1>8 DEF Next, Step

(* Types: a rank enters one call per item, and prepares its output         *)
(* projection at most once, whatever linears it has and in what order they *)
(* are processed (flashinfer_sparse_woproj.py).                            *)
THEOREM TypeCorrect == Spec => []TypeOK
<1>1. ASSUME CInv, TInv PROVE TypeOK
  <2>1. \A r \in Ranks : place[r] < 1 => calls[r] = <<>>
    BY <1>1 DEF CInv, Shape, Position
  <2>2. \A r \in Ranks : ~(place[r] < 1) => Len(calls[r]) \in {place[r] - 1, place[r]}
    BY <1>1 DEF CInv, Position
  <2> QED BY <1>1, <2>1, <2>2 DEF TypeOK, TInv, Prepared
<1> QED BY CollectivesInit, CollectivesStep, TypesInit, TypesStep, <1>1, PTL DEF Spec
===============================================================================
