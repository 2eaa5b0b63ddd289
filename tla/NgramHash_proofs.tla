--------------------------- MODULE NgramHash_proofs ---------------------------
(***************************************************************************)
(* Proofs, for every deployment, vocabulary and size of block, window and  *)
(* n-gram, that each position is hashed with the tokens before it.         *)
(***************************************************************************)
EXTENDS NgramHash, FiniteSetTheorems, WellFoundedInduction, TLAPS

-----------------------------------------------------------------------------
(* The inductive invariant.                                                *)

InBatch(r) == \E k \in DOMAIN batch : batch[k].req = r

(* Positions whose token is certain: all computed ones but the drafts.     *)
Committed(r) == IF computed[r] <= Len(tokens[r]) THEN computed[r] ELSE Len(tokens[r])

FirstOf(i) == i * BlockSize
BlockOf(p) == p \div BlockSize

Chunk == [req : Requests, start : Nat, drafts : Nat, toks : Seq(TokenIds)]
Caches == {"none", "temp", "real"}

Typed ==
  /\ deployment \in [slots : BOOLEAN, remote : BOOLEAN, preempt : Nat]
  /\ deployment.slots /\ deployment.remote => deployment.preempt = 0
  /\ kv_cache \in Caches /\ _kv_cache_ref \in Caches
  /\ phase \in [Requests -> {"new", "waiting", "running", "done"}]
  /\ tokens \in [Requests -> Seq(TokenIds)]
  /\ prompt_len \in [Requests -> Nat] /\ computed \in [Requests -> Nat]
  /\ DOMAIN table = Requests
  /\ prefix_of \in [Blocks -> Seq(TokenIds)]
  /\ batch \in Seq(Chunk)

(* The cache fits the KV cache it was made for; until the real one is      *)
(* bound there are no requests, and until it was used no request grows.    *)
CacheOK ==
  /\ \A s \in DOMAIN _cache : _cache[s] \in {Compressed(t) : t \in TokenIds}
  /\ deployment.slots /\ _kv_cache_ref # "none" => DOMAIN _cache = Slots(_kv_cache_ref)
  /\ deployment.slots /\ _kv_cache_ref # "real" =>
       \A r \in Requests : Len(tokens[r]) = prompt_len[r]
  /\ kv_cache # "real" => /\ batch = <<>>
                          /\ \A r \in Requests : phase[r] = "new"
                          /\ \A b \in Blocks : prefix_of[b] = <<>>

RequestOK(r) ==
  /\ prompt_len[r] <= Len(tokens[r]) /\ Len(tokens[r]) <= MaxLen + 1
  /\ computed[r] <= MaxLen
  /\ phase[r] # "running" => computed[r] = 0 /\ DOMAIN table[r] = {}
  /\ phase[r] = "new" => Len(tokens[r]) = 0
  /\ phase[r] \in {"waiting", "running"} => Len(tokens[r]) > 0
  /\ deployment.slots /\ deployment.remote /\ phase[r] = "waiting" =>
       Len(tokens[r]) = prompt_len[r]
  /\ ~InBatch(r) => computed[r] <= Len(tokens[r])

(* A row has a block for each computed position; the null block is behind  *)
(* the window only, and no other block is in the row twice.                *)
RowOK(r) ==
  /\ \E n \in Nat : DOMAIN table[r] = 0 .. n - 1 /\ computed[r] <= FirstOf(n)
  /\ \A i \in DOMAIN table[r] : table[r][i] \in Blocks \cup {NullBlock}
  /\ ~InBatch(r) => \A i \in DOMAIN table[r] :
                      i >= FirstNeeded(computed[r]) => table[r][i] \in Blocks
  /\ \A i, j \in DOMAIN table[r] :
       table[r][i] = table[r][j] /\ table[r][i] \in Blocks => i = j

ChunkOK(k) ==
  LET c == batch[k]
      r == c.req IN
  /\ phase[r] = "running" /\ computed[r] = c.start + Len(c.toks)
  /\ c.drafts < Len(c.toks) /\ computed[r] - c.drafts <= Len(tokens[r])
  /\ c.drafts > 0 => computed[r] - c.drafts = Len(tokens[r])
  /\ \A j \in 1 .. Len(c.toks) - c.drafts : c.toks[j] = tokens[r][c.start + j]
  /\ \A i \in DOMAIN table[r] : i >= FirstNeeded(c.start) => table[r][i] \in Blocks
  /\ \A l \in DOMAIN batch : batch[l].req = r => l = k

(* A block of two rows is cached.                                          *)
SharedOK ==
  \A r, q \in Requests : \A i \in DOMAIN table[r], j \in DOMAIN table[q] :
    r # q /\ table[r][i] = table[q][j] /\ table[r][i] \in Blocks =>
      prefix_of[table[r][i]] # <<>>

(* A cached block of a row holds tokens that are certain, and is what its  *)
(* prefix says.                                                            *)
CachedOK(r) ==
  \A i \in DOMAIN table[r] :
    LET prefix == prefix_of[table[r][i]] IN
    table[r][i] \in Blocks /\ prefix # <<>> =>
      /\ FirstOf(i + 1) <= Committed(r) /\ Len(prefix) = FirstOf(i + 1)
      /\ \A j \in 1 .. FirstOf(i + 1) : prefix[j] = tokens[r][j]

(* Slots the next forward writes: one for each token of the batch.         *)
WriteSlot(k, j) == SlotOf(batch[k].req, batch[k].start + j - 1)

WritesApart ==
  \A k, l \in DOMAIN batch :
  \A i \in DOMAIN batch[k].toks, j \in DOMAIN batch[l].toks :
    WriteSlot(k, i) = WriteSlot(l, j) => k = l /\ i = j

(* What a slot holds once the next forward has written.                    *)
Lands(s, v) ==
  \/ \E k \in DOMAIN batch : \E j \in DOMAIN batch[k].toks :
       WriteSlot(k, j) = s /\ v = Compressed(batch[k].toks[j])
  \/ /\ \A k \in DOMAIN batch : \A j \in DOMAIN batch[k].toks : WriteSlot(k, j) # s
     /\ v = EnsureCache[s]

(* Certain positions of a request hold their token, save those that came   *)
(* from another instance; so do cached blocks, where none do.              *)
RowHeld(r) ==
  \A p \in Nat :
    /\ p < Committed(r) /\ (deployment.remote => p >= prompt_len[r])
    /\ table[r][BlockOf(p)] \in Blocks
    => Lands(SlotOf(r, p), Compressed(tokens[r][p + 1]))

CachedHeld(b) ==
  prefix_of[b] # <<>> =>
    \A o \in 0 .. BlockSize - 1 :
      Lands(<<b, o>>, Compressed(prefix_of[b][Len(prefix_of[b]) - BlockSize + o + 1]))

SlotsOK ==
  deployment.slots =>
    /\ \A r \in Requests : RowHeld(r)
    /\ ~deployment.remote => \A b \in Blocks : CachedHeld(b)

HashOK == \A h \in hashed : h.ids = TrueIds(h.seq, h.pos)

HInv ==
  /\ Typed /\ CacheOK
  /\ \A r \in Requests : RequestOK(r) /\ RowOK(r) /\ CachedOK(r)
  /\ \A k \in DOMAIN batch : ChunkOK(k)
  /\ SharedOK /\ WritesApart /\ SlotsOK /\ HashOK

-----------------------------------------------------------------------------
(* Positions and blocks.                                                   *)

LEMMA DivFacts ==
  ASSUME NEW a \in Nat, NEW b \in Nat \ {0}
  PROVE  /\ a \div b \in Nat /\ a % b \in 0 .. b - 1
         /\ a = b * (a \div b) + (a % b)
OBVIOUS

(* Blocks lie one after the other.                                         *)
LEMMA Laid ==
  /\ \A i \in Nat : FirstOf(i) \in Nat /\ FirstOf(i + 1) = FirstOf(i) + BlockSize
  /\ FirstOf(0) = 0
  /\ \A i, j \in Nat : i < j => FirstOf(i + 1) <= FirstOf(j)
<1>1. BlockSize \in Nat \ {0}
  BY CacheShape
<1>2. \A i \in Nat : FirstOf(i) \in Nat /\ FirstOf(i + 1) = FirstOf(i) + BlockSize
  BY <1>1 DEF FirstOf
<1>3. ASSUME NEW i \in Nat, NEW j \in Nat, i < j
      PROVE  FirstOf(i + 1) <= FirstOf(j)
  <2>1. PICK d \in Nat : j = (i + 1) + d
    <3>1. j - (i + 1) \in Nat /\ j = (i + 1) + (j - (i + 1))
      BY <1>3
    <3> QED BY <3>1
  <2>2. FirstOf(j) = FirstOf(i + 1) + d * BlockSize
    BY <1>1, <2>1 DEF FirstOf
  <2>3. d * BlockSize \in Nat /\ FirstOf(i + 1) \in Nat
    BY <1>1, <1>2
  <2> QED BY <2>2, <2>3
<1> QED BY <1>1, <1>2, <1>3 DEF FirstOf

(* The block of a position, and its place there.                           *)
LEMMA InBlock ==
  ASSUME NEW p \in Nat
  PROVE  /\ BlockOf(p) \in Nat /\ p % BlockSize \in 0 .. BlockSize - 1
         /\ p = FirstOf(BlockOf(p)) + (p % BlockSize)
         /\ \A n \in Nat : BlockOf(p) < n <=> p < FirstOf(n)
<1>1. BlockSize \in Nat \ {0}
  BY CacheShape
<1> DEFINE b == p \div BlockSize
           o == p % BlockSize
<1>2. b \in Nat /\ o \in 0 .. BlockSize - 1 /\ p = BlockSize * b + o
  BY <1>1, DivFacts
<1> HIDE DEF b, o
<1>3. BlockSize * b = FirstOf(b)
  BY <1>1, <1>2 DEF FirstOf
<1>4. b \in Nat /\ o \in 0 .. BlockSize - 1 /\ p = FirstOf(b) + o
  BY <1>2, <1>3
<1>5. ASSUME NEW n \in Nat PROVE b < n <=> p < FirstOf(n)
  <2>0. FirstOf(n) \in Nat /\ FirstOf(b) \in Nat
    BY <1>4, Laid
  <2>1. b < n => p < FirstOf(n)
    BY <1>1, <1>4, Laid
  <2>2. n <= b => FirstOf(n) <= FirstOf(b)
    BY <1>1, <1>4, Laid
  <2> QED BY <1>1, <1>4, <2>0, <2>1, <2>2
<1>6. BlockOf(p) = b
  BY DEF b, BlockOf
<1>7. p % BlockSize = o
  BY DEF o
<1> QED BY <1>4, <1>5, <1>6, <1>7

LEMMA SameBlock ==
  ASSUME NEW p \in Nat, NEW i \in Nat
  PROVE  BlockOf(p) = i <=> FirstOf(i) <= p /\ p < FirstOf(i + 1)
<1>1. /\ BlockOf(p) \in Nat
      /\ BlockOf(p) < i <=> p < FirstOf(i)
      /\ BlockOf(p) < i + 1 <=> p < FirstOf(i + 1)
  BY InBlock
<1>2. FirstOf(i) \in Nat /\ FirstOf(i + 1) \in Nat
  BY Laid
<1> QED BY <1>1, <1>2

LEMMA SameFirst ==
  ASSUME NEW i \in Nat, NEW j \in Nat, FirstOf(i + 1) = FirstOf(j + 1)
  PROVE  i = j
<1>1. BlockSize \in Nat \ {0} /\ FirstOf(i) \in Nat /\ FirstOf(j) \in Nat
      /\ FirstOf(i + 1) = FirstOf(i) + BlockSize /\ FirstOf(j + 1) = FirstOf(j) + BlockSize
  BY Laid, CacheShape
<1>2. i < j => FirstOf(i + 1) <= FirstOf(j)
  BY Laid
<1>3. j < i => FirstOf(j + 1) <= FirstOf(i)
  BY Laid
<1> QED BY <1>1, <1>2, <1>3

(* The window frees blocks in order, and none that a lookback reaches.     *)
LEMMA Window_ ==
  /\ \A p \in Nat : FirstNeeded(p) \in Nat
  /\ \A p, q \in Nat : p <= q => FirstNeeded(p) <= FirstNeeded(q)
  /\ \A p, q \in Nat : q - p < Window => FirstNeeded(q) <= BlockOf(p)
<1>1. BlockSize \in Nat \ {0} /\ Window \in Nat /\ Window > 0
  BY CacheShape, WindowCoversLookback
<1> DEFINE from(p) == IF p < Window THEN 0 ELSE p - Window + 1
<1>2. \A p \in Nat : from(p) \in Nat /\ FirstNeeded(p) = BlockOf(from(p))
  <2>1. BlockOf(0) = 0
    BY <1>1 DEF BlockOf
  <2> QED BY <1>1, <2>1 DEF FirstNeeded, BlockOf
<1>3. \A p, q \in Nat : p <= q => BlockOf(p) <= BlockOf(q)
  <2> SUFFICES ASSUME NEW p \in Nat, NEW q \in Nat, p <= q
               PROVE  BlockOf(p) <= BlockOf(q)
    OBVIOUS
  <2>1. BlockOf(p) \in Nat /\ BlockOf(q) \in Nat
    BY InBlock
  <2>2. BlockOf(q) + 1 \in Nat /\ FirstOf(BlockOf(q) + 1) \in Nat
    BY <2>1, Laid
  <2>3. q < FirstOf(BlockOf(q) + 1)
    BY <2>1, <2>2, InBlock
  <2>4. p < FirstOf(BlockOf(q) + 1)
    BY <2>2, <2>3
  <2>5. BlockOf(p) < BlockOf(q) + 1
    BY <2>2, <2>4, InBlock
  <2> QED BY <2>1, <2>5
<1>4. \A p, q \in Nat : p <= q => from(p) <= from(q)
  BY <1>1
<1>5. \A p, q \in Nat : q - p < Window => from(q) <= p
  BY <1>1
<1> HIDE DEF from
<1>6. \A p \in Nat : FirstNeeded(p) \in Nat
  BY <1>2, InBlock
<1> QED BY <1>2, <1>3, <1>4, <1>5, <1>6

-----------------------------------------------------------------------------
(* The flat batch.                                                         *)

LEMMA BatchFacts ==
  ASSUME HInv, NEW k \in DOMAIN batch
  PROVE  /\ k \in 1 .. Len(batch) /\ Len(batch) \in Nat
         /\ batch[k].req \in Requests /\ batch[k].start \in Nat /\ batch[k].drafts \in Nat
         /\ batch[k].toks \in Seq(TokenIds) /\ Len(batch[k].toks) \in 1 .. MaxLen
         /\ DOMAIN batch[k].toks = 1 .. Len(batch[k].toks)
         /\ batch[k].start + Len(batch[k].toks) = computed[batch[k].req]
         /\ InBatch(batch[k].req)
<1>1. batch[k] \in Chunk /\ k \in 1 .. Len(batch) /\ Len(batch) \in Nat
  BY DEF HInv, Typed
<1>2. /\ batch[k].req \in Requests /\ batch[k].start \in Nat /\ batch[k].drafts \in Nat
      /\ batch[k].toks \in Seq(TokenIds)
  BY <1>1 DEF Chunk
<1>3. /\ computed[batch[k].req] = batch[k].start + Len(batch[k].toks)
      /\ batch[k].drafts < Len(batch[k].toks) /\ computed[batch[k].req] <= MaxLen
  BY <1>2 DEF HInv, ChunkOK, RequestOK
<1>4. Len(batch[k].toks) \in Nat /\ DOMAIN batch[k].toks = 1 .. Len(batch[k].toks)
  BY <1>2
<1> QED BY <1>1, <1>2, <1>3, <1>4, TokensOK DEF InBatch

LEMMA UpTo ==
  ASSUME NEW n \in Nat
  PROVE  IsFiniteSet(1 .. n) /\ Cardinality(1 .. n) = n
<1>1. 1 \in Int /\ n \in Int
  OBVIOUS
<1>2. IsFiniteSet(1 .. n) /\ Cardinality(1 .. n) = IF 1 > n THEN 0 ELSE n - 1 + 1
  BY <1>1, FS_Interval
<1> QED BY <1>2

(* The tokens of the first m chunks, counted.                              *)
LEMMA Ends ==
  ASSUME HInv
  PROVE  /\ QueryEnd(0) = 0
         /\ \A m \in 0 .. Len(batch) : QueryEnd(m) \in Nat
         /\ \A m \in 1 .. Len(batch) : QueryEnd(m) = QueryEnd(m - 1) + Len(batch[m].toks)
         /\ \A m, n \in 0 .. Len(batch) : m <= n => QueryEnd(m) <= QueryEnd(n)
<1>1. Len(batch) \in Nat /\ DOMAIN batch = 1 .. Len(batch)
  BY DEF HInv, Typed
<1>2. \A k \in 1 .. Len(batch) : /\ Len(batch[k].toks) \in 1 .. MaxLen
                                 /\ DOMAIN batch[k].toks = 1 .. Len(batch[k].toks)
  BY <1>1, BatchFacts
<1>3. QueryEnd(0) = 0
  <2>1. Entries(0) = {}
    BY DEF Entries
  <2> QED BY <2>1, FS_EmptySet DEF QueryEnd
<1>4. ASSUME NEW m \in 0 .. Len(batch)
      PROVE  IsFiniteSet(Entries(m)) /\ QueryEnd(m) \in Nat
  <2>1. IsFiniteSet(1 .. Len(batch)) /\ IsFiniteSet(1 .. MaxLen)
    BY <1>1, TokensOK, UpTo
  <2>2. IsFiniteSet((1 .. Len(batch)) \X (1 .. MaxLen))
    BY <2>1, FS_Product
  <2>3. Entries(m) \subseteq (1 .. Len(batch)) \X (1 .. MaxLen)
    <3> SUFFICES ASSUME NEW i \in 1 .. m, NEW e \in {i} \X DOMAIN batch[i].toks
                 PROVE  e \in (1 .. Len(batch)) \X (1 .. MaxLen)
      BY DEF Entries
    <3>1. i \in 1 .. Len(batch) /\ DOMAIN batch[i].toks \subseteq 1 .. MaxLen
      <4>1. i \in 1 .. Len(batch)
        BY <1>1
      <4>2. Len(batch[i].toks) \in 1 .. MaxLen /\ DOMAIN batch[i].toks = 1 .. Len(batch[i].toks)
        BY <1>2, <4>1
      <4> QED BY <4>1, <4>2, TokensOK
    <3> QED BY <3>1
  <2>4. IsFiniteSet(Entries(m))
    BY <2>2, <2>3, FS_Subset
  <2> QED BY <2>4, FS_CardinalityType DEF QueryEnd
<1>5. ASSUME NEW m \in 1 .. Len(batch)
      PROVE  QueryEnd(m) = QueryEnd(m - 1) + Len(batch[m].toks)
  <2> DEFINE own == {m} \X DOMAIN batch[m].toks
  <2>1. m \in 0 .. Len(batch) /\ m - 1 \in 0 .. Len(batch)
    BY <1>1
  <2>2. IsFiniteSet(own) /\ Cardinality(own) = Len(batch[m].toks)
    <3>1. /\ IsFiniteSet(1 .. Len(batch[m].toks))
          /\ Cardinality(1 .. Len(batch[m].toks)) = Len(batch[m].toks)
      <4>1. Len(batch[m].toks) \in 1 .. MaxLen
        BY <1>2
      <4>2. Len(batch[m].toks) \in Nat /\ 1 \in Int
        BY <4>1, TokensOK
      <4> QED BY <4>2, UpTo
    <3>2. IsFiniteSet({m}) /\ Cardinality({m}) = 1
      BY FS_Singleton
    <3>3. own = {m} \X (1 .. Len(batch[m].toks))
      BY <1>2
    <3>4. /\ IsFiniteSet({m} \X (1 .. Len(batch[m].toks)))
          /\ Cardinality({m} \X (1 .. Len(batch[m].toks))) = 1 * Len(batch[m].toks)
      <4> DEFINE one == {m}
                 mine == 1 .. Len(batch[m].toks)
      <4>1. IsFiniteSet(one) /\ IsFiniteSet(mine)
        BY <3>1, <3>2
      <4> HIDE DEF one, mine
      <4>2. /\ IsFiniteSet(one \X mine)
            /\ Cardinality(one \X mine) = Cardinality(one) * Cardinality(mine)
        BY <4>1, FS_Product
      <4>3. Cardinality(one) = 1 /\ Cardinality(mine) = Len(batch[m].toks)
        BY <3>1, <3>2 DEF one, mine
      <4> QED BY <4>2, <4>3 DEF one, mine
    <3>5. Len(batch[m].toks) \in Nat
      BY <1>2, TokensOK
    <3> HIDE DEF own
    <3> QED BY <3>3, <3>4, <3>5
  <2>3. Entries(m) = Entries(m - 1) \cup own
    <3>1. 1 .. m = 1 .. (m - 1) \cup {m}
      BY <1>1
    <3> QED BY <3>1 DEF Entries
  <2>4. Entries(m - 1) \cap own = {}
    <3>1. \A e \in Entries(m - 1) : \E i \in 1 .. m - 1 : e \in {i} \X DOMAIN batch[i].toks
      BY DEF Entries
    <3>2. \A i \in 1 .. m - 1 : i # m
      BY <1>1
    <3> QED BY <3>1, <3>2
  <2>5. IsFiniteSet(Entries(m - 1)) /\ QueryEnd(m - 1) \in Nat
    BY <1>4, <2>1
  <2> HIDE DEF own
  <2>6. Cardinality(Entries(m)) = Cardinality(Entries(m - 1)) + Cardinality(own)
                                    - Cardinality(Entries(m - 1) \cap own)
    BY <2>2, <2>3, <2>5, FS_Union
  <2>7. Len(batch[m].toks) \in Nat
    BY <1>2, TokensOK
  <2>8. Cardinality(Entries(m - 1) \cap own) = 0
    BY <2>4, FS_EmptySet
  <2>9. /\ QueryEnd(m) = Cardinality(Entries(m))
        /\ QueryEnd(m - 1) = Cardinality(Entries(m - 1))
    BY DEF QueryEnd
  <2> QED BY <2>2, <2>5, <2>6, <2>7, <2>8, <2>9
<1>6. ASSUME NEW m \in 0 .. Len(batch), NEW n \in 0 .. Len(batch), m <= n
      PROVE  QueryEnd(m) <= QueryEnd(n)
  <2>1. Entries(m) \subseteq Entries(n)
    <3>1. 1 .. m \subseteq 1 .. n
      BY <1>1, <1>6
    <3> QED BY <3>1 DEF Entries
  <2>2. IsFiniteSet(Entries(n))
    BY <1>4
  <2> QED BY <2>1, <2>2, FS_Subset DEF QueryEnd
<1> QED BY <1>3, <1>4, <1>5, <1>6

(* There are no more chunks than requests.                                 *)
LEMMA BatchFits ==
  ASSUME HInv
  PROVE  Len(batch) <= Cardinality(Requests) /\ Cardinality(Requests) \in Nat
<1>1. Len(batch) \in Nat /\ DOMAIN batch = 1 .. Len(batch)
  BY DEF HInv, Typed
<1> DEFINE req == [k \in 1 .. Len(batch) |-> batch[k].req]
<1>2. \A k \in 1 .. Len(batch) : batch[k].req \in Requests
  BY <1>1, BatchFacts
<1>3. \A k, l \in 1 .. Len(batch) : batch[k].req = batch[l].req => k = l
  BY <1>1 DEF HInv, ChunkOK
<1>4. req \in Injection(1 .. Len(batch), Requests)
  BY <1>2, <1>3 DEF Injection, IsInjective
<1>5. IsFiniteSet(Requests) /\ Cardinality(Requests) \in Nat
  BY CacheShape, FS_CardinalityType
<1>6. IsFiniteSet(1 .. Len(batch)) /\ Cardinality(1 .. Len(batch)) = Len(batch)
  BY <1>1, UpTo
<1>7. Cardinality(1 .. Len(batch)) <= Cardinality(Requests)
  BY <1>4, <1>5, FS_Injection
<1> QED BY <1>5, <1>6, <1>7

Row(t) == CHOOSE m \in DOMAIN batch : QueryEnd(m - 1) < t /\ t <= QueryEnd(m)

LEMMA RowIs ==
  ASSUME HInv, NEW k \in DOMAIN batch, NEW j \in DOMAIN batch[k].toks
  PROVE  /\ QueryEnd(k - 1) + j \in 1 .. QueryEnd(Len(batch))
         /\ QueryEnd(k - 1) \in Nat
         /\ Row(QueryEnd(k - 1) + j) = k
<1>1. /\ k \in 1 .. Len(batch) /\ Len(batch) \in Nat /\ DOMAIN batch = 1 .. Len(batch)
      /\ j \in 1 .. Len(batch[k].toks) /\ Len(batch[k].toks) \in Nat
  BY BatchFacts, TokensOK DEF HInv, Typed
<1>2. /\ \A m \in 0 .. Len(batch) : QueryEnd(m) \in Nat
      /\ \A m \in 1 .. Len(batch) : QueryEnd(m) = QueryEnd(m - 1) + Len(batch[m].toks)
      /\ \A m, n \in 0 .. Len(batch) : m <= n => QueryEnd(m) <= QueryEnd(n)
  BY Ends
<1>3. /\ k - 1 \in 0 .. Len(batch) /\ k \in 0 .. Len(batch) /\ Len(batch) \in 0 .. Len(batch)
      /\ k <= Len(batch)
  BY <1>1
<1> DEFINE t == QueryEnd(k - 1) + j
<1>4. /\ QueryEnd(k - 1) \in Nat /\ QueryEnd(k) \in Nat /\ QueryEnd(Len(batch)) \in Nat
      /\ QueryEnd(k - 1) < t /\ t <= QueryEnd(k) /\ QueryEnd(k) <= QueryEnd(Len(batch))
      /\ t \in Nat
  <2>1. /\ QueryEnd(k - 1) \in Nat /\ QueryEnd(k) \in Nat /\ QueryEnd(Len(batch)) \in Nat
        /\ QueryEnd(k) <= QueryEnd(Len(batch))
    BY <1>2, <1>3
  <2>2. QueryEnd(k) = QueryEnd(k - 1) + Len(batch[k].toks)
    BY <1>1, <1>2
  <2>3. j \in 1 .. Len(batch[k].toks) /\ Len(batch[k].toks) \in Nat
    BY <1>1
  <2> DEFINE e == QueryEnd(k - 1)
             f == QueryEnd(k)
             n == Len(batch[k].toks)
  <2>4. e \in Nat /\ f = e + n /\ j \in 1 .. n /\ n \in Nat
    BY <2>1, <2>2, <2>3
  <2> HIDE DEF e, f, n
  <2>5. e < e + j /\ e + j <= f /\ e + j \in Nat
    BY <2>4
  <2> QED BY <2>1, <2>5 DEF e, f
<1>5. ASSUME NEW m \in DOMAIN batch, QueryEnd(m - 1) < t, t <= QueryEnd(m)
      PROVE  m = k
  <2>1. m \in 1 .. Len(batch) /\ m - 1 \in 0 .. Len(batch) /\ m \in 0 .. Len(batch)
    BY <1>1
  <2>2. QueryEnd(m) \in Nat /\ QueryEnd(m - 1) \in Nat
    BY <1>2, <2>1
  <2>3. m < k => QueryEnd(m) <= QueryEnd(k - 1)
    BY <1>1, <1>2, <1>3, <2>1
  <2>4. k < m => QueryEnd(k) <= QueryEnd(m - 1)
    BY <1>1, <1>2, <1>3, <2>1
  <2> HIDE DEF t
  <2>5. t \in Nat /\ QueryEnd(k - 1) < t /\ t <= QueryEnd(k) /\ QueryEnd(k) \in Nat
        /\ QueryEnd(k - 1) \in Nat
    BY <1>4
  <2>6. ~(m < k)
    BY <1>5, <2>2, <2>3, <2>5
  <2>7. ~(k < m)
    BY <1>5, <2>2, <2>4, <2>5
  <2> QED BY <1>1, <2>1, <2>6, <2>7
<1> HIDE DEF t
<1>6. Row(t) = k
  BY <1>4, <1>5 DEF Row
<1>7. t \in 1 .. QueryEnd(Len(batch))
  BY <1>4
<1> QED BY <1>4, <1>6, <1>7 DEF t

(* Each place of the flat batch is a token of a chunk.                     *)
LEMMA RowExists ==
  ASSUME HInv, NEW t \in 1 .. QueryEnd(Len(batch))
  PROVE  \E k \in DOMAIN batch : \E j \in DOMAIN batch[k].toks : t = QueryEnd(k - 1) + j
<1>1. /\ Len(batch) \in Nat /\ DOMAIN batch = 1 .. Len(batch)
      /\ Len(batch) \in 0 .. Len(batch)
  BY DEF HInv, Typed
<1>2. /\ QueryEnd(0) = 0
      /\ \A m \in 0 .. Len(batch) : QueryEnd(m) \in Nat
      /\ \A m \in 1 .. Len(batch) : QueryEnd(m) = QueryEnd(m - 1) + Len(batch[m].toks)
  BY Ends
<1> DEFINE T == {m \in Nat : m <= Len(batch) /\ t <= QueryEnd(m)}
<1>3. t \in Nat /\ t > 0 /\ t <= QueryEnd(Len(batch))
  BY <1>1, <1>2
<1>4. Len(batch) \in T
  BY <1>1, <1>3
<1>5. PICK k \in T : \A m \in T : ~(m < k)
  <2>1. PICK k \in T : \A m \in T : <<m, k>> \notin OpToRel(<, Nat)
    BY <1>4, NatLessThanWellFounded, WFMin
  <2> QED BY <2>1 DEF OpToRel
<1>6. k # 0
  BY <1>2, <1>3, <1>5
<1>7. /\ k \in 1 .. Len(batch) /\ k - 1 \in 0 .. Len(batch) /\ k - 1 \in Nat
      /\ k - 1 < k /\ k - 1 <= Len(batch)
  BY <1>1, <1>5, <1>6
<1>8. ~(t <= QueryEnd(k - 1)) /\ t <= QueryEnd(k)
  BY <1>5, <1>7
<1> HIDE DEF T
<1>9. k \in DOMAIN batch /\ QueryEnd(k - 1) \in Nat
      /\ QueryEnd(k) = QueryEnd(k - 1) + Len(batch[k].toks)
  BY <1>1, <1>2, <1>7
<1>10. /\ DOMAIN batch[k].toks = 1 .. Len(batch[k].toks) /\ Len(batch[k].toks) \in Nat
  BY <1>9, BatchFacts, TokensOK
<1>11. t - QueryEnd(k - 1) \in DOMAIN batch[k].toks /\ t = QueryEnd(k - 1) + (t - QueryEnd(k - 1))
  BY <1>3, <1>8, <1>9, <1>10
<1> QED BY <1>9, <1>11

(* Token t of the step is token j of chunk k; those of the chunk before it *)
(* are before it in the step.                                              *)
IsToken(t, k, j) ==
  /\ t \in DOMAIN Flat.input_ids
  /\ ChunkOf(Flat, t) = batch[k]
  /\ Flat.positions[t] = batch[k].start + j - 1
  /\ \A d \in 0 .. j - 1 : Flat.input_ids[t - d] = batch[k].toks[j - d]

LEMMA TokenAt ==
  ASSUME HInv, NEW k \in DOMAIN batch, NEW j \in DOMAIN batch[k].toks
  PROVE  IsToken(QueryEnd(k - 1) + j, k, j)
<1> DEFINE e == QueryEnd(k - 1)
           t == e + j
           total == QueryEnd(Len(batch))
<1>1. /\ k \in 1 .. Len(batch) /\ Len(batch) \in Nat /\ DOMAIN batch = 1 .. Len(batch)
      /\ batch[k].start \in Nat
      /\ DOMAIN batch[k].toks = 1 .. Len(batch[k].toks) /\ Len(batch[k].toks) \in Nat
  BY BatchFacts, TokensOK DEF HInv, Typed
<1>2. e \in Nat /\ \A i \in DOMAIN batch[k].toks : e + i \in 1 .. total /\ Row(e + i) = k
  BY RowIs
<1>3. /\ Flat.input_ids = [q \in 1 .. total |-> batch[Row(q)].toks[q - QueryEnd(Row(q) - 1)]]
      /\ Flat.positions = [q \in 1 .. total |-> batch[Row(q)].start + (q - QueryEnd(Row(q) - 1)) - 1]
  BY DEF Flat, Row
<1>4. \A m \in 0 .. Len(batch) : Flat.query_start_loc[m] = QueryEnd(m)
  <2>1. Flat.query_start_loc = [m \in 0 .. Cardinality(Requests) |->
          QueryEnd(IF m < Len(batch) THEN m ELSE Len(batch))]
    BY DEF Flat
  <2>2. Len(batch) <= Cardinality(Requests) /\ Cardinality(Requests) \in Nat
    BY BatchFits
  <2> QED BY <1>1, <2>1, <2>2
<1> HIDE DEF e, total
<1>5. j \in 1 .. Len(batch[k].toks) /\ t \in 1 .. total /\ Row(t) = k
  BY <1>1, <1>2
<1>6. ChunkOf(Flat, t) = batch[k]
  <2>1. \A m \in DOMAIN batch : Flat.query_start_loc[m - 1] = QueryEnd(m - 1)
                                /\ Flat.query_start_loc[m] = QueryEnd(m)
    <3>1. \A m \in DOMAIN batch : m - 1 \in 0 .. Len(batch) /\ m \in 0 .. Len(batch)
      BY <1>1
    <3> QED BY <1>4, <3>1
  <2>2. ChunkOf(Flat, t) = batch[Row(t)]
    <3>1. (CHOOSE m \in DOMAIN batch : /\ Flat.query_start_loc[m - 1] < t
                                       /\ t <= Flat.query_start_loc[m])
            = Row(t)
      BY <2>1 DEF Row
    <3> QED BY <3>1 DEF ChunkOf
  <2> QED BY <1>5, <2>2
<1>7. Flat.positions[t] = batch[k].start + j - 1
  <2>1. Flat.positions[t] = batch[k].start + (t - e) - 1
    BY <1>3, <1>5 DEF e
  <2> QED BY <1>1, <1>2, <1>5, <2>1
<1>8. ASSUME NEW d \in 0 .. j - 1
      PROVE  Flat.input_ids[t - d] = batch[k].toks[j - d]
  <2>1. j - d \in DOMAIN batch[k].toks /\ t - d = e + (j - d) /\ (e + (j - d)) - e = j - d
    <3> DEFINE n == Len(batch[k].toks)
    <3>1. n \in Nat /\ j \in 1 .. n /\ d \in 0 .. j - 1 /\ e \in Nat
      BY <1>1, <1>2, <1>5
    <3> HIDE DEF n
    <3>2. j - d \in 1 .. n /\ (e + j) - d = e + (j - d) /\ (e + (j - d)) - e = j - d
      BY <3>1
    <3> QED BY <1>1, <3>2 DEF n
  <2>2. e + (j - d) \in 1 .. total /\ Row(e + (j - d)) = k
    BY <1>2, <2>1
  <2>3. Flat.input_ids[e + (j - d)] = batch[k].toks[(e + (j - d)) - e]
    BY <1>3, <2>2 DEF e
  <2> QED BY <2>1, <2>3
<1>9. DOMAIN Flat.input_ids = 1 .. total
  BY <1>3
<1> QED BY <1>5, <1>6, <1>7, <1>8, <1>9 DEF IsToken, e

LEMMA TokenOf ==
  ASSUME HInv, NEW t \in DOMAIN Flat.input_ids
  PROVE  \E k \in DOMAIN batch : \E j \in DOMAIN batch[k].toks : IsToken(t, k, j)
<1>1. DOMAIN Flat.input_ids = 1 .. QueryEnd(Len(batch))
  BY DEF Flat
<1>2. t \in 1 .. QueryEnd(Len(batch))
  BY <1>1
<1>3. PICK k \in DOMAIN batch : \E j \in DOMAIN batch[k].toks : t = QueryEnd(k - 1) + j
  BY <1>2, RowExists
<1>4. PICK j \in DOMAIN batch[k].toks : t = QueryEnd(k - 1) + j
  BY <1>3
<1> QED BY <1>4, TokenAt

(* What a token is written to.                                             *)
LEMMA MappedTo ==
  ASSUME HInv, NEW k \in DOMAIN batch, NEW j \in DOMAIN batch[k].toks, NEW t, IsToken(t, k, j)
  PROVE  /\ t \in DOMAIN SlotMapping(Flat) /\ SlotMapping(Flat)[t] = WriteSlot(k, j)
         /\ Flat.input_ids[t] = batch[k].toks[j]
<1>1. t \in DOMAIN SlotMapping(Flat) /\ SlotMapping(Flat)[t] = WriteSlot(k, j)
  BY DEF IsToken, SlotMapping, WriteSlot
<1>2. /\ DOMAIN batch[k].toks = 1 .. Len(batch[k].toks) /\ Len(batch[k].toks) \in Nat
  BY BatchFacts, TokensOK
<1>3. t \in Int /\ 0 \in 0 .. j - 1 /\ t - 0 = t /\ j - 0 = j
  <2>1. QueryEnd(Len(batch)) \in Nat
    BY Ends DEF HInv, Typed
  <2>2. t \in 1 .. QueryEnd(Len(batch))
    BY DEF IsToken, Flat
  <2> QED BY <1>2, <2>1, <2>2
<1> QED BY <1>1, <1>3 DEF IsToken

(* The write of all slots leaves in each what Lands says.                  *)
LEMMA Written ==
  ASSUME HInv, NEW s \in DOMAIN EnsureCache, NEW v, Lands(s, v)
  PROVE  WriteHashCache(Flat, EnsureCache)[s] = v
<1> DEFINE slot == SlotMapping(Flat)
<1>1. WriteHashCache(Flat, EnsureCache)[s]
        = IF \E t \in DOMAIN slot : slot[t] = s
          THEN Compressed(Flat.input_ids[CHOOSE t \in DOMAIN slot : slot[t] = s])
          ELSE EnsureCache[s]
  BY DEF WriteHashCache
<1>2. \A t \in DOMAIN slot : \E k \in DOMAIN batch : \E j \in DOMAIN batch[k].toks :
        slot[t] = WriteSlot(k, j) /\ Flat.input_ids[t] = batch[k].toks[j]
  <2>1. DOMAIN slot = DOMAIN Flat.input_ids
    BY DEF SlotMapping
  <2> QED BY <2>1, TokenOf, MappedTo
<1>3. \A k \in DOMAIN batch : \A j \in DOMAIN batch[k].toks :
        \E t \in DOMAIN slot : slot[t] = WriteSlot(k, j)
  BY TokenAt, MappedTo
<1> HIDE DEF slot
<1>4. CASE \E k \in DOMAIN batch : \E j \in DOMAIN batch[k].toks :
             WriteSlot(k, j) = s /\ v = Compressed(batch[k].toks[j])
  <2>0. PICK k \in DOMAIN batch : \E j \in DOMAIN batch[k].toks :
          WriteSlot(k, j) = s /\ v = Compressed(batch[k].toks[j])
    BY <1>4
  <2>1. PICK j \in DOMAIN batch[k].toks :
          WriteSlot(k, j) = s /\ v = Compressed(batch[k].toks[j])
    BY <2>0
  <2>2. \E t \in DOMAIN slot : slot[t] = s
    BY <1>3, <2>1
  <2> DEFINE u == CHOOSE t \in DOMAIN slot : slot[t] = s
  <2>3. u \in DOMAIN slot /\ slot[u] = s
    BY <2>2
  <2> HIDE DEF u
  <2>4. PICK l \in DOMAIN batch : \E i \in DOMAIN batch[l].toks :
          s = WriteSlot(l, i) /\ Flat.input_ids[u] = batch[l].toks[i]
    BY <1>2, <2>3
  <2>6. PICK i \in DOMAIN batch[l].toks :
          s = WriteSlot(l, i) /\ Flat.input_ids[u] = batch[l].toks[i]
    BY <2>4
  <2>5. l = k /\ i = j
    BY <2>1, <2>6 DEF HInv, WritesApart
  <2> QED BY <1>1, <2>1, <2>2, <2>5, <2>6 DEF u
<1>5. CASE /\ \A k \in DOMAIN batch : \A j \in DOMAIN batch[k].toks : WriteSlot(k, j) # s
           /\ v = EnsureCache[s]
  BY <1>1, <1>2, <1>5
<1> QED BY <1>4, <1>5 DEF Lands

-----------------------------------------------------------------------------
(* What is hashed.                                                         *)

LEMMA CompressedDead ==
  ASSUME NEW x \in TokenIds
  PROVE  Compressed(x) = DEAD_ID <=> x = Image
BY TokensOK DEF Compressed, DEAD_ID, Image

(* The first cache for the KV cache that is served is as large as that.    *)
LEMMA CacheReady ==
  ASSUME HInv, deployment.slots, kv_cache = "real"
  PROVE  DOMAIN EnsureCache = Slots("real")
BY DEF HInv, CacheOK, EnsureCache, use_slot_cache

(* A chunk and what is certain of its request.                             *)
LEMMA ChunkFacts ==
  ASSUME HInv, NEW k \in DOMAIN batch
  PROVE  LET c == batch[k]
             r == c.req
         IN /\ c.start < Committed(r) /\ Committed(r) = computed[r] - c.drafts
            /\ Committed(r) <= Len(tokens[r]) /\ Committed(r) \in Nat
            /\ tokens[r] \in Seq(TokenIds) /\ Len(tokens[r]) \in Nat
            /\ \A j \in 1 .. Len(c.toks) - c.drafts : c.toks[j] = tokens[r][c.start + j]
            /\ kv_cache = "real"
<1> DEFINE c == batch[k]
           r == c.req
<1>1. /\ c.req \in Requests /\ c.start \in Nat /\ c.drafts \in Nat
      /\ Len(c.toks) \in Nat /\ computed[r] = c.start + Len(c.toks)
  BY BatchFacts, TokensOK
<1>2. ChunkOK(k)
  BY DEF HInv
<1>3. tokens[r] \in Seq(TokenIds) /\ Len(tokens[r]) \in Nat
  BY <1>1 DEF HInv, Typed
<1>4. /\ c.drafts < Len(c.toks) /\ computed[r] - c.drafts <= Len(tokens[r])
      /\ c.drafts > 0 => computed[r] - c.drafts = Len(tokens[r])
      /\ \A j \in 1 .. Len(c.toks) - c.drafts : c.toks[j] = tokens[r][c.start + j]
  BY <1>2 DEF ChunkOK
<1>5. kv_cache = "real"
  BY DEF HInv, CacheOK
<1> HIDE DEF c, r
<1>6. c.start < Committed(r) /\ Committed(r) = computed[r] - c.drafts
      /\ Committed(r) <= Len(tokens[r]) /\ Committed(r) \in Nat
  BY <1>1, <1>3, <1>4 DEF Committed
<1> QED BY <1>3, <1>4, <1>5, <1>6 DEF c, r

(* A computed position has a block in its row.                             *)
LEMMA HasBlock ==
  ASSUME HInv, NEW r \in Requests, NEW p \in Nat, p < computed[r]
  PROVE  BlockOf(p) \in DOMAIN table[r] /\ BlockOf(p) \in Nat
<1>1. PICK n \in Nat : DOMAIN table[r] = 0 .. n - 1 /\ computed[r] <= FirstOf(n)
  BY DEF HInv, RowOK
<1>2. computed[r] \in Nat /\ FirstOf(n) \in Nat
  BY Laid DEF HInv, Typed
<1>3. p < FirstOf(n)
  BY <1>1, <1>2
<1>4. BlockOf(p) \in Nat /\ BlockOf(p) < n
  BY <1>3, InBlock
<1> QED BY <1>1, <1>4

LEMMA SlotIn ==
  ASSUME NEW r, NEW p \in Nat, table[r][BlockOf(p)] \in Blocks
  PROVE  /\ SlotOf(r, p) \in Slots("real")
         /\ SlotOf(r, p) = <<table[r][BlockOf(p)], p % BlockSize>>
         /\ p % BlockSize \in 0 .. BlockSize - 1
<1>1. p % BlockSize \in 0 .. BlockSize - 1
  BY InBlock
<1>2. SlotOf(r, p) = <<table[r][BlockOf(p)], p % BlockSize>>
  BY DEF SlotOf, BlockOf
<1> HIDE DEF BlockOf
<1> QED BY <1>1, <1>2 DEF Slots

Seen(k) == SubSeq(tokens[batch[k].req], 1, batch[k].start) \o batch[k].toks

LEMMA SeenFacts ==
  ASSUME HInv, NEW k \in DOMAIN batch
  PROVE  LET c == batch[k] IN
         /\ \A p \in 0 .. c.start - 1 : Seen(k)[p + 1] = tokens[c.req][p + 1]
                                        /\ tokens[c.req][p + 1] \in TokenIds
         /\ \A i \in 1 .. Len(c.toks) : Seen(k)[c.start + i] = c.toks[i] /\ c.toks[i] \in TokenIds
<1> DEFINE c == batch[k]
           s == tokens[c.req]
           head == SubSeq(s, 1, c.start)
<1>1. /\ c.start \in Nat /\ s \in Seq(TokenIds) /\ c.toks \in Seq(TokenIds)
      /\ Len(s) \in Nat /\ c.start <= Len(s)
  BY BatchFacts, ChunkFacts
<1> HIDE DEF c, s
<1>2. head \in Seq(TokenIds) /\ Len(head) = c.start
      /\ \A i \in 1 .. c.start : head[i] = s[i] /\ s[i] \in TokenIds
  BY <1>1
<1> HIDE DEF head
<1>3. \A i \in 1 .. c.start : (head \o c.toks)[i] = head[i]
  BY <1>1, <1>2
<1>4. \A i \in 1 .. Len(c.toks) : (head \o c.toks)[c.start + i] = c.toks[i]
                                  /\ c.toks[i] \in TokenIds
  <2> DEFINE tail == c.toks
  <2>1. tail \in Seq(TokenIds)
    BY <1>1
  <2> HIDE DEF tail
  <2>2. \A i \in 1 .. Len(tail) : tail[i] \in TokenIds
    BY <2>1
  <2>3. \A i \in 1 .. Len(tail) : (head \o tail)[c.start + i] = tail[i]
    BY <1>1, <1>2, <2>1
  <2> QED BY <2>2, <2>3 DEF tail
<1>5. Seen(k) = head \o c.toks
  BY DEF Seen, head, s, c
<1>6. \A p \in 0 .. c.start - 1 : p + 1 \in 1 .. c.start
  BY <1>1
<1> QED BY <1>2, <1>3, <1>4, <1>5, <1>6 DEF c, s

(* Batch, window and slot agree with the request's own tokens.             *)
LEMMA SourceTrue ==
  ASSUME HInv, NEW k \in DOMAIN batch, NEW j \in DOMAIN batch[k].toks,
         NEW t, IsToken(t, k, j), NEW shift \in 0 .. MaxNgram - 1,
         batch[k].start + j - 1 - shift >= 0, NEW cache,
         cache = IF use_slot_cache THEN WriteHashCache(Flat, EnsureCache) ELSE EnsureCache
  PROVE  /\ Source(Flat, cache, t, shift) = Compressed(Seen(k)[batch[k].start + j - 1 - shift + 1])
         /\ Seen(k)[batch[k].start + j - 1 - shift + 1] \in TokenIds
<1> DEFINE c == batch[k]
           r == c.req
           p == c.start + j - 1 - shift
<1>1. /\ r \in Requests /\ c.start \in Nat /\ Len(c.toks) \in Nat /\ j \in 1 .. Len(c.toks)
      /\ MaxNgram \in Nat /\ shift \in Nat /\ p \in Nat /\ MaxNgram > 0
  <2>1. /\ r \in Requests /\ c.start \in Nat /\ Len(c.toks) \in Nat /\ j \in 1 .. Len(c.toks)
    <3>1. /\ c.req \in Requests /\ c.start \in Nat /\ Len(c.toks) \in 1 .. MaxLen
          /\ DOMAIN c.toks = 1 .. Len(c.toks)
      BY BatchFacts
    <3> HIDE DEF c
    <3>2. Len(c.toks) \in Nat
      BY <3>1, TokensOK
    <3> QED BY <3>1, <3>2 DEF c
  <2>2. MaxNgram \in Nat /\ shift \in Nat /\ MaxNgram > 0
    BY CacheShape
  <2>3. p \in Nat
    <3> DEFINE f == c.start
    <3>1. f \in Nat /\ j \in Nat /\ f + j - 1 - shift >= 0
      BY <2>1
    <3> HIDE DEF f
    <3>2. f + j - 1 - shift \in Nat
      BY <2>2, <3>1
    <3> QED BY <3>2 DEF f
  <2> QED BY <2>1, <2>2, <2>3
<1>2. /\ c.start < Committed(r) /\ Committed(r) <= computed[r]
      /\ tokens[r] \in Seq(TokenIds) /\ kv_cache = "real"
      /\ computed[r] \in Nat /\ Committed(r) \in Nat
  <2>0. \A q \in Requests : computed[q] \in Nat /\ Len(tokens[q]) \in Nat
    BY DEF HInv, Typed
  <2>1. computed[r] \in Nat /\ Len(tokens[r]) \in Nat
    BY <1>1, <2>0
  <2> QED BY <2>1, ChunkFacts DEF Committed
<1>3. /\ ChunkOf(Flat, t) = c /\ Flat.positions[t] - shift = p
  BY <1>1 DEF IsToken
<1>4. Source(Flat, cache, t, shift)
        = IF p >= c.start THEN Compressed(Flat.input_ids[t - shift])
          ELSE IF c.start - 1 - p \in 0 .. MaxNgram - 2 /\ LookbackTokenId(c, c.start - 1 - p) >= 0
               THEN Compressed(LookbackTokenId(c, c.start - 1 - p))
               ELSE Fallback(cache, r, p)
  BY <1>3 DEF Source
<1>5. CASE p >= c.start
  <2>1. shift \in 0 .. j - 1
    BY <1>1, <1>5
  <2>2. Flat.input_ids[t - shift] = c.toks[j - shift]
    BY <2>1 DEF IsToken
  <2>3. j - shift \in 1 .. Len(c.toks) /\ c.start + (j - shift) = p + 1
    <3> DEFINE n == Len(c.toks)
               f == c.start
    <3>1. /\ f \in Nat /\ n \in Nat /\ j \in 1 .. n /\ shift \in 0 .. j - 1 /\ shift \in Nat
          /\ p = f + j - 1 - shift
      BY <1>1, <2>1
    <3> HIDE DEF n, f, p
    <3>2. j - shift \in 1 .. n /\ f + (j - shift) = p + 1
      BY <3>1
    <3> QED BY <3>2 DEF n, f
  <2>4. Seen(k)[p + 1] = c.toks[j - shift] /\ c.toks[j - shift] \in TokenIds
    BY <2>3, SeenFacts
  <2> QED BY <1>4, <1>5, <2>2, <2>4
<1>6. CASE p < c.start
  <2>1. p \in 0 .. c.start - 1
    BY <1>1, <1>6
  <2>2. Seen(k)[p + 1] = tokens[r][p + 1] /\ tokens[r][p + 1] \in TokenIds
    BY <2>1, SeenFacts
  <2>3. c.start - 1 - p \in 0 .. MaxNgram - 2 /\ ~(p >= c.start)
        /\ c.start - 1 - (c.start - 1 - p) = p
    <3> DEFINE s == c.start
    <3>1. /\ s \in Nat /\ j \in Nat /\ j >= 1 /\ shift <= MaxNgram - 1 /\ p = s + j - 1 - shift
          /\ p < s
      BY <1>1, <1>6
    <3> HIDE DEF s, p
    <3>2. s - 1 - p \in 0 .. MaxNgram - 2 /\ ~(p >= s) /\ s - 1 - (s - 1 - p) = p
      BY <1>1, <3>1
    <3> QED BY <3>2 DEF s
  <2>4. LookbackTokenId(c, c.start - 1 - p)
          = IF use_slot_cache => p < prompt_len[r] THEN tokens[r][p + 1] ELSE -1
    BY <1>1, <2>3 DEF LookbackTokenId
  <2>5. tokens[r][p + 1] >= 0
    <3>1. \A x \in TokenIds : x >= 0
      BY TokensOK
    <3> HIDE DEF p, r
    <3> QED BY <2>2, <3>1
  <2>6. CASE use_slot_cache => p < prompt_len[r]
    BY <1>4, <2>2, <2>3, <2>4, <2>5, <2>6
  <2>7. CASE use_slot_cache /\ ~(p < prompt_len[r])
    <3> DEFINE i == BlockOf(p)
    <3>1. Source(Flat, cache, t, shift) = Fallback(cache, r, p)
      <4>1. LookbackTokenId(c, c.start - 1 - p) = -1
        BY <2>4, <2>7
      <4> HIDE DEF p, c, r
      <4> QED BY <1>4, <2>3, <4>1
    <3>2. p < computed[r] /\ p < Committed(r)
      <4> DEFINE f == c.start
      <4>1. /\ f \in Nat /\ p \in Nat /\ p < f /\ f < Committed(r)
            /\ Committed(r) <= computed[r] /\ Committed(r) \in Nat /\ computed[r] \in Nat
        BY <1>1, <1>2, <1>6
      <4> HIDE DEF f, p, r
      <4> QED BY <4>1
    <3>3. i \in DOMAIN table[r] /\ i \in Nat
      BY <1>1, <3>2, HasBlock
    <3>4. i >= FirstNeeded(c.start)
      <4>1. c.start - p < Window
        BY <1>1, WindowCoversLookback, CacheShape
      <4>2. FirstNeeded(c.start) <= i
        BY <1>1, <4>1, Window_
      <4>3. FirstNeeded(c.start) \in Nat
        BY <1>1, Window_
      <4> HIDE DEF i
      <4> QED BY <3>3, <4>2, <4>3
    <3>5. table[r][i] \in Blocks
      BY <3>3, <3>4 DEF HInv, ChunkOK
    <3>6. prompt_len[r] \in Nat
      BY <1>1 DEF HInv, Typed
    <3>7. Lands(SlotOf(r, p), Compressed(tokens[r][p + 1]))
      <4>1. RowHeld(r)
        BY <1>1, <2>7 DEF HInv, SlotsOK, use_slot_cache
      <4>2. p < Committed(r) /\ (deployment.remote => p >= prompt_len[r])
        BY <1>1, <2>7, <3>2, <3>6
      <4> HIDE DEF p
      <4> QED BY <1>1, <3>5, <4>1, <4>2 DEF RowHeld
    <3>8. SlotOf(r, p) \in DOMAIN EnsureCache
      <4>1. SlotOf(r, p) \in Slots("real")
        <5> HIDE DEF p
        <5> QED BY <1>1, <3>5, SlotIn
      <4> QED BY <1>2, <2>7, <4>1, CacheReady DEF use_slot_cache
    <3>9. cache[SlotOf(r, p)] = Compressed(tokens[r][p + 1])
      BY <2>7, <3>7, <3>8, Written
    <3>10. SlotOf(r, p) \in DOMAIN cache
      BY <2>7, <3>8 DEF WriteHashCache
    <3>11. Fallback(cache, r, p) = cache[SlotOf(r, p)]
      <4>1. ~(p < 0)
        BY <1>1
      <4> HIDE DEF p
      <4> QED BY <2>7, <3>10, <4>1 DEF Fallback
    <3> QED BY <2>2, <3>1, <3>9, <3>11
  <2> QED BY <2>6, <2>7
<1> QED BY <1>1, <1>5, <1>6

(* Every token of the step is hashed with the tokens before it.            *)
LEMMA HashTrue ==
  ASSUME HInv, NEW t \in DOMAIN Flat.input_ids, NEW cache,
         cache = IF use_slot_cache THEN WriteHashCache(Flat, EnsureCache) ELSE EnsureCache
  PROVE  LET h == Hashed(Flat, cache, t) IN h.ids = TrueIds(h.seq, h.pos)
<1>1. PICK k \in DOMAIN batch : \E j \in DOMAIN batch[k].toks : IsToken(t, k, j)
  BY TokenOf
<1>2. PICK j \in DOMAIN batch[k].toks : IsToken(t, k, j)
  BY <1>1
<1> DEFINE pos == batch[k].start + j - 1
           src(shift) == Source(Flat, cache, t, shift)
<1>3. pos \in Nat /\ Flat.positions[t] = pos /\ MaxNgram \in Nat
  <2>1. batch[k].start \in Nat /\ j \in 1 .. Len(batch[k].toks)
    BY BatchFacts
  <2> QED BY <1>2, <2>1, CacheShape DEF IsToken
<1>4. Hashed(Flat, cache, t) = [seq |-> Seen(k), pos |-> pos, ids |-> HashIds(Flat, cache, t)]
  BY <1>2, <1>3 DEF Hashed, IsToken, Seen
<1>5. \A shift \in 0 .. MaxNgram - 1 : pos - shift >= 0 =>
        /\ src(shift) = Compressed(Seen(k)[pos - shift + 1])
        /\ Seen(k)[pos - shift + 1] \in TokenIds
  <2> SUFFICES ASSUME NEW shift \in 0 .. MaxNgram - 1, pos - shift >= 0
               PROVE  /\ src(shift) = Compressed(Seen(k)[pos - shift + 1])
                      /\ Seen(k)[pos - shift + 1] \in TokenIds
    OBVIOUS
  <2>1. batch[k].start \in Nat /\ j \in Nat /\ shift \in Nat
    BY BatchFacts, CacheShape
  <2>2. batch[k].start + j - 1 - shift = pos - shift
    BY <2>1
  <2>3. pos - shift \in Int
    BY <2>1
  <2>4. /\ Source(Flat, cache, t, shift) = Compressed(Seen(k)[batch[k].start + j - 1 - shift + 1])
        /\ Seen(k)[batch[k].start + j - 1 - shift + 1] \in TokenIds
    BY <1>2, <2>2, SourceTrue
  <2> QED BY <2>2, <2>4
<1> HIDE DEF pos, src
<1>6. \A shift \in 0 .. MaxNgram - 1 : pos - shift >= 0 =>
        (src(shift) = DEAD_ID <=> Seen(k)[pos - shift + 1] = Image)
  BY <1>5, CompressedDead
<1>7. ASSUME NEW shift \in 0 .. MaxNgram - 1
      PROVE  HashIds(Flat, cache, t)[shift] = TrueIds(Seen(k), pos)[shift]
  <2>1. \A i \in 0 .. shift : i \in 0 .. MaxNgram - 1 /\ (pos - i < 0 <=> ~(pos - i >= 0))
    BY <1>3
  <2>2. (\E i \in 0 .. shift : pos - i < 0 \/ src(i) = DEAD_ID)
          <=> (\E i \in 0 .. shift : pos - i < 0 \/ Seen(k)[pos - i + 1] = Image)
    BY <1>6, <2>1
  <2>3. HashIds(Flat, cache, t)[shift]
          = IF \E i \in 0 .. shift : pos - i < 0 \/ src(i) = DEAD_ID THEN pad_id ELSE src(shift)
    BY <1>3 DEF HashIds, src
  <2>4. TrueIds(Seen(k), pos)[shift]
          = IF \E i \in 0 .. shift : pos - i < 0 \/ Seen(k)[pos - i + 1] = Image
            THEN pad_id ELSE Seen(k)[pos - shift + 1]
    BY DEF TrueIds
  <2>5. CASE \E i \in 0 .. shift : pos - i < 0 \/ Seen(k)[pos - i + 1] = Image
    BY <2>2, <2>3, <2>4, <2>5
  <2>6. CASE ~\E i \in 0 .. shift : pos - i < 0 \/ Seen(k)[pos - i + 1] = Image
    <3>1. shift \in 0 .. shift
      BY <1>3
    <3>2. pos - shift >= 0 /\ Seen(k)[pos - shift + 1] # Image
      BY <2>1, <2>6, <3>1
    <3>3. src(shift) = Seen(k)[pos - shift + 1]
      BY <1>5, <3>2 DEF Compressed
    <3> QED BY <2>2, <2>3, <2>4, <2>6, <3>3
  <2> QED BY <2>5, <2>6
<1>8. HashIds(Flat, cache, t) = TrueIds(Seen(k), pos)
  <2>1. /\ DOMAIN HashIds(Flat, cache, t) = 0 .. MaxNgram - 1
        /\ DOMAIN TrueIds(Seen(k), pos) = 0 .. MaxNgram - 1
        /\ HashIds(Flat, cache, t)
             = [shift \in 0 .. MaxNgram - 1 |-> HashIds(Flat, cache, t)[shift]]
        /\ TrueIds(Seen(k), pos) = [shift \in 0 .. MaxNgram - 1 |-> TrueIds(Seen(k), pos)[shift]]
    BY DEF HashIds, TrueIds
  <2> QED BY <1>7, <2>1
<1> QED BY <1>4, <1>8

-----------------------------------------------------------------------------
(* What a step leaves alone.                                               *)

Same(q) ==
  /\ phase'[q] = phase[q] /\ tokens'[q] = tokens[q] /\ prompt_len'[q] = prompt_len[q]
  /\ computed'[q] = computed[q] /\ table'[q] = table[q]

SameDeployment ==
  deployment'.slots = deployment.slots /\ deployment'.remote = deployment.remote

LEMMA SameRequest ==
  ASSUME NEW q, RequestOK(q), RowOK(q), Same(q), SameDeployment, InBatch(q)' <=> InBatch(q)
  PROVE  RequestOK(q)' /\ RowOK(q)' /\ Committed(q)' = Committed(q)
<1>1. RequestOK(q)'
  BY DEF RequestOK, Same, SameDeployment
<1>2. RowOK(q)'
  BY DEF RowOK, Same, FirstOf, FirstNeeded
<1>3. Committed(q)' = Committed(q)
  BY DEF Committed, Same
<1> QED BY <1>1, <1>2, <1>3

LEMMA SameCached ==
  ASSUME NEW q, CachedOK(q), Same(q),
         \A i \in DOMAIN table[q] : table[q][i] \in Blocks =>
           prefix_of'[table[q][i]] = prefix_of[table[q][i]]
  PROVE  CachedOK(q)'
<1>1. Committed(q)' = Committed(q)
  BY DEF Committed, Same
<1> QED BY <1>1 DEF CachedOK, Same, FirstOf

LEMMA SameChunk ==
  ASSUME NEW k, ChunkOK(k), batch' = batch, Same(batch[k].req)
  PROVE  ChunkOK(k)'
BY DEF ChunkOK, Same, FirstNeeded

LEMMA SameLands ==
  ASSUME batch' = batch, \A k \in DOMAIN batch : table'[batch[k].req] = table[batch[k].req],
         EnsureCache' = EnsureCache
  PROVE  /\ WritesApart => WritesApart'
         /\ \A s, v : Lands(s, v) => Lands(s, v)'
<1>1. \A k \in DOMAIN batch : \A j : (WriteSlot(k, j) = WriteSlot(k, j)')
  BY DEF WriteSlot, SlotOf
<1>2. WritesApart => WritesApart'
  BY <1>1 DEF WritesApart
<1>3. ASSUME NEW s, NEW v, Lands(s, v) PROVE Lands(s, v)'
  BY <1>1, <1>3 DEF Lands
<1> QED BY <1>2, <1>3

(* A step of one request that has no chunk in the batch.                   *)
LEMMA OneRequest ==
  ASSUME HInv, NEW r \in Requests, ~InBatch(r),
         UNCHANGED <<kv_cache, _cache, _kv_cache_ref, batch, hashed>>, SameDeployment,
         \A q \in Requests : q # r => Same(q),
         Typed', CacheOK', RequestOK(r)', RowOK(r)', CachedOK(r)',
         \A q \in Requests : q # r => \A i \in DOMAIN table[q] :
           table[q][i] \in Blocks => prefix_of'[table[q][i]] = prefix_of[table[q][i]],
         \A i \in DOMAIN table'[r] : table'[r][i] \in Blocks =>
           \A q \in Requests : q # r => \A j \in DOMAIN table[q] :
             table'[r][i] = table[q][j] => prefix_of'[table[q][j]] # <<>>,
         deployment.slots => RowHeld(r)',
         ~deployment.remote => prefix_of' = prefix_of
  PROVE  HInv'
<1>1. \A q : InBatch(q)' <=> InBatch(q)
  BY DEF InBatch
<1>2. \A q \in Requests : q # r => RequestOK(q)' /\ RowOK(q)' /\ Committed(q)' = Committed(q)
  BY <1>1, SameRequest DEF HInv
<1>3. \A q \in Requests : q # r => CachedOK(q)'
  BY SameCached DEF HInv
<1>4. \A k \in DOMAIN batch : batch[k].req \in Requests /\ batch[k].req # r
  BY BatchFacts DEF InBatch
<1>5. \A k \in DOMAIN batch' : ChunkOK(k)'
  BY <1>4, SameChunk DEF HInv
<1>6. EnsureCache' = EnsureCache
  BY DEF EnsureCache, use_slot_cache, SameDeployment, Slots
<1>7. WritesApart' /\ \A s, v : Lands(s, v) => Lands(s, v)'
  BY <1>4, <1>6, SameLands DEF HInv, Same
<1>8. SharedOK'
  <2> SUFFICES ASSUME NEW p \in Requests, NEW q \in Requests,
                      NEW i \in DOMAIN table'[p], NEW j \in DOMAIN table'[q],
                      p # q, table'[p][i] = table'[q][j], table'[p][i] \in Blocks
               PROVE  prefix_of'[table'[p][i]] # <<>>
    BY DEF SharedOK
  <2>1. CASE p = r
    BY <2>1 DEF Same
  <2>2. CASE q = r
    BY <2>2 DEF Same
  <2>3. CASE p # r /\ q # r
    BY <2>3 DEF Same, HInv, SharedOK
  <2> QED BY <2>1, <2>2, <2>3
<1>9. ASSUME deployment.slots, NEW q \in Requests PROVE RowHeld(q)'
  <2>1. CASE q = r
    BY <1>9, <2>1
  <2>2. CASE q # r
    <3>1. RowHeld(q)
      BY <1>9 DEF HInv, SlotsOK
    <3>2. Same(q) /\ Committed(q)' = Committed(q)
      BY <1>2, <2>2
    <3>3. \A p : (SlotOf(q, p) = SlotOf(q, p)')
      BY <3>2 DEF SlotOf, Same
    <3> QED BY <1>7, <3>1, <3>2, <3>3 DEF RowHeld, Same, SameDeployment, BlockOf, Compressed
  <2> QED BY <2>1, <2>2
<1>10. ASSUME deployment.slots, ~deployment.remote, NEW b \in Blocks PROVE CachedHeld(b)'
  <2>1. CachedHeld(b) /\ prefix_of' = prefix_of
    BY <1>10 DEF HInv, SlotsOK
  <2> QED BY <1>7, <2>1 DEF CachedHeld, Compressed
<1>11. SlotsOK'
  BY <1>9, <1>10 DEF SlotsOK, SameDeployment
<1>12. HashOK'
  BY DEF HInv, HashOK, TrueIds
<1> QED BY <1>2, <1>3, <1>5, <1>7, <1>8, <1>11, <1>12 DEF HInv

-----------------------------------------------------------------------------
(* The steps.                                                              *)

(* A request without a block has nothing to keep.                          *)
LEMMA EmptyRow ==
  ASSUME NEW r, DOMAIN table'[r] = {}, computed'[r] = 0, Len(tokens'[r]) \in Nat
  PROVE  RowOK(r)' /\ CachedOK(r)' /\ RowHeld(r)'
<1>1. FirstOf(0) = 0 /\ DOMAIN table'[r] = 0 .. 0 - 1 /\ 0 \in Nat
  BY Laid
<1>2. \E n \in Nat : DOMAIN table'[r] = 0 .. n - 1 /\ computed'[r] <= FirstOf(n)
  BY <1>1
<1>3. RowOK(r)'
  BY <1>2 DEF RowOK, FirstOf
<1>4. Committed(r)' = 0
  BY DEF Committed
<1> QED BY <1>3, <1>4 DEF CachedOK, RowHeld

LEMMA HInit == Init => HInv
<1> SUFFICES ASSUME Init PROVE HInv
  OBVIOUS
<1>1. Typed
  BY DeploymentsOK DEF Init, Typed, Caches
<1>2. CacheOK
  BY DEF Init, CacheOK
<1>3. \A r \in Requests : DOMAIN table[r] = {} /\ computed[r] = 0 /\ Len(tokens[r]) = 0
  BY DEF Init
<1>4. \A r \in Requests : RowOK(r) /\ CachedOK(r) /\ RowHeld(r)
  <2>1. FirstOf(0) = 0 /\ 0 .. 0 - 1 = {} /\ 0 \in Nat
    BY Laid
  <2>2. \A r \in Requests : \E n \in Nat : DOMAIN table[r] = 0 .. n - 1 /\ computed[r] <= FirstOf(n)
    <3>1. \A r \in Requests : DOMAIN table[r] = 0 .. 0 - 1 /\ computed[r] <= FirstOf(0)
      BY <1>3, <2>1
    <3> QED BY <2>1, <3>1
  <2>3. \A r \in Requests : Committed(r) = 0
    BY <1>3 DEF Committed
  <2> QED BY <1>3, <2>2, <2>3 DEF RowOK, CachedOK, RowHeld
<1>5. \A r \in Requests : RequestOK(r)
  BY <1>3, TokensOK DEF Init, RequestOK, InBatch
<1>6. SharedOK /\ WritesApart /\ HashOK /\ \A b \in Blocks : CachedHeld(b)
  BY <1>3 DEF Init, SharedOK, WritesApart, HashOK, CachedHeld
<1>7. DOMAIN batch = {}
  BY DEF Init
<1> QED BY <1>1, <1>2, <1>4, <1>5, <1>6, <1>7 DEF HInv, SlotsOK

(* Before the KV cache that is served is bound, there is nothing to keep.  *)
LEMMA NoRequests ==
  ASSUME HInv, kv_cache # "real", CacheOK', Typed',
         UNCHANGED <<deployment, phase, tokens, prompt_len, computed, table, prefix_of,
                     batch, hashed>>
  PROVE  HInv'
<1>1. batch = <<>> /\ \A r \in Requests : phase[r] = "new"
  BY DEF HInv, CacheOK
<1>2. \A r \in Requests : DOMAIN table[r] = {} /\ computed[r] = 0 /\ Len(tokens[r]) = 0
  BY <1>1 DEF HInv, RequestOK
<1>3. \A r \in Requests : RowHeld(r)'
  <2> SUFFICES ASSUME NEW r \in Requests PROVE RowHeld(r)'
    OBVIOUS
  <2>1. Committed(r)' = 0
    BY <1>2 DEF Committed
  <2> QED BY <2>1 DEF RowHeld
<1>4. \A b \in Blocks : CachedHeld(b)'
  BY DEF HInv, CacheOK, CachedHeld
<1>5. SameDeployment /\ \A q : Same(q) /\ InBatch(q)' = InBatch(q)
  BY DEF SameDeployment, Same, InBatch
<1>6. \A r \in Requests : RequestOK(r)' /\ RowOK(r)' /\ CachedOK(r)'
  BY <1>5, SameRequest, SameCached DEF HInv
<1>7. DOMAIN batch' = {}
  BY <1>1
<1>8. SharedOK' /\ WritesApart' /\ HashOK'
  BY <1>7 DEF HInv, SharedOK, WritesApart, HashOK, TrueIds
<1> QED BY <1>3, <1>4, <1>6, <1>7, <1>8 DEF HInv, SlotsOK

LEMMA BindStep == HInv /\ Bind => HInv'
<1> SUFFICES ASSUME HInv, Bind PROVE HInv'
  OBVIOUS
<1>1. Typed'
  BY DEF Bind, HInv, Typed, Caches
<1>2. CacheOK'
  BY DEF Bind, HInv, CacheOK, Slots, Compressed
<1> QED BY <1>1, <1>2, NoRequests DEF Bind

LEMMA DummyRunStep == HInv /\ DummyRun => HInv'
<1> SUFFICES ASSUME HInv, DummyRun PROVE HInv'
  OBVIOUS
<1>1. Typed'
  BY DEF DummyRun, HInv, Typed, Caches, EnsureRef
<1>2. \A r \in Requests : Len(tokens[r]) = 0 /\ prompt_len[r] = 0
  <2>1. \A r \in Requests : Len(tokens[r]) = 0 /\ prompt_len[r] <= Len(tokens[r])
                            /\ prompt_len[r] \in Nat
    BY DEF DummyRun, HInv, Typed, CacheOK, RequestOK
  <2> QED BY <2>1
<1>3. 0 \in {Compressed(t) : t \in TokenIds}
  BY TokensOK DEF Compressed, Image
<1>4. \A s \in DOMAIN _cache' : _cache'[s] \in {Compressed(t) : t \in TokenIds}
  <2>1. CASE kv_cache = "none"
    <3>1. DOMAIN _cache' = {}
      BY <2>1 DEF DummyRun, EnsureCache
    <3> QED BY <3>1
  <2>2. CASE kv_cache # "none" /\ (~use_slot_cache \/ _kv_cache_ref = kv_cache)
    BY <2>2 DEF DummyRun, EnsureCache, HInv, CacheOK
  <2>3. CASE ~(kv_cache = "none") /\ ~(~use_slot_cache \/ _kv_cache_ref = kv_cache)
    <3>1. _cache' = [s \in Slots(kv_cache) |-> 0]
      BY <2>3 DEF DummyRun, EnsureCache
    <3> QED BY <1>3, <3>1
  <2> QED BY <2>1, <2>2, <2>3
<1>5. deployment.slots /\ _kv_cache_ref' # "none" => DOMAIN _cache' = Slots(_kv_cache_ref')
  BY DEF DummyRun, EnsureCache, EnsureRef, use_slot_cache, HInv, CacheOK
<1>6. CacheOK'
  BY <1>2, <1>4, <1>5 DEF DummyRun, HInv, CacheOK, Slots, Compressed
<1> QED BY <1>1, <1>6, NoRequests DEF DummyRun

LEMMA NotInBatch ==
  ASSUME HInv, NEW r, phase[r] # "running" \/ (\A i \in DOMAIN batch : batch[i].req # r)
  PROVE  ~InBatch(r)
BY DEF HInv, ChunkOK, InBatch

LEMMA ArriveStep == ASSUME NEW r \in Requests PROVE HInv /\ Arrive(r) => HInv'
<1> SUFFICES ASSUME HInv, Arrive(r) PROVE HInv'
  OBVIOUS
<1>1. PICK prompt \in Prompts : /\ tokens' = [tokens EXCEPT ![r] = prompt]
                                /\ prompt_len' = [prompt_len EXCEPT ![r] = Len(prompt)]
  BY DEF Arrive
<1>2. /\ phase[r] = "new" /\ kv_cache = "real" /\ phase' = [phase EXCEPT ![r] = "waiting"]
      /\ UNCHANGED <<deployment, kv_cache, _cache, _kv_cache_ref, computed, table,
                     prefix_of, batch, hashed>>
  BY DEF Arrive, engine
<1>3. prompt \in Seq(TokenIds) /\ Len(prompt) \in 1 .. MaxLen + 1
  BY TokensOK
<1>4. ~InBatch(r)
  BY <1>2, NotInBatch
<1>5. Typed
  BY DEF HInv
<1>6. Typed' /\ \A q \in Requests : q # r => Same(q)
  BY <1>1, <1>2, <1>3, <1>5 DEF Typed, Same
<1>7. CacheOK' /\ SameDeployment
  BY <1>1, <1>2, <1>5 DEF HInv, Typed, CacheOK, SameDeployment, Slots, Compressed
<1>8. /\ DOMAIN table'[r] = {} /\ computed'[r] = 0 /\ Len(tokens'[r]) \in Nat
      /\ Len(tokens'[r]) \in 1 .. MaxLen + 1 /\ prompt_len'[r] = Len(tokens'[r])
      /\ phase'[r] = "waiting"
  BY <1>1, <1>2, <1>3, <1>5, TokensOK DEF HInv, RequestOK, Typed
<1>9. RowOK(r)' /\ CachedOK(r)' /\ RowHeld(r)'
  BY <1>8, EmptyRow
<1>10. RequestOK(r)'
  BY <1>8, TokensOK DEF RequestOK
<1> QED BY <1>2, <1>4, <1>6, <1>7, <1>8, <1>9, <1>10, OneRequest

(* A request gives its blocks back: they stay cached.                      *)
LEMMA GiveBackStep ==
  ASSUME HInv, NEW r \in Requests, ~InBatch(r),
         UNCHANGED <<kv_cache, _cache, _kv_cache_ref, prefix_of, batch, hashed>>,
         SameDeployment, Typed', CacheOK', RequestOK(r)',
         \A q \in Requests : q # r => Same(q),
         table' = [table EXCEPT ![r] = <<>>], computed' = [computed EXCEPT ![r] = 0]
  PROVE  HInv'
<1>1. DOMAIN table = Requests /\ DOMAIN computed = Requests
  BY DEF HInv, Typed
<1>2. DOMAIN table'[r] = {} /\ computed'[r] = 0
  BY <1>1
<1>3. Len(tokens'[r]) \in Nat
  BY DEF Typed
<1>4. RowOK(r)' /\ CachedOK(r)' /\ RowHeld(r)'
  BY <1>2, <1>3, EmptyRow
<1> QED BY <1>2, <1>4, OneRequest

LEMMA PreemptStep == ASSUME NEW r \in Requests PROVE HInv /\ Preempt(r) => HInv'
<1> SUFFICES ASSUME HInv, Preempt(r) PROVE HInv'
  OBVIOUS
<1>1. ~InBatch(r)
  BY NotInBatch DEF Preempt
<1>2. Typed
  BY DEF HInv
<1>6. /\ deployment' \in [slots : BOOLEAN, remote : BOOLEAN, preempt : Nat]
      /\ SameDeployment /\ (deployment.slots /\ deployment.remote => deployment'.preempt = 0)
  <2>1. /\ deployment \in [slots : BOOLEAN, remote : BOOLEAN, preempt : Nat]
        /\ deployment.slots /\ deployment.remote => deployment.preempt = 0
        /\ deployment.preempt > 0
        /\ deployment' = [deployment EXCEPT !.preempt = deployment.preempt - 1]
    BY <1>2 DEF Preempt, Typed
  <2>2. deployment.preempt - 1 \in Nat
    BY <2>1
  <2>3. deployment' \in [slots : BOOLEAN, remote : BOOLEAN, preempt : Nat]
    BY <2>1, <2>2
  <2>4. SameDeployment
    BY <2>1 DEF SameDeployment
  <2>5. ~(deployment.slots /\ deployment.remote)
    BY <2>1
  <2> QED BY <2>3, <2>4, <2>5
<1>3. Typed' /\ SameDeployment /\ \A q \in Requests : q # r => Same(q)
  BY <1>2, <1>6 DEF Preempt, Typed, Same, SameDeployment
<1>4. CacheOK'
  BY <1>2 DEF Preempt, HInv, Typed, CacheOK, Slots, Compressed
<1>5. RequestOK(r)'
  <2>1. RequestOK(r) /\ phase[r] = "running"
    BY DEF HInv, Preempt
  <2>2. ~(deployment.slots /\ deployment.remote)
    BY <1>2 DEF Preempt, Typed
  <2> QED BY <1>2, <1>3, <2>1, <2>2, TokensOK DEF Preempt, RequestOK, Typed, SameDeployment
<1> QED BY <1>1, <1>3, <1>4, <1>5, GiveBackStep DEF Preempt

LEMMA FinishStep == ASSUME NEW r \in Requests PROVE HInv /\ Finish(r) => HInv'
<1> SUFFICES ASSUME HInv, Finish(r) PROVE HInv'
  OBVIOUS
<1>1. ~InBatch(r)
  BY NotInBatch DEF Finish
<1>2. Typed /\ phase[r] = "running"
  BY DEF HInv, Finish
<1>3. Typed' /\ SameDeployment /\ \A q \in Requests : q # r => Same(q)
  BY <1>2 DEF Finish, engine, Typed, Same, SameDeployment
<1>4. CacheOK'
  BY <1>2 DEF Finish, engine, HInv, Typed, CacheOK, Slots, Compressed
<1>5. RequestOK(r)'
  BY <1>2, TokensOK DEF Finish, RequestOK, Typed
<1> QED BY <1>1, <1>3, <1>4, <1>5, GiveBackStep DEF Finish, engine

(* A bounded set of numbers has a greatest.                                *)
LEMMA Greatest ==
  ASSUME NEW S, NEW m \in Nat, S \subseteq 0 .. m, NEW x \in S
  PROVE  \E k \in S : \A n \in S : n <= k
<1> DEFINE T == {d \in Nat : m - d \in S}
<1>1. m - x \in T
  BY DEF T
<1>2. PICK d \in T : \A e \in T : ~(e < d)
  <2>1. PICK d \in T : \A e \in T : <<e, d>> \notin OpToRel(<, Nat)
    BY <1>1, NatLessThanWellFounded, WFMin
  <2> QED BY <2>1 DEF OpToRel
<1>3. \A n \in S : m - n \in T /\ ~(m - n < d)
  <2>1. \A n \in S : n \in 0 .. m /\ m - n \in Nat /\ m - (m - n) = n
    OBVIOUS
  <2>2. \A n \in S : m - n \in T
    BY <2>1
  <2> QED BY <1>2, <2>2
<1>4. m - d \in S /\ d \in Nat
  BY <1>2
<1>5. \A n \in S : n \in Int /\ n <= m - d
  BY <1>3, <1>4
<1> QED BY <1>4, <1>5

LEMMA WholeBlocks ==
  ASSUME NEW k \in Nat, NEW n \in Nat, k <= n \div BlockSize
  PROVE  FirstOf(k) <= n
<1>1. BlockOf(n) \in Nat /\ (BlockOf(n) < k <=> n < FirstOf(k)) /\ FirstOf(k) \in Nat
  BY InBlock, Laid
<1>2. ~(BlockOf(n) < k)
  BY <1>1 DEF BlockOf
<1> QED BY <1>1, <1>2

(* The blocks of the longest hit.                                          *)
LEMMA AdmitHits ==
  ASSUME HInv, NEW r \in Requests, Admit(r)
  PROVE  \E k \in Nat : \E row \in HitBlocks(r, k) :
           /\ FirstOf(k) < Len(tokens[r])
           /\ table' = [table EXCEPT ![r] = row]
           /\ computed' = [computed EXCEPT ![r] = FirstOf(k)]
<1> DEFINE m == (Len(tokens[r]) - 1) \div BlockSize
           hits == {k \in 0 .. m : HitBlocks(r, k) # {}}
           longest == CHOOSE k \in hits : \A n \in hits : n <= k
<1>1. Len(tokens[r]) \in Nat /\ Len(tokens[r]) - 1 \in Nat
  <2>1. phase[r] = "waiting" /\ tokens[r] \in Seq(TokenIds) /\ RequestOK(r)
    BY DEF Admit, HInv, Typed
  <2> QED BY <2>1 DEF RequestOK
<1>2. m \in Nat
  BY <1>1, CacheShape, DivFacts
<1>3. 0 \in hits
  <2>1. 0 .. 0 - 1 = {} /\ 0 \in 0 .. m
    BY <1>2
  <2>2. [i \in 0 .. 0 - 1 |-> NullBlock] \in HitBlocks(r, 0)
    BY <2>1 DEF HitBlocks
  <2> QED BY <2>1, <2>2
<1>4. hits \subseteq 0 .. m
  OBVIOUS
<1> HIDE DEF hits
<1>5. longest \in hits
  BY <1>2, <1>3, <1>4, Greatest
<1>6. \E row \in HitBlocks(r, longest) :
        /\ table' = [table EXCEPT ![r] = row]
        /\ computed' = [computed EXCEPT ![r] = longest * BlockSize]
  BY DEF Admit, hits
<1> HIDE DEF longest
<1>7. longest \in Nat /\ longest <= m
  BY <1>2, <1>4, <1>5
<1>8. FirstOf(longest) <= Len(tokens[r]) - 1 /\ FirstOf(longest) \in Nat
  BY <1>1, <1>7, WholeBlocks, Laid
<1>9. FirstOf(longest) = longest * BlockSize /\ FirstOf(longest) < Len(tokens[r])
  BY <1>1, <1>8 DEF FirstOf
<1> QED BY <1>6, <1>7, <1>9

LEMMA PrefixFacts ==
  ASSUME NEW s \in Seq(TokenIds), NEW n \in Nat, n <= Len(s)
  PROVE  /\ SubSeq(s, 1, n) \in Seq(TokenIds) /\ Len(SubSeq(s, 1, n)) = n
         /\ \A j \in 1 .. n : SubSeq(s, 1, n)[j] = s[j]
         /\ n > 0 => SubSeq(s, 1, n) # <<>>
<1>1. SubSeq(s, 1, n) \in Seq(TokenIds) /\ Len(SubSeq(s, 1, n)) = n
      /\ \A j \in 1 .. n : SubSeq(s, 1, n)[j] = s[j]
  OBVIOUS
<1>2. n > 0 => SubSeq(s, 1, n) # <<>>
  <2>1. Len(<<>>) = 0
    OBVIOUS
  <2> QED BY <1>1, <2>1
<1> QED BY <1>1, <1>2

LEMMA AdmitStep == ASSUME NEW r \in Requests PROVE HInv /\ Admit(r) => HInv'
<1> SUFFICES ASSUME HInv, Admit(r) PROVE HInv'
  OBVIOUS
<1>1. PICK k \in Nat : \E row \in HitBlocks(r, k) :
           /\ FirstOf(k) < Len(tokens[r])
           /\ table' = [table EXCEPT ![r] = row]
           /\ computed' = [computed EXCEPT ![r] = FirstOf(k)]
  BY AdmitHits
<1>2. PICK row \in HitBlocks(r, k) :
           /\ FirstOf(k) < Len(tokens[r])
           /\ table' = [table EXCEPT ![r] = row]
           /\ computed' = [computed EXCEPT ![r] = FirstOf(k)]
  BY <1>1
<1>3. /\ phase[r] = "waiting" /\ phase' = [phase EXCEPT ![r] = "running"]
      /\ UNCHANGED <<deployment, kv_cache, _cache, _kv_cache_ref, tokens, prompt_len,
                     prefix_of, batch, hashed>>
  BY DEF Admit, engine
<1>4. Typed /\ RequestOK(r) /\ ~InBatch(r)
  BY <1>3, NotInBatch DEF HInv
<1>5. /\ tokens[r] \in Seq(TokenIds) /\ Len(tokens[r]) \in Nat /\ Len(tokens[r]) <= MaxLen + 1
      /\ FirstOf(k) \in Nat /\ MaxLen \in Nat
  BY <1>4, Laid, TokensOK DEF Typed, RequestOK
<1>6. /\ Typed' /\ SameDeployment /\ \A q \in Requests : q # r => Same(q)
      /\ table'[r] = row /\ computed'[r] = FirstOf(k)
  BY <1>2, <1>3, <1>4, <1>5 DEF Typed, Same, SameDeployment
<1>7. CacheOK'
  BY <1>3, <1>4 DEF HInv, Typed, CacheOK, Slots, Compressed
<1>8. RequestOK(r)'
  BY <1>2, <1>3, <1>4, <1>5, <1>6 DEF RequestOK, Typed
<1>9. Committed(r)' = FirstOf(k)
  BY <1>2, <1>3, <1>5, <1>6 DEF Committed
<1>10. /\ DOMAIN row = 0 .. k - 1
       /\ \A i \in 0 .. k - 1 :
            /\ row[i] \in Blocks \cup {NullBlock}
            /\ i >= FirstNeeded(FirstOf(k)) => row[i] \in Blocks
            /\ row[i] \in Blocks => prefix_of[row[i]] = SubSeq(tokens[r], 1, FirstOf(i + 1))
  <2>1. FirstNeeded(FirstOf(k)) \in Nat
    BY <1>5, Window_
  <2> QED BY <2>1, CacheShape DEF HitBlocks, FirstOf
<1>11. \A i \in 0 .. k - 1 : /\ FirstOf(i + 1) \in Nat /\ FirstOf(i + 1) <= FirstOf(k)
                             /\ FirstOf(i + 1) > 0 /\ i \in Nat
  <2> SUFFICES ASSUME NEW i \in 0 .. k - 1
               PROVE  /\ FirstOf(i + 1) \in Nat /\ FirstOf(i + 1) <= FirstOf(k)
                      /\ FirstOf(i + 1) > 0 /\ i \in Nat
    OBVIOUS
  <2>1. i \in Nat /\ i + 1 \in Nat /\ i < k
    OBVIOUS
  <2>2. FirstOf(i) \in Nat /\ FirstOf(i + 1) = FirstOf(i) + BlockSize
    BY <2>1, Laid
  <2>3. FirstOf(i + 1) <= FirstOf(k)
    BY <2>1, Laid
  <2> QED BY <2>1, <2>2, <2>3, CacheShape
<1>12. ASSUME NEW i \in 0 .. k - 1, row[i] \in Blocks
       PROVE  /\ Len(prefix_of[row[i]]) = FirstOf(i + 1) /\ prefix_of[row[i]] # <<>>
              /\ \A j \in 1 .. FirstOf(i + 1) : prefix_of[row[i]][j] = tokens[r][j]
  <2>1. FirstOf(i + 1) \in Nat /\ FirstOf(i + 1) > 0 /\ FirstOf(i + 1) <= Len(tokens[r])
    BY <1>2, <1>5, <1>11
  <2>2. prefix_of[row[i]] = SubSeq(tokens[r], 1, FirstOf(i + 1))
    BY <1>10, <1>12
  <2> QED BY <1>5, <2>1, <2>2, PrefixFacts
<1>13. RowOK(r)'
  <2>1. \E n \in Nat : DOMAIN table'[r] = 0 .. n - 1 /\ computed'[r] <= FirstOf(n)
    BY <1>5, <1>6, <1>10
  <2>2. \A i, j \in DOMAIN row : row[i] = row[j] /\ row[i] \in Blocks => i = j
    <3> SUFFICES ASSUME NEW i \in 0 .. k - 1, NEW j \in 0 .. k - 1, row[i] = row[j], row[i] \in Blocks
                 PROVE  i = j
      BY <1>10
    <3>1. FirstOf(i + 1) = FirstOf(j + 1)
      BY <1>12
    <3> QED BY <1>11, <3>1, SameFirst
  <2>3. \A i \in DOMAIN row : /\ row[i] \in Blocks \cup {NullBlock}
                              /\ i >= FirstNeeded(FirstOf(k)) => row[i] \in Blocks
    BY <1>10
  <2> QED BY <1>6, <2>1, <2>2, <2>3 DEF RowOK, FirstOf, FirstNeeded
<1>14. CachedOK(r)'
  BY <1>3, <1>6, <1>9, <1>10, <1>11, <1>12 DEF CachedOK, FirstOf
<1>15. ASSUME deployment.slots PROVE RowHeld(r)'
  <2> SUFFICES ASSUME NEW p \in Nat, p < FirstOf(k), deployment.remote => p >= prompt_len[r],
                      row[BlockOf(p)] \in Blocks
               PROVE  Lands(SlotOf(r, p), Compressed(tokens[r][p + 1]))'
    BY <1>3, <1>6, <1>9 DEF RowHeld, BlockOf
  <2>1. ~deployment.remote
    <3>1. deployment.remote => Len(tokens[r]) = prompt_len[r]
      BY <1>3, <1>4, <1>15 DEF RequestOK
    <3> QED BY <1>2, <1>5, <3>1
  <2> DEFINE i == BlockOf(p)
             o == p % BlockSize
  <2>2. /\ i \in Nat /\ i < k /\ o \in 0 .. BlockSize - 1 /\ p = FirstOf(i) + o
    BY InBlock
  <2>3. i \in 0 .. k - 1 /\ FirstOf(i + 1) = FirstOf(i) + BlockSize /\ FirstOf(i) \in Nat
        /\ FirstOf(i + 1) \in Nat
    BY <2>2, Laid
  <2> HIDE DEF i
  <2>4. row[i] \in Blocks
    BY DEF i
  <2>5. /\ Len(prefix_of[row[i]]) = FirstOf(i + 1) /\ prefix_of[row[i]] # <<>>
        /\ \A j \in 1 .. FirstOf(i + 1) : prefix_of[row[i]][j] = tokens[r][j]
    BY <1>12, <2>3, <2>4
  <2>6. CachedHeld(row[i])
    BY <1>15, <2>1, <2>4 DEF HInv, SlotsOK
  <2>7. Lands(<<row[i], o>>, Compressed(prefix_of[row[i]][Len(prefix_of[row[i]]) - BlockSize + o + 1]))
    BY <2>2, <2>5, <2>6 DEF CachedHeld
  <2> HIDE DEF o
  <2>8. Len(prefix_of[row[i]]) - BlockSize + o + 1 = p + 1 /\ p + 1 \in 1 .. FirstOf(i + 1)
    <3> DEFINE n == FirstOf(i)
               e == FirstOf(i + 1)
    <3>1. n \in Nat /\ e = n + BlockSize /\ p = n + o /\ o \in 0 .. BlockSize - 1
          /\ BlockSize \in Nat
      BY <2>2, <2>3, CacheShape DEF i
    <3> HIDE DEF n, e
    <3>2. e - BlockSize + o + 1 = p + 1 /\ p + 1 \in 1 .. e
      BY <3>1
    <3> QED BY <2>5, <3>2 DEF e
  <2>9. Lands(<<row[i], o>>, Compressed(tokens[r][p + 1]))
    BY <2>5, <2>7, <2>8
  <2>10. SlotOf(r, p)' = <<row[i], o>>
    BY <1>6 DEF SlotOf, i, o, BlockOf
  <2>11. \A n \in DOMAIN batch : table'[batch[n].req] = table[batch[n].req]
    BY <1>4, <1>6, BatchFacts DEF InBatch, Same
  <2>12. EnsureCache' = EnsureCache
    BY <1>3 DEF EnsureCache, use_slot_cache, Slots
  <2>13. Lands(<<row[i], o>>, Compressed(tokens[r][p + 1]))'
    BY <1>3, <2>9, <2>11, <2>12, SameLands DEF Compressed
  <2> QED BY <2>10, <2>13
<1>16. \A i \in DOMAIN table'[r] : table'[r][i] \in Blocks => prefix_of'[table'[r][i]] # <<>>
  BY <1>3, <1>6, <1>10, <1>12
<1> QED BY <1>3, <1>4, <1>6, <1>7, <1>8, <1>13, <1>14, <1>15, <1>16, OneRequest

LEMMA AdmitRemoteStep == ASSUME NEW r \in Requests PROVE HInv /\ AdmitRemote(r) => HInv'
<1> SUFFICES ASSUME HInv, AdmitRemote(r) PROVE HInv'
  OBVIOUS
<1> DEFINE Loaded(row, k, b) ==
             IF \E i \in 0 .. k - 1 : row[i] = b
             THEN SubSeq(tokens[r], 1, ((CHOOSE i \in 0 .. k - 1 : row[i] = b) + 1) * BlockSize)
             ELSE prefix_of[b]
           Gets(row, k) ==
             /\ \A i \in 0 .. k - 1 : ~InUse(row[i])
             /\ \A i, j \in 0 .. k - 1 : row[i] = row[j] => i = j
             /\ table' = [table EXCEPT ![r] = row]
             /\ computed' = [computed EXCEPT ![r] = k * BlockSize]
             /\ prefix_of' = [b \in Blocks |-> Loaded(row, k, b)]
<1>1. /\ phase[r] = "waiting" /\ Len(tokens[r]) = prompt_len[r] /\ deployment.remote
      /\ phase' = [phase EXCEPT ![r] = "running"]
      /\ UNCHANGED <<deployment, kv_cache, _cache, _kv_cache_ref, tokens, prompt_len,
                     batch, hashed>>
  BY DEF AdmitRemote, engine
<1>2. PICK k \in 1 .. (prompt_len[r] - 1) \div BlockSize :
        \E row \in [0 .. k - 1 -> Blocks] : Gets(row, k)
  BY DEF AdmitRemote
<1>3. PICK row \in [0 .. k - 1 -> Blocks] : Gets(row, k)
  BY <1>2
<1>4. Typed /\ RequestOK(r) /\ ~InBatch(r) /\ r \in DOMAIN table /\ r \in DOMAIN computed
  BY <1>1, NotInBatch DEF HInv, Typed
<1>5. /\ tokens[r] \in Seq(TokenIds) /\ Len(tokens[r]) \in Nat /\ Len(tokens[r]) > 0
      /\ Len(tokens[r]) <= MaxLen + 1 /\ MaxLen \in Nat
  BY <1>1, <1>4, TokensOK DEF Typed, RequestOK
<1>6. k \in Nat /\ FirstOf(k) \in Nat /\ FirstOf(k) < Len(tokens[r])
  <2>1. Len(tokens[r]) - 1 \in Nat
    BY <1>5
  <2>2. (Len(tokens[r]) - 1) \div BlockSize \in Nat
    BY <2>1, CacheShape, DivFacts
  <2>3. k \in Nat /\ k <= (Len(tokens[r]) - 1) \div BlockSize
    BY <1>1, <1>2, <2>2
  <2>4. FirstOf(k) <= Len(tokens[r]) - 1 /\ FirstOf(k) \in Nat
    BY <2>1, <2>3, WholeBlocks, Laid
  <2> QED BY <1>5, <2>3, <2>4
<1>7. \A i \in 0 .. k - 1 : /\ i \in Nat /\ FirstOf(i + 1) \in Nat
                            /\ FirstOf(i + 1) > 0 /\ FirstOf(i + 1) <= FirstOf(k)
  <2> SUFFICES ASSUME NEW i \in 0 .. k - 1
               PROVE  /\ i \in Nat /\ FirstOf(i + 1) \in Nat
                      /\ FirstOf(i + 1) > 0 /\ FirstOf(i + 1) <= FirstOf(k)
    OBVIOUS
  <2>1. i \in Nat /\ i + 1 \in Nat /\ i < k
    BY <1>6
  <2>2. FirstOf(i) \in Nat /\ FirstOf(i + 1) = FirstOf(i) + BlockSize
    BY <2>1, Laid
  <2>3. FirstOf(i + 1) <= FirstOf(k)
    BY <1>6, <2>1, Laid
  <2> QED BY <2>1, <2>2, <2>3, CacheShape
<1>8. /\ \A i \in 0 .. k - 1 : ~InUse(row[i]) /\ row[i] \in Blocks
      /\ \A i, j \in 0 .. k - 1 : row[i] = row[j] => i = j
      /\ table'[r] = row /\ computed'[r] = FirstOf(k) /\ DOMAIN row = 0 .. k - 1
      /\ computed' = [computed EXCEPT ![r] = FirstOf(k)]
      /\ table' = [table EXCEPT ![r] = row]
  BY <1>3, <1>4 DEF FirstOf
<1>9. \A b \in Blocks : (\A i \in 0 .. k - 1 : row[i] # b) => prefix_of'[b] = prefix_of[b]
  BY <1>3
<1>10. \A i \in 0 .. k - 1 : prefix_of'[row[i]] = SubSeq(tokens[r], 1, FirstOf(i + 1))
  <2> SUFFICES ASSUME NEW i \in 0 .. k - 1
               PROVE  prefix_of'[row[i]] = SubSeq(tokens[r], 1, FirstOf(i + 1))
    OBVIOUS
  <2>1. (CHOOSE j \in 0 .. k - 1 : row[j] = row[i]) = i
    BY <1>8
  <2>2. row[i] \in Blocks /\ \E j \in 0 .. k - 1 : row[j] = row[i]
    BY <1>8
  <2>3. prefix_of'[row[i]] = Loaded(row, k, row[i])
    BY <1>3, <2>2
  <2>4. Loaded(row, k, row[i])
          = SubSeq(tokens[r], 1, ((CHOOSE j \in 0 .. k - 1 : row[j] = row[i]) + 1) * BlockSize)
    BY <2>2
  <2> QED BY <2>1, <2>3, <2>4 DEF FirstOf
<1>11. ASSUME NEW i \in 0 .. k - 1
       PROVE  /\ prefix_of'[row[i]] \in Seq(TokenIds)
              /\ Len(prefix_of'[row[i]]) = FirstOf(i + 1) /\ prefix_of'[row[i]] # <<>>
              /\ \A j \in 1 .. FirstOf(i + 1) : prefix_of'[row[i]][j] = tokens[r][j]
  <2>1. FirstOf(i + 1) \in Nat /\ FirstOf(i + 1) > 0 /\ FirstOf(i + 1) <= Len(tokens[r])
    BY <1>5, <1>6, <1>7
  <2>2. prefix_of'[row[i]] = SubSeq(tokens[r], 1, FirstOf(i + 1))
    BY <1>10
  <2> QED BY <1>5, <2>1, <2>2, PrefixFacts
<1>12. Typed' /\ SameDeployment /\ \A q \in Requests : q # r => Same(q)
  <2>1. prefix_of' \in [Blocks -> Seq(TokenIds)]
    <3>1. prefix_of' = [b \in Blocks |-> prefix_of'[b]]
      BY <1>3
    <3>2. ASSUME NEW b \in Blocks PROVE prefix_of'[b] \in Seq(TokenIds)
      <4>1. CASE \E i \in 0 .. k - 1 : row[i] = b
        BY <1>11, <4>1
      <4>2. CASE \A i \in 0 .. k - 1 : row[i] # b
        BY <1>4, <1>9, <4>2 DEF Typed
      <4> QED BY <4>1, <4>2
    <3> QED BY <3>1, <3>2
  <2> QED BY <1>1, <1>4, <1>6, <1>8, <2>1 DEF Typed, Same, SameDeployment
<1>13. CacheOK'
  BY <1>1, <1>4 DEF HInv, Typed, CacheOK, Slots, Compressed
<1>14. RequestOK(r)'
  BY <1>1, <1>4, <1>5, <1>6, <1>8 DEF RequestOK, Typed
<1>15. Committed(r)' = FirstOf(k)
  BY <1>1, <1>5, <1>6, <1>8 DEF Committed
<1>16. RowOK(r)'
  <2>1. \E n \in Nat : DOMAIN table'[r] = 0 .. n - 1 /\ computed'[r] <= FirstOf(n)
    BY <1>6, <1>8
  <2> QED BY <1>8, <2>1 DEF RowOK, FirstOf, FirstNeeded
<1>17. CachedOK(r)'
  BY <1>1, <1>7, <1>8, <1>11, <1>15 DEF CachedOK, FirstOf
<1>18. RowHeld(r)'
  <2>1. \A p \in Nat : ~(p < FirstOf(k) /\ p >= prompt_len[r])
    BY <1>1, <1>5, <1>6
  <2> QED BY <1>1, <1>15, <2>1 DEF RowHeld
<1>19. \A q \in Requests : q # r => \A j \in DOMAIN table[q] : \A i \in 0 .. k - 1 :
         row[i] # table[q][j]
  BY <1>8 DEF InUse
<1>20. \A q \in Requests : q # r => \A j \in DOMAIN table[q] :
         table[q][j] \in Blocks => prefix_of'[table[q][j]] = prefix_of[table[q][j]]
  BY <1>9, <1>19
<1> QED BY <1>1, <1>4, <1>8, <1>12, <1>13, <1>14, <1>16, <1>17, <1>18, <1>19, <1>20, OneRequest

(* The certain tokens of a chunk, with the ones before it.                 *)
Sure(c) == c.start + Len(c.toks) - c.drafts

(* What Schedule(r) does: chunk c, and the row of r from then on.          *)
Kept(r, i) == IF i < FirstNeeded(computed[r]) THEN NullBlock ELSE table[r][i]

Scheduled(r, c, row) ==
  /\ phase[r] = "running" /\ ~InBatch(r)
  /\ UNCHANGED <<deployment, kv_cache, _cache, _kv_cache_ref, phase, tokens, prompt_len, hashed>>
  /\ c \in Chunk /\ c.req = r /\ c.start = computed[r] /\ c.drafts < Len(c.toks)
  /\ Sure(c) <= Len(tokens[r]) /\ (c.drafts > 0 => Sure(c) = Len(tokens[r]))
  /\ \A j \in 1 .. Len(c.toks) - c.drafts : c.toks[j] = tokens[r][c.start + j]
  /\ c.start + Len(c.toks) <= MaxLen
  /\ batch' = Append(batch, c)
  /\ computed' = [computed EXCEPT ![r] = c.start + Len(c.toks)]
  /\ table' = [table EXCEPT ![r] = row]
  /\ \E m \in Nat : DOMAIN row = 0 .. m - 1 /\ c.start + Len(c.toks) <= FirstOf(m)
  /\ \A i \in DOMAIN table[r] : i \in DOMAIN row /\ row[i] = Kept(r, i)
  /\ \A i \in DOMAIN row : i \notin DOMAIN table[r] =>
       /\ row[i] \in Blocks
       /\ \A q \in Requests : q # r => \A j \in DOMAIN table[q] : table[q][j] # row[i]
  /\ \A i, j \in DOMAIN row : row[i] = row[j] /\ row[i] \in Blocks => i = j
  /\ prefix_of' = [b \in Blocks |-> prefix_of'[b]]
  /\ \A b \in Blocks : (\A i \in DOMAIN row : row[i] # b) => prefix_of'[b] = prefix_of[b]
  /\ \A i \in DOMAIN row : row[i] \in Blocks =>
       prefix_of'[row[i]] = IF FirstOf(i + 1) <= Sure(c)
                            THEN SubSeq(tokens[r], 1, FirstOf(i + 1)) ELSE <<>>

(* The tokens of a chunk: some of the request's own, then the drafts.      *)
LEMMA NewChunk ==
  ASSUME NEW s \in Seq(TokenIds), NEW start \in Nat, NEW n \in 1 .. Len(s) - start,
         NEW draft \in BoundedSeq(Drafted, MaxDraft)
  PROVE  LET toks == SubSeq(s, start + 1, start + n) \o draft IN
         /\ toks \in Seq(TokenIds) /\ Len(toks) = n + Len(draft) /\ Len(draft) \in Nat
         /\ \A j \in 1 .. n : toks[j] = s[start + j]
         /\ Len(draft) > 0 => draft # <<>>
<1> DEFINE own == SubSeq(s, start + 1, start + n)
<1>1. draft \in Seq(TokenIds) /\ Len(draft) \in Nat
  <2>1. PICK m \in 0 .. MaxDraft : draft \in [1 .. m -> Drafted]
    BY DEF BoundedSeq, SeqOf
  <2>2. Drafted \subseteq TokenIds /\ MaxDraft \in Nat
    BY TokensOK
  <2>3. m \in Nat /\ draft \in [1 .. m -> TokenIds]
    BY <2>1, <2>2
  <2> QED BY <2>3
<1>2. own \in Seq(TokenIds) /\ Len(own) = n /\ \A j \in 1 .. n : own[j] = s[start + j]
  <2>1. /\ Len(s) \in Nat /\ n \in Nat /\ start + n \in Nat /\ start + n <= Len(s)
        /\ start + 1 \in Nat /\ start + 1 >= 1
    OBVIOUS
  <2>2. own \in Seq(TokenIds)
    BY <2>1
  <2>3. Len(own) = n
    BY <2>1
  <2>4. \A j \in 1 .. n : own[j] = s[start + j]
    <3>1. \A j \in 1 .. n : own[j] = s[(start + 1) + j - 1] /\ (start + 1) + j - 1 = start + j
      BY <2>1
    <3> QED BY <3>1
  <2> QED BY <2>2, <2>3, <2>4
<1>3. n \in Nat
  OBVIOUS
<1> HIDE DEF own
<1>4. own \o draft \in Seq(TokenIds) /\ Len(own \o draft) = n + Len(draft)
  BY <1>1, <1>2
<1>5. \A j \in 1 .. n : (own \o draft)[j] = own[j]
  BY <1>1, <1>2
<1>6. Len(<<>>) = 0
  OBVIOUS
<1> QED BY <1>1, <1>2, <1>4, <1>5, <1>6 DEF own

(* A row and the fresh blocks behind it reach the last position.           *)
LEMMA NewRow ==
  ASSUME NEW n \in Nat, NEW end \in Nat \ {0}
  PROVE  \E m \in Nat :
           /\ 0 .. n - 1 \cup (0 .. (end - 1) \div BlockSize \ (0 .. n - 1)) = 0 .. m - 1
           /\ end <= FirstOf(m)
<1> DEFINE last == (end - 1) \div BlockSize
           m == IF n <= last THEN last + 1 ELSE n
<1>1. end - 1 \in Nat
  OBVIOUS
<1>2. last \in Nat /\ \A i \in Nat : last < i <=> end - 1 < FirstOf(i)
  BY <1>1, InBlock DEF BlockOf
<1> HIDE DEF last
<1>3. m \in Nat /\ last < m
  BY <1>2
<1>4. 0 .. n - 1 \cup (0 .. last \ (0 .. n - 1)) = 0 .. m - 1
  BY <1>2
<1>5. FirstOf(m) \in Nat /\ end - 1 < FirstOf(m)
  BY <1>2, <1>3, Laid
<1> HIDE DEF m
<1>6. end <= FirstOf(m)
  BY <1>5
<1> QED BY <1>3, <1>4, <1>6 DEF last

LEMMA ScheduleFacts ==
  ASSUME HInv, NEW r \in Requests, Schedule(r)
  PROVE  \E c : \E row : Scheduled(r, c, row)
<1> DEFINE start == computed[r]
           End(n, draft) == start + n + Len(draft)
           kept == [i \in DOMAIN table[r] |->
                      IF i < FirstNeeded(start) THEN NullBlock ELSE table[r][i]]
           Fresh(n, draft) == 0 .. (End(n, draft) - 1) \div BlockSize \ DOMAIN kept
           free == {b \in Blocks :
                      /\ \A q \in Requests \ {r} :
                           \A i \in DOMAIN table[q] : table[q][i] # b
                      /\ \A i \in DOMAIN kept : kept[i] # b}
           NextRow(n, draft, alloc) ==
             [i \in DOMAIN kept \cup Fresh(n, draft) |->
                IF i \in DOMAIN kept THEN kept[i] ELSE alloc[i]]
           Place(row, b) == CHOOSE i \in DOMAIN row : row[i] = b
           Cached(n, row, b) ==
             IF \A i \in DOMAIN row : row[i] # b THEN prefix_of[b]
             ELSE IF (Place(row, b) + 1) * BlockSize <= start + n
             THEN SubSeq(tokens[r], 1, (Place(row, b) + 1) * BlockSize)
             ELSE <<>>
           NewC(n, draft) ==
             [req |-> r, start |-> start, drafts |-> Len(draft),
              toks |-> SubSeq(tokens[r], start + 1, start + n) \o draft]
           Gives(n, draft) ==
             /\ draft # <<>> => start + n = Len(tokens[r])
             /\ End(n, draft) <= MaxLen
             /\ \E alloc \in [Fresh(n, draft) -> free] :
                  /\ \A i, j \in Fresh(n, draft) : alloc[i] = alloc[j] => i = j
                  /\ /\ table' = [table EXCEPT ![r] = NextRow(n, draft, alloc)]
                     /\ prefix_of' = [b \in Blocks |-> Cached(n, NextRow(n, draft, alloc), b)]
             /\ computed' = [computed EXCEPT ![r] = End(n, draft)]
             /\ batch' = Append(batch, NewC(n, draft))
<1>1. /\ phase[r] = "running" /\ ~InBatch(r)
      /\ UNCHANGED <<deployment, kv_cache, _cache, _kv_cache_ref, phase, tokens, prompt_len,
                     hashed>>
  BY NotInBatch DEF Schedule, engine
<1>2. \E n \in 1 .. Len(tokens[r]) - computed[r] : \E draft \in BoundedSeq(Drafted, MaxDraft) :
        Gives(n, draft)
  BY Zenon DEF Schedule
<1>3. PICK n \in 1 .. Len(tokens[r]) - computed[r] :
        \E draft \in BoundedSeq(Drafted, MaxDraft) : Gives(n, draft)
  BY <1>2
<1>4. PICK draft \in BoundedSeq(Drafted, MaxDraft) : Gives(n, draft)
  BY <1>3
<1>5. PICK alloc \in [Fresh(n, draft) -> free] :
        /\ \A i, j \in Fresh(n, draft) : alloc[i] = alloc[j] => i = j
        /\ table' = [table EXCEPT ![r] = NextRow(n, draft, alloc)]
        /\ prefix_of' = [b \in Blocks |-> Cached(n, NextRow(n, draft, alloc), b)]
  BY <1>4
<1> DEFINE c == NewC(n, draft)
           row == NextRow(n, draft, alloc)
           fresh == Fresh(n, draft)
<1>6. /\ tokens[r] \in Seq(TokenIds) /\ Len(tokens[r]) \in Nat /\ start \in Nat /\ n \in Nat
      /\ n > 0 /\ start + n <= Len(tokens[r]) /\ MaxLen \in Nat
  <2>1. tokens[r] \in Seq(TokenIds) /\ computed[r] \in Nat
    BY DEF HInv, Typed
  <2> QED BY <2>1, TokensOK
<1>7. /\ c.toks \in Seq(TokenIds) /\ Len(c.toks) = n + Len(draft) /\ Len(draft) \in Nat
      /\ \A j \in 1 .. n : c.toks[j] = tokens[r][start + j]
      /\ Len(draft) > 0 => draft # <<>>
  <2>1. c.toks = SubSeq(tokens[r], start + 1, start + n) \o draft
    OBVIOUS
  <2> DEFINE s == tokens[r]
             at == start
  <2>2. s \in Seq(TokenIds) /\ at \in Nat /\ n \in 1 .. Len(s) - at
    BY <1>6
  <2> HIDE DEF s, at
  <2>3. LET toks == SubSeq(s, at + 1, at + n) \o draft IN
         /\ toks \in Seq(TokenIds) /\ Len(toks) = n + Len(draft) /\ Len(draft) \in Nat
         /\ \A j \in 1 .. n : toks[j] = s[at + j]
         /\ Len(draft) > 0 => draft # <<>>
    BY <2>2, NewChunk
  <2> HIDE DEF c
  <2> QED BY <2>1, <2>3 DEF s, at
<1>8. c.req = r /\ c.start = start /\ c.drafts = Len(draft) /\ c \in Chunk
  BY <1>6, <1>7 DEF Chunk
<1>9. End(n, draft) \in Nat \ {0} /\ End(n, draft) = c.start + Len(c.toks)
      /\ Sure(c) = start + n /\ Len(c.toks) - c.drafts = n /\ c.drafts < Len(c.toks)
  <2> HIDE DEF c
  <2>1. start + n + Len(draft) = c.start + Len(c.toks) /\ start + n + Len(draft) \in Nat \ {0}
    BY <1>6, <1>7, <1>8
  <2>2. Sure(c) = start + n /\ Len(c.toks) - c.drafts = n /\ c.drafts < Len(c.toks)
    BY <1>6, <1>7, <1>8 DEF Sure
  <2> QED BY <2>1, <2>2
<1>10. /\ DOMAIN table[r] \subseteq Nat
       /\ \E m \in Nat : DOMAIN table[r] \cup fresh = 0 .. m - 1 /\ End(n, draft) <= FirstOf(m)
  <2>1. PICK k \in Nat : DOMAIN table[r] = 0 .. k - 1
    BY DEF HInv, RowOK
  <2>2. fresh = 0 .. (End(n, draft) - 1) \div BlockSize \ (0 .. k - 1)
    BY <2>1
  <2> HIDE DEF fresh, End
  <2>3. \E m \in Nat : /\ 0 .. k - 1 \cup fresh = 0 .. m - 1
                       /\ End(n, draft) <= FirstOf(m)
    BY <1>9, <2>2, NewRow
  <2> QED BY <2>1, <2>3
<1>11. /\ DOMAIN row = DOMAIN table[r] \cup fresh
       /\ \A i \in DOMAIN table[r] : row[i] = Kept(r, i)
       /\ \A i \in fresh : i \notin DOMAIN table[r] /\ row[i] = alloc[i] /\ alloc[i] \in free
  BY <1>5 DEF Kept
<1>12. \A i \in fresh : /\ row[i] \in Blocks
                        /\ \A q \in Requests : q # r => \A j \in DOMAIN table[q] : table[q][j] # row[i]
                        /\ \A j \in DOMAIN table[r] : row[j] # row[i]
  <2>1. \A b \in free : /\ b \in Blocks
                        /\ \A q \in Requests : q # r => \A j \in DOMAIN table[q] : table[q][j] # b
                        /\ \A j \in DOMAIN table[r] : Kept(r, j) # b
    BY DEF Kept
  <2> HIDE DEF free, row, fresh
  <2> QED BY <1>11, <2>1
<1>13. \A i, j \in DOMAIN row : row[i] = row[j] /\ row[i] \in Blocks => i = j
  <2>1. \A i, j \in fresh : row[i] = row[j] => i = j
    <3>1. \A i, j \in fresh : alloc[i] = alloc[j] => i = j
      BY <1>5
    <3>2. \A i \in fresh : row[i] = alloc[i]
      BY <1>11
    <3> HIDE DEF row, fresh
    <3> QED BY <3>1, <3>2
  <2>2. \A i, j \in DOMAIN table[r] : row[i] = row[j] /\ row[i] \in Blocks => i = j
    <3>1. RowOK(r)
      BY DEF HInv
    <3>2. \A i \in DOMAIN table[r] : row[i] \in Blocks => row[i] = table[r][i]
      BY <1>11, CacheShape DEF Kept
    <3> HIDE DEF row
    <3> QED BY <3>1, <3>2 DEF RowOK
  <2> HIDE DEF row, fresh
  <2> QED BY <1>11, <1>12, <2>1, <2>2
<1>14. /\ batch' = Append(batch, c)
       /\ computed' = [computed EXCEPT ![r] = c.start + Len(c.toks)]
       /\ table' = [table EXCEPT ![r] = row]
       /\ prefix_of' = [b \in Blocks |-> Cached(n, row, b)]
       /\ c.start + Len(c.toks) <= MaxLen
       /\ draft # <<>> => start + n = Len(tokens[r])
  BY <1>4, <1>5, <1>9
<1> HIDE DEF c, row, fresh
<1>15. /\ \A b \in Blocks : (\A i \in DOMAIN row : row[i] # b) => prefix_of'[b] = prefix_of[b]
       /\ prefix_of' = [b \in Blocks |-> prefix_of'[b]]
  BY <1>14
<1>16. ASSUME NEW i \in DOMAIN row, row[i] \in Blocks
       PROVE  prefix_of'[row[i]] = IF FirstOf(i + 1) <= Sure(c)
                                   THEN SubSeq(tokens[r], 1, FirstOf(i + 1)) ELSE <<>>
  <2>1. Place(row, row[i]) = i
    BY <1>13, <1>16
  <2>2. prefix_of'[row[i]] = Cached(n, row, row[i])
    BY <1>14, <1>16
  <2>3. Cached(n, row, row[i])
          = IF (Place(row, row[i]) + 1) * BlockSize <= start + n
            THEN SubSeq(tokens[r], 1, (Place(row, row[i]) + 1) * BlockSize)
            ELSE <<>>
    BY <1>16
  <2> HIDE DEF Place, Cached
  <2> QED BY <1>9, <2>1, <2>2, <2>3 DEF FirstOf
<1>17. \E m \in Nat : DOMAIN row = 0 .. m - 1 /\ c.start + Len(c.toks) <= FirstOf(m)
  BY <1>9, <1>10, <1>11
<1>18. /\ c.drafts < Len(c.toks) /\ Sure(c) <= Len(tokens[r])
       /\ c.drafts > 0 => Sure(c) = Len(tokens[r])
       /\ \A j \in 1 .. Len(c.toks) - c.drafts : c.toks[j] = tokens[r][c.start + j]
  BY <1>6, <1>7, <1>8, <1>9, <1>14
<1>19. /\ \A i \in DOMAIN table[r] : i \in DOMAIN row /\ row[i] = Kept(r, i)
       /\ \A i \in DOMAIN row : i \notin DOMAIN table[r] =>
            /\ row[i] \in Blocks
            /\ \A q \in Requests : q # r => \A j \in DOMAIN table[q] : table[q][j] # row[i]
  BY <1>11, <1>12
<1>20. Scheduled(r, c, row)
  BY <1>1, <1>8, <1>13, <1>14, <1>15, <1>16, <1>17, <1>18, <1>19 DEF Scheduled
<1> QED BY <1>20

LEMMA ScheduledTypes ==
  ASSUME HInv, NEW r \in Requests, NEW c, NEW row, Scheduled(r, c, row)
  PROVE  /\ tokens[r] \in Seq(TokenIds) /\ Len(tokens[r]) \in Nat
         /\ c.start \in Nat /\ c.drafts \in Nat /\ c.toks \in Seq(TokenIds)
         /\ Len(c.toks) \in Nat /\ DOMAIN c.toks = 1 .. Len(c.toks)
         /\ Sure(c) \in Nat /\ c.start < Sure(c) /\ Sure(c) <= c.start + Len(c.toks)
         /\ c.start = Committed(r) /\ Committed(r)' = Sure(c)
         /\ table'[r] = row /\ computed'[r] = c.start + Len(c.toks)
         /\ \A q \in Requests : q # r => Same(q)
         /\ SameDeployment
         /\ \A i \in DOMAIN row : i \in Nat /\ i + 1 \in Nat
         /\ \A i \in DOMAIN row : row[i] \in Blocks \cup {NullBlock}
         /\ \A i \in DOMAIN table[r] : row[i] \in Blocks => row[i] = table[r][i]
         /\ c.start + Len(c.toks) \in Nat
<1>1. Typed /\ RequestOK(r) /\ RowOK(r)
  BY DEF HInv
<1>2. /\ tokens[r] \in Seq(TokenIds) /\ Len(tokens[r]) \in Nat /\ computed[r] \in Nat
      /\ DOMAIN table = Requests /\ DOMAIN computed = Requests
  BY <1>1 DEF Typed
<1>3. /\ c.start = computed[r] /\ c \in Chunk /\ c.drafts < Len(c.toks)
      /\ Sure(c) <= Len(tokens[r]) /\ (c.drafts > 0 => Sure(c) = Len(tokens[r]))
      /\ ~InBatch(r)
      /\ table' = [table EXCEPT ![r] = row]
      /\ computed' = [computed EXCEPT ![r] = c.start + Len(c.toks)]
      /\ UNCHANGED <<deployment, phase, tokens, prompt_len>>
  BY DEF Scheduled
<1>4. /\ c.start \in Nat /\ c.drafts \in Nat /\ c.toks \in Seq(TokenIds)
      /\ Len(c.toks) \in Nat /\ DOMAIN c.toks = 1 .. Len(c.toks)
  BY <1>3 DEF Chunk
<1>5. Sure(c) \in Nat /\ c.start < Sure(c) /\ Sure(c) <= c.start + Len(c.toks)
      /\ (c.drafts = 0 => Sure(c) = c.start + Len(c.toks))
      /\ (c.drafts > 0 => Sure(c) < c.start + Len(c.toks))
      /\ c.start + Len(c.toks) \in Nat
  <2> DEFINE a == c.start
             n == Len(c.toks)
             d == c.drafts
  <2>1. a \in Nat /\ n \in Nat /\ d \in Nat /\ d < n
    BY <1>3, <1>4
  <2>2. Sure(c) = a + n - d
    BY DEF Sure
  <2> HIDE DEF a, n, d
  <2>3. /\ Sure(c) \in Nat /\ a < Sure(c) /\ Sure(c) <= a + n
        /\ (d = 0 => Sure(c) = a + n) /\ (d > 0 => Sure(c) < a + n)
        /\ a + n \in Nat
    BY <2>1, <2>2
  <2> QED BY <2>3 DEF a, n, d
<1>6. c.start = Committed(r)
  BY <1>1, <1>2, <1>3 DEF Committed, RequestOK
<1>7. table'[r] = row /\ computed'[r] = c.start + Len(c.toks)
      /\ \A q \in Requests : q # r => Same(q)
  BY <1>2, <1>3 DEF Same
<1>8. Committed(r)' = Sure(c)
  <2>1. Committed(r)' = IF c.start + Len(c.toks) <= Len(tokens[r])
                        THEN c.start + Len(c.toks) ELSE Len(tokens[r])
    BY <1>3, <1>7 DEF Committed
  <2> DEFINE e == c.start + Len(c.toks)
             s == Sure(c)
  <2>2. e \in Nat /\ s \in Nat /\ c.drafts \in Nat /\ s <= Len(tokens[r])
        /\ (c.drafts = 0 => s = e) /\ (c.drafts > 0 => s < e /\ s = Len(tokens[r]))
    BY <1>3, <1>4, <1>5
  <2> HIDE DEF e, s
  <2>3. s = IF e <= Len(tokens[r]) THEN e ELSE Len(tokens[r])
    BY <1>2, <2>2
  <2> QED BY <2>1, <2>3 DEF e, s
<1>9. \A i \in DOMAIN row : i \in Nat /\ i + 1 \in Nat
  <2>1. PICK m \in Nat : DOMAIN row = 0 .. m - 1
    BY DEF Scheduled
  <2> QED BY <2>1
<1>10. /\ \A i \in DOMAIN row : row[i] \in Blocks \cup {NullBlock}
       /\ \A i \in DOMAIN table[r] : row[i] \in Blocks => row[i] = table[r][i]
  <2>1. /\ \A i \in DOMAIN table[r] : i \in DOMAIN row /\ row[i] = Kept(r, i)
        /\ \A i \in DOMAIN row : i \notin DOMAIN table[r] => row[i] \in Blocks
    BY DEF Scheduled
  <2>2. \A i \in DOMAIN table[r] : table[r][i] \in Blocks \cup {NullBlock}
    BY <1>1 DEF RowOK
  <2> QED BY <2>1, <2>2, CacheShape DEF Kept
<1> QED BY <1>2, <1>3, <1>4, <1>5, <1>6, <1>7, <1>8, <1>9, <1>10 DEF SameDeployment

(* A block kept in the row, if it was cached, stays what it was.           *)
LEMMA KeptCached ==
  ASSUME HInv, NEW r \in Requests, NEW c, NEW row, Scheduled(r, c, row),
         NEW i \in DOMAIN table[r], row[i] \in Blocks, prefix_of[row[i]] # <<>>
  PROVE  /\ FirstOf(i + 1) <= c.start /\ FirstOf(i + 1) \in Nat /\ i \in Nat
         /\ Len(prefix_of[row[i]]) = FirstOf(i + 1) /\ Len(prefix_of'[row[i]]) = FirstOf(i + 1)
         /\ prefix_of'[row[i]] # <<>>
         /\ \A j \in 1 .. FirstOf(i + 1) : prefix_of'[row[i]][j] = prefix_of[row[i]][j]
<1>1. /\ row[i] = table[r][i] /\ c.start = Committed(r) /\ i \in Nat /\ i \in DOMAIN row
      /\ c.start \in Nat /\ Sure(c) \in Nat /\ c.start < Sure(c) /\ Sure(c) <= Len(tokens[r])
      /\ tokens[r] \in Seq(TokenIds) /\ Len(tokens[r]) \in Nat
  <2>1. i \in DOMAIN row /\ Sure(c) <= Len(tokens[r])
    BY DEF Scheduled
  <2> QED BY <2>1, ScheduledTypes
<1>2. /\ FirstOf(i + 1) <= c.start /\ Len(prefix_of[row[i]]) = FirstOf(i + 1)
      /\ \A j \in 1 .. FirstOf(i + 1) : prefix_of[row[i]][j] = tokens[r][j]
  <2>1. CachedOK(r)
    BY DEF HInv
  <2> QED BY <1>1, <2>1 DEF CachedOK
<1>3. FirstOf(i + 1) \in Nat /\ FirstOf(i + 1) > 0
  <2>1. FirstOf(i) \in Nat /\ FirstOf(i + 1) = FirstOf(i) + BlockSize
    BY <1>1, Laid
  <2> QED BY <2>1, CacheShape
<1>4. FirstOf(i + 1) <= Sure(c) /\ FirstOf(i + 1) <= Len(tokens[r])
  BY <1>1, <1>2, <1>3
<1>5. prefix_of'[row[i]] = SubSeq(tokens[r], 1, FirstOf(i + 1))
  BY <1>1, <1>4 DEF Scheduled
<1>6. /\ Len(prefix_of'[row[i]]) = FirstOf(i + 1) /\ prefix_of'[row[i]] # <<>>
      /\ \A j \in 1 .. FirstOf(i + 1) : prefix_of'[row[i]][j] = tokens[r][j]
  <2>1. PICK n : n = FirstOf(i + 1)
    OBVIOUS
  <2>2. n \in Nat /\ n > 0 /\ n <= Len(tokens[r])
    BY <1>3, <1>4, <2>1
  <2>3. /\ SubSeq(tokens[r], 1, n) \in Seq(TokenIds) /\ Len(SubSeq(tokens[r], 1, n)) = n
        /\ \A j \in 1 .. n : SubSeq(tokens[r], 1, n)[j] = tokens[r][j]
        /\ SubSeq(tokens[r], 1, n) # <<>>
    BY <1>1, <2>2, PrefixFacts
  <2> QED BY <1>5, <2>1, <2>3
<1> QED BY <1>1, <1>2, <1>3, <1>6

(* A block that another row has too was kept and is cached.                *)
LEMMA SharedStays ==
  ASSUME HInv, NEW r \in Requests, NEW c, NEW row, Scheduled(r, c, row),
         NEW i \in DOMAIN row, row[i] \in Blocks,
         NEW q \in Requests, q # r, NEW j \in DOMAIN table[q], table[q][j] = row[i]
  PROVE  i \in DOMAIN table[r] /\ row[i] = table[r][i] /\ prefix_of[row[i]] # <<>>
<1>1. i \in DOMAIN table[r]
  BY DEF Scheduled
<1>2. row[i] = table[r][i]
  BY <1>1, ScheduledTypes
<1> QED BY <1>1, <1>2 DEF HInv, SharedOK

LEMMA ScheduledCached ==
  ASSUME HInv, NEW r \in Requests, NEW c, NEW row, Scheduled(r, c, row),
         NEW q \in Requests
  PROVE  CachedOK(q)'
<1>1. /\ table'[r] = row /\ Committed(r)' = Sure(c) /\ tokens' = tokens
      /\ Sure(c) \in Nat /\ Sure(c) <= Len(tokens[r])
      /\ tokens[r] \in Seq(TokenIds) /\ Len(tokens[r]) \in Nat
      /\ \A i \in DOMAIN row : i \in Nat /\ i + 1 \in Nat
  <2>1. tokens' = tokens /\ Sure(c) <= Len(tokens[r])
    BY DEF Scheduled
  <2> QED BY <2>1, ScheduledTypes
<1>2. CASE q = r
  <2> SUFFICES ASSUME NEW i \in DOMAIN row, row[i] \in Blocks, prefix_of'[row[i]] # <<>>
               PROVE  /\ FirstOf(i + 1) <= Sure(c) /\ Len(prefix_of'[row[i]]) = FirstOf(i + 1)
                      /\ \A j \in 1 .. FirstOf(i + 1) : prefix_of'[row[i]][j] = tokens[r][j]
    BY <1>1, <1>2 DEF CachedOK, FirstOf
  <2>1. FirstOf(i + 1) <= Sure(c) /\ prefix_of'[row[i]] = SubSeq(tokens[r], 1, FirstOf(i + 1))
    BY DEF Scheduled
  <2>2. FirstOf(i + 1) \in Nat
    <3>1. i + 1 \in Nat
      BY <1>1
    <3> QED BY <3>1, Laid
  <2>3. FirstOf(i + 1) <= Len(tokens[r])
    BY <1>1, <2>1, <2>2
  <2> QED BY <1>1, <2>1, <2>2, <2>3, PrefixFacts
<1>3. CASE q # r
  <2>1. Same(q) /\ CachedOK(q)
    BY <1>3, ScheduledTypes DEF HInv
  <2>2. Committed(q)' = Committed(q)
    BY <2>1 DEF Committed, Same
  <2> SUFFICES ASSUME NEW i \in DOMAIN table[q], table[q][i] \in Blocks,
                      prefix_of'[table[q][i]] # <<>>
               PROVE  /\ FirstOf(i + 1) <= Committed(q)
                      /\ Len(prefix_of'[table[q][i]]) = FirstOf(i + 1)
                      /\ \A j \in 1 .. FirstOf(i + 1) : prefix_of'[table[q][i]][j] = tokens[q][j]
    BY <2>1, <2>2 DEF CachedOK, FirstOf, Same
  <2>3. CASE \A k \in DOMAIN row : row[k] # table[q][i]
    <3>1. prefix_of'[table[q][i]] = prefix_of[table[q][i]]
      BY <2>3 DEF Scheduled
    <3> QED BY <2>1, <3>1 DEF CachedOK
  <2>4. CASE \E k \in DOMAIN row : row[k] = table[q][i]
    <3>1. PICK k \in DOMAIN row : row[k] = table[q][i]
      BY <2>4
    <3>2. k \in DOMAIN table[r] /\ prefix_of[row[k]] # <<>>
      BY <1>3, <3>1, SharedStays
    <3>3. /\ Len(prefix_of[row[k]]) = FirstOf(k + 1) /\ Len(prefix_of'[row[k]]) = FirstOf(k + 1)
          /\ \A j \in 1 .. FirstOf(k + 1) : prefix_of'[row[k]][j] = prefix_of[row[k]][j]
      BY <3>1, <3>2, KeptCached
    <3>4. /\ FirstOf(i + 1) <= Committed(q) /\ Len(prefix_of[row[k]]) = FirstOf(i + 1)
          /\ \A j \in 1 .. FirstOf(i + 1) : prefix_of[row[k]][j] = tokens[q][j]
      BY <2>1, <3>1, <3>2 DEF CachedOK
    <3>5. FirstOf(k + 1) = FirstOf(i + 1)
      BY <3>3, <3>4
    <3> QED BY <3>1, <3>3, <3>4, <3>5
  <2> QED BY <2>3, <2>4
<1> QED BY <1>2, <1>3

LEMMA ScheduledShared ==
  ASSUME HInv, NEW r \in Requests, NEW c, NEW row, Scheduled(r, c, row)
  PROVE  SharedOK'
<1>1. table'[r] = row /\ \A q \in Requests : q # r => table'[q] = table[q]
  BY ScheduledTypes DEF Same
<1>2. ASSUME NEW i \in DOMAIN row, row[i] \in Blocks,
             NEW q \in Requests, q # r, NEW j \in DOMAIN table[q], table[q][j] = row[i]
      PROVE  prefix_of'[row[i]] # <<>>
  <2>1. i \in DOMAIN table[r] /\ prefix_of[row[i]] # <<>>
    BY <1>2, SharedStays
  <2> QED BY <1>2, <2>1, KeptCached
<1>3. ASSUME NEW p \in Requests, NEW q \in Requests, p # r, q # r, p # q,
             NEW i \in DOMAIN table[p], NEW j \in DOMAIN table[q],
             table[p][i] = table[q][j], table[p][i] \in Blocks
      PROVE  prefix_of'[table[p][i]] # <<>>
  <2>1. prefix_of[table[p][i]] # <<>>
    BY <1>3 DEF HInv, SharedOK
  <2>2. CASE \A k \in DOMAIN row : row[k] # table[p][i]
    BY <1>3, <2>1, <2>2 DEF Scheduled
  <2>3. CASE \E k \in DOMAIN row : row[k] = table[p][i]
    BY <1>2, <1>3, <2>3
  <2> QED BY <2>2, <2>3
<1> SUFFICES ASSUME NEW p \in Requests, NEW q \in Requests,
                    NEW i \in DOMAIN table'[p], NEW j \in DOMAIN table'[q],
                    p # q, table'[p][i] = table'[q][j], table'[p][i] \in Blocks
             PROVE  prefix_of'[table'[p][i]] # <<>>
  BY DEF SharedOK
<1>4. CASE p = r
  BY <1>1, <1>2, <1>4
<1>5. CASE q = r
  BY <1>1, <1>2, <1>5
<1>6. CASE p # r /\ q # r
  BY <1>1, <1>3, <1>6
<1> QED BY <1>4, <1>5, <1>6

(* The writes of a new chunk go to blocks that no other request has and    *)
(* that were not cached.                                                   *)
LEMMA NewWrites ==
  ASSUME HInv, NEW r \in Requests, NEW c, NEW row, Scheduled(r, c, row),
         NEW j \in DOMAIN c.toks
  PROVE  LET p == c.start + j - 1 IN
         /\ p \in Nat /\ p >= c.start /\ j \in Nat /\ j >= 1
         /\ BlockOf(p) \in DOMAIN row /\ row[BlockOf(p)] \in Blocks
         /\ \A q \in Requests : q # r => \A i \in DOMAIN table[q] : table[q][i] # row[BlockOf(p)]
<1> DEFINE p == c.start + j - 1
           i == BlockOf(p)
<1>1. /\ c.start \in Nat /\ Len(c.toks) \in Nat /\ j \in 1 .. Len(c.toks)
      /\ c.start = Committed(r) /\ c.start + Len(c.toks) \in Nat /\ c.start = computed[r]
  <2>1. c.start = computed[r]
    BY DEF Scheduled
  <2> QED BY <2>1, ScheduledTypes
<1>2. p \in Nat /\ p >= c.start /\ p < c.start + Len(c.toks) /\ j \in Nat /\ j >= 1
  BY <1>1
<1> HIDE DEF p
<1>3. i \in DOMAIN row /\ i \in Nat
  <2>1. PICK m \in Nat : DOMAIN row = 0 .. m - 1 /\ c.start + Len(c.toks) <= FirstOf(m)
    BY DEF Scheduled
  <2>2. FirstOf(m) \in Nat
    BY Laid
  <2>3. p < FirstOf(m)
    BY <1>1, <1>2, <2>1, <2>2
  <2>4. BlockOf(p) \in Nat /\ BlockOf(p) < m
    BY <1>2, <2>3, InBlock
  <2> QED BY <2>1, <2>4
<1>4. FirstNeeded(c.start) <= i /\ FirstNeeded(c.start) \in Nat
  <2>1. c.start - p < Window
    BY <1>1, <1>2, WindowCoversLookback, CacheShape
  <2> QED BY <1>1, <1>2, <2>1, Window_
<1> HIDE DEF i
<1>5. row[i] \in Blocks
  <2>1. CASE i \in DOMAIN table[r]
    <3>1. row[i] = table[r][i]
      <4>1. row[i] = Kept(r, i)
        BY <2>1 DEF Scheduled
      <4> QED BY <1>1, <1>3, <1>4, <4>1 DEF Kept
    <3>2. RowOK(r) /\ ~InBatch(r)
      BY DEF HInv, Scheduled
    <3> QED BY <1>1, <1>3, <1>4, <2>1, <3>1, <3>2 DEF RowOK
  <2>2. CASE i \notin DOMAIN table[r]
    BY <1>3, <2>2 DEF Scheduled
  <2> QED BY <2>1, <2>2
<1>6. ASSUME NEW q \in Requests, q # r, NEW n \in DOMAIN table[q], table[q][n] = row[i]
      PROVE  FALSE
  <2>1. i \in DOMAIN table[r] /\ prefix_of[row[i]] # <<>>
    BY <1>3, <1>5, <1>6, SharedStays
  <2>2. FirstOf(i + 1) <= c.start /\ FirstOf(i + 1) \in Nat
    BY <1>5, <2>1, KeptCached
  <2>3. p < FirstOf(i + 1)
    BY <1>2, <1>3, SameBlock DEF i
  <2> QED BY <1>1, <1>2, <2>2, <2>3
<1> QED BY <1>2, <1>3, <1>5, <1>6 DEF i, p

(* Slots of old chunks are what they were; those of the new one are apart  *)
(* from them and from the rows of other requests.                          *)
LEMMA ScheduledBatch ==
  ASSUME HInv, NEW r \in Requests, NEW c, NEW row, Scheduled(r, c, row),
         NEW new, new = Len(batch) + 1
  PROVE  /\ Len(batch) \in Nat /\ DOMAIN batch = 1 .. Len(batch)
         /\ DOMAIN batch' = DOMAIN batch \cup {new} /\ new \notin DOMAIN batch
         /\ batch'[new] = c /\ \A k \in DOMAIN batch : batch'[k] = batch[k]
         /\ batch' \in Seq(Chunk)
         /\ \A k \in DOMAIN batch : batch[k].req \in Requests /\ batch[k].req # r
<1>1. Len(batch) \in Nat /\ DOMAIN batch = 1 .. Len(batch) /\ batch \in Seq(Chunk)
  BY DEF HInv, Typed
<1>2. batch' = Append(batch, c) /\ c \in Chunk /\ ~InBatch(r)
  BY DEF Scheduled
<1>3. /\ batch' \in Seq(Chunk) /\ Len(batch') = Len(batch) + 1
      /\ batch'[Len(batch) + 1] = c
      /\ \A k \in 1 .. Len(batch) : batch'[k] = batch[k]
  BY <1>1, <1>2
<1>4. DOMAIN batch' = 1 .. Len(batch) + 1 /\ 1 .. Len(batch) + 1 = 1 .. Len(batch) \cup {new}
  BY <1>1, <1>3
<1>5. \A k \in DOMAIN batch : batch[k].req \in Requests /\ batch[k].req # r
  BY <1>2, BatchFacts DEF InBatch
<1> QED BY <1>1, <1>3, <1>4, <1>5

LEMMA ScheduledSlots ==
  ASSUME HInv, NEW r \in Requests, NEW c, NEW row, Scheduled(r, c, row),
         NEW new, new = Len(batch) + 1
  PROVE  /\ \A k \in DOMAIN batch : \A i \in DOMAIN batch[k].toks :
              (WriteSlot(k, i)' = WriteSlot(k, i))
         /\ \A j \in DOMAIN c.toks :
              (WriteSlot(new, j)'
                 = <<row[BlockOf(c.start + j - 1)], (c.start + j - 1) % BlockSize>>)
         /\ \A k \in DOMAIN batch : \A i \in DOMAIN batch[k].toks : \A j \in DOMAIN c.toks :
              (WriteSlot(k, i) # WriteSlot(new, j)')
<1>1. \A k \in DOMAIN batch : batch'[k] = batch[k] /\ table'[batch[k].req] = table[batch[k].req]
  <2>1. \A k \in DOMAIN batch : batch'[k] = batch[k] /\ batch[k].req \in Requests /\ batch[k].req # r
    BY ScheduledBatch
  <2>2. \A q \in Requests : q # r => table'[q] = table[q]
    BY ScheduledTypes DEF Same
  <2> QED BY <2>1, <2>2
<1>2. \A k \in DOMAIN batch : \A i \in DOMAIN batch[k].toks :
        (WriteSlot(k, i)' = WriteSlot(k, i))
  BY <1>1 DEF WriteSlot, SlotOf
<1>3. c.req = r /\ table'[r] = row /\ batch'[new] = c
  <2>1. c.req = r
    BY DEF Scheduled
  <2>2. table'[r] = row
    BY ScheduledTypes
  <2>3. batch'[new] = c
    BY ScheduledBatch
  <2> QED BY <2>1, <2>2, <2>3
<1>4. ASSUME NEW j \in DOMAIN c.toks
      PROVE  WriteSlot(new, j)'
               = <<row[BlockOf(c.start + j - 1)], (c.start + j - 1) % BlockSize>>
  <2>1. WriteSlot(new, j)'
          = <<table'[c.req][(c.start + j - 1) \div BlockSize], (c.start + j - 1) % BlockSize>>
    BY <1>3 DEF WriteSlot, SlotOf
  <2> QED BY <1>3, <2>1 DEF BlockOf
<1>5. ASSUME NEW k \in DOMAIN batch, NEW i \in DOMAIN batch[k].toks, NEW j \in DOMAIN c.toks,
             WriteSlot(k, i) = WriteSlot(new, j)'
      PROVE  FALSE
  <2> DEFINE q == batch[k].req
             p == batch[k].start + i - 1
  <2>1. q \in Requests /\ q # r
    BY ScheduledBatch
  <2>2. p \in Nat /\ p < computed[q]
    <3>1. /\ batch[k].start \in Nat /\ Len(batch[k].toks) \in Nat /\ i \in 1 .. Len(batch[k].toks)
          /\ batch[k].start + Len(batch[k].toks) = computed[q]
      BY BatchFacts, TokensOK
    <3> QED BY <3>1
  <2>3. BlockOf(p) \in DOMAIN table[q]
    BY <2>1, <2>2, HasBlock
  <2>4. WriteSlot(k, i) = <<table[q][BlockOf(p)], p % BlockSize>>
    BY DEF WriteSlot, SlotOf, BlockOf
  <2> HIDE DEF p, q
  <2>5. row[BlockOf(c.start + j - 1)] = table[q][BlockOf(p)]
    BY <1>4, <1>5, <2>4
  <2>6. \A n \in DOMAIN table[q] : table[q][n] # row[BlockOf(c.start + j - 1)]
    BY <2>1, NewWrites
  <2> QED BY <2>3, <2>5, <2>6
<1> QED BY <1>2, <1>4, <1>5

(* Two positions of a row with one slot are one position.                  *)
LEMMA OneSlot ==
  ASSUME NEW row, NEW p \in Nat, NEW q \in Nat,
         BlockOf(p) \in DOMAIN row, BlockOf(q) \in DOMAIN row, row[BlockOf(p)] \in Blocks,
         \A i, j \in DOMAIN row : row[i] = row[j] /\ row[i] \in Blocks => i = j,
         row[BlockOf(p)] = row[BlockOf(q)], p % BlockSize = q % BlockSize
  PROVE  p = q
<1>1. BlockOf(p) = BlockOf(q)
  OBVIOUS
<1>2. p = FirstOf(BlockOf(p)) + (p % BlockSize) /\ q = FirstOf(BlockOf(q)) + (q % BlockSize)
  BY InBlock
<1> QED BY <1>1, <1>2

LEMMA ScheduledApart ==
  ASSUME HInv, NEW r \in Requests, NEW c, NEW row, Scheduled(r, c, row)
  PROVE  WritesApart'
<1>0. PICK new : new = Len(batch) + 1
  OBVIOUS
<1>1. /\ DOMAIN batch' = DOMAIN batch \cup {new} /\ new \notin DOMAIN batch
      /\ batch'[new] = c /\ \A k \in DOMAIN batch : batch'[k] = batch[k]
  BY <1>0, ScheduledBatch
<1>2. ASSUME NEW i \in DOMAIN c.toks, NEW j \in DOMAIN c.toks,
             WriteSlot(new, i)' = WriteSlot(new, j)'
      PROVE  i = j
  <2> DEFINE p == c.start + i - 1
             q == c.start + j - 1
  <2>1. /\ p \in Nat /\ i \in Nat /\ BlockOf(p) \in DOMAIN row /\ row[BlockOf(p)] \in Blocks
        /\ q \in Nat /\ j \in Nat /\ BlockOf(q) \in DOMAIN row /\ row[BlockOf(q)] \in Blocks
    BY NewWrites
  <2>2. /\ WriteSlot(new, i)' = <<row[BlockOf(p)], p % BlockSize>>
        /\ WriteSlot(new, j)' = <<row[BlockOf(q)], q % BlockSize>>
    BY <1>0, ScheduledSlots
  <2>3. \A m, n \in DOMAIN row : row[m] = row[n] /\ row[m] \in Blocks => m = n
    BY DEF Scheduled
  <2>4. p = q
    <3> HIDE DEF p, q
    <3>1. <<row[BlockOf(p)], p % BlockSize>> = <<row[BlockOf(q)], q % BlockSize>>
      BY <1>2, <2>2
    <3>2. row[BlockOf(p)] = row[BlockOf(q)] /\ p % BlockSize = q % BlockSize
      BY <3>1
    <3> QED BY <2>1, <2>3, <3>2, OneSlot
  <2> QED BY <2>1, <2>4, ScheduledTypes
<1> SUFFICES ASSUME NEW k \in DOMAIN batch', NEW l \in DOMAIN batch',
                    NEW i \in DOMAIN batch'[k].toks, NEW j \in DOMAIN batch'[l].toks,
                    WriteSlot(k, i)' = WriteSlot(l, j)'
             PROVE  k = l /\ i = j
  BY DEF WritesApart
<1>3. CASE k \in DOMAIN batch /\ l \in DOMAIN batch
  <2>1. WriteSlot(k, i) = WriteSlot(l, j) /\ i \in DOMAIN batch[k].toks /\ j \in DOMAIN batch[l].toks
    BY <1>0, <1>1, <1>3, ScheduledSlots
  <2> QED BY <1>3, <2>1 DEF HInv, WritesApart
<1>4. CASE k \in DOMAIN batch /\ l = new
  <2>1. i \in DOMAIN batch[k].toks /\ j \in DOMAIN c.toks
    BY <1>1, <1>4
  <2> QED BY <1>0, <1>4, <2>1, ScheduledSlots
<1>5. CASE k = new /\ l \in DOMAIN batch
  <2>1. i \in DOMAIN c.toks /\ j \in DOMAIN batch[l].toks
    BY <1>1, <1>5
  <2> QED BY <1>0, <1>5, <2>1, ScheduledSlots
<1>6. CASE k = new /\ l = new
  BY <1>1, <1>2, <1>6
<1> QED BY <1>1, <1>3, <1>4, <1>5, <1>6

(* A slot out of the new chunk's way holds what it was to hold.            *)
LEMMA LandsStill ==
  ASSUME HInv, NEW r \in Requests, NEW c, NEW row, Scheduled(r, c, row), NEW s, NEW v,
         NEW new, new = Len(batch) + 1,
         Lands(s, v), \A j \in DOMAIN c.toks : (WriteSlot(new, j)' # s)
  PROVE  Lands(s, v)'
<1>1. /\ DOMAIN batch' = DOMAIN batch \cup {new}
      /\ batch'[new] = c /\ \A k \in DOMAIN batch : batch'[k] = batch[k]
  BY ScheduledBatch
<1>2. EnsureCache' = EnsureCache
  BY DEF Scheduled, EnsureCache, use_slot_cache, Slots
<1>3. \A k \in DOMAIN batch : \A i \in DOMAIN batch[k].toks : (WriteSlot(k, i)' = WriteSlot(k, i))
  BY ScheduledSlots
<1>4. CASE \E k \in DOMAIN batch : \E j \in DOMAIN batch[k].toks :
             WriteSlot(k, j) = s /\ v = Compressed(batch[k].toks[j])
  <2>1. PICK k \in DOMAIN batch : \E j \in DOMAIN batch[k].toks :
          WriteSlot(k, j) = s /\ v = Compressed(batch[k].toks[j])
    BY <1>4
  <2>2. PICK j \in DOMAIN batch[k].toks : WriteSlot(k, j) = s /\ v = Compressed(batch[k].toks[j])
    BY <2>1
  <2>3. /\ k \in DOMAIN batch' /\ j \in DOMAIN batch'[k].toks
        /\ WriteSlot(k, j)' = s /\ v = Compressed(batch'[k].toks[j])
    BY <1>1, <1>3, <2>2
  <2> QED BY <2>3 DEF Lands, Compressed
<1>5. CASE /\ \A k \in DOMAIN batch : \A j \in DOMAIN batch[k].toks : WriteSlot(k, j) # s
           /\ v = EnsureCache[s]
  <2>1. \A k \in DOMAIN batch' : \A j \in DOMAIN batch'[k].toks : (WriteSlot(k, j)' # s)
    BY <1>1, <1>3, <1>5
  <2> QED BY <1>2, <1>5, <2>1 DEF Lands
<1> QED BY <1>4, <1>5 DEF Lands

LEMMA ScheduledRowHeld ==
  ASSUME HInv, NEW r \in Requests, NEW c, NEW row, Scheduled(r, c, row),
         deployment.slots, NEW q \in Requests
  PROVE  RowHeld(q)'
<1>1. PICK new : new = Len(batch) + 1
  OBVIOUS
<1>2. /\ RowHeld(q) /\ deployment' = deployment /\ tokens' = tokens /\ prompt_len' = prompt_len
  BY DEF HInv, SlotsOK, Scheduled
<1>3. \A j \in DOMAIN c.toks :
        (WriteSlot(new, j)' = <<row[BlockOf(c.start + j - 1)], (c.start + j - 1) % BlockSize>>)
  BY <1>1, ScheduledSlots
<1>4. CASE q # r
  <2>1. Same(q)
    BY <1>4, ScheduledTypes
  <2>2. Committed(q)' = Committed(q)
    BY <2>1 DEF Committed, Same
  <2> SUFFICES ASSUME NEW p \in Nat, p < Committed(q), deployment.remote => p >= prompt_len[q],
                      table[q][BlockOf(p)] \in Blocks
               PROVE  Lands(SlotOf(q, p), Compressed(tokens[q][p + 1]))'
    BY <1>2, <2>1, <2>2 DEF RowHeld, Same, BlockOf
  <2>3. Lands(SlotOf(q, p), Compressed(tokens[q][p + 1]))
    BY <1>2 DEF RowHeld
  <2>4. p < computed[q]
    <3>1. Committed(q) <= computed[q] /\ computed[q] \in Nat /\ Committed(q) \in Nat
      BY DEF HInv, Typed, Committed
    <3> QED BY <3>1
  <2>5. BlockOf(p) \in DOMAIN table[q]
    BY <2>4, HasBlock
  <2>6. SlotOf(q, p) = <<table[q][BlockOf(p)], p % BlockSize>>
    BY DEF SlotOf, BlockOf
  <2>7. \A j \in DOMAIN c.toks : (WriteSlot(new, j)' # SlotOf(q, p))
    <3>1. \A j \in DOMAIN c.toks : table[q][BlockOf(p)] # row[BlockOf(c.start + j - 1)]
      BY <1>4, <2>5, NewWrites
    <3> QED BY <1>3, <2>6, <3>1
  <2>8. Lands(SlotOf(q, p), Compressed(tokens[q][p + 1]))'
    <3>1. PICK s : s = SlotOf(q, p)
      OBVIOUS
    <3>2. PICK v : v = Compressed(tokens[q][p + 1])
      OBVIOUS
    <3>3. Lands(s, v)'
      BY <1>1, <2>3, <2>7, <3>1, <3>2, LandsStill
    <3>4. (SlotOf(q, p)' = s) /\ (Compressed(tokens[q][p + 1])' = v)
      BY <1>2, <2>1, <3>1, <3>2 DEF SlotOf, Same, Compressed
    <3> QED BY <3>3, <3>4
  <2> QED BY <2>8
<1>5. CASE q = r
  <2>1. /\ Committed(r)' = Sure(c) /\ table'[r] = row /\ c.start = Committed(r)
        /\ c.start \in Nat /\ Len(c.toks) \in Nat /\ DOMAIN c.toks = 1 .. Len(c.toks)
        /\ c.drafts \in Nat /\ Sure(c) \in Nat /\ Sure(c) <= c.start + Len(c.toks)
    BY ScheduledTypes
  <2>2. /\ \A j \in 1 .. Len(c.toks) - c.drafts : c.toks[j] = tokens[r][c.start + j]
        /\ c.start = computed[r] /\ c.req = r
    BY DEF Scheduled
  <2> SUFFICES ASSUME NEW p \in Nat, p < Sure(c), deployment.remote => p >= prompt_len[r],
                      row[BlockOf(p)] \in Blocks
               PROVE  Lands(SlotOf(r, p), Compressed(tokens[r][p + 1]))'
    BY <1>2, <1>5, <2>1 DEF RowHeld, BlockOf
  <2>3. SlotOf(r, p)' = <<row[BlockOf(p)], p % BlockSize>>
    BY <2>1 DEF SlotOf, BlockOf
  <2>4. PICK s : s = <<row[BlockOf(p)], p % BlockSize>>
    OBVIOUS
  <2>5. PICK v : v = Compressed(tokens[r][p + 1])
    OBVIOUS
  <2>6. Compressed(tokens[r][p + 1])' = v
    BY <1>2, <2>5 DEF Compressed
  <2>7. CASE p >= c.start
    <3>1. PICK j \in 1 .. Len(c.toks) - c.drafts : p = c.start + j - 1 /\ p + 1 = c.start + j
      <4>1. p - c.start + 1 \in 1 .. Len(c.toks) - c.drafts
        BY <2>1, <2>7 DEF Sure
      <4>2. p = c.start + (p - c.start + 1) - 1 /\ p + 1 = c.start + (p - c.start + 1)
        BY <2>1
      <4> QED BY <4>1, <4>2
    <3>2. j \in DOMAIN c.toks
      BY <2>1, <3>1
    <3>3. WriteSlot(new, j)' = s
      BY <1>3, <2>4, <3>1, <3>2
    <3>4. v = Compressed(c.toks[j])
      BY <2>2, <2>5, <3>1
    <3>5. new \in DOMAIN batch' /\ batch'[new] = c
      <4>1. DOMAIN batch' = DOMAIN batch \cup {new} /\ batch'[new] = c
        BY <1>1, ScheduledBatch
      <4> QED BY <4>1
    <3>6. Lands(s, v)'
      BY <3>2, <3>3, <3>4, <3>5 DEF Lands, Compressed
    <3> QED BY <2>3, <2>4, <2>6, <3>6
  <2>8. CASE p < c.start
    <3>1. BlockOf(p) \in DOMAIN table[r]
      BY <2>2, <2>8, HasBlock
    <3>2. row[BlockOf(p)] = table[r][BlockOf(p)] /\ BlockOf(p) \in DOMAIN row
      <4>1. BlockOf(p) \in DOMAIN row
        BY <3>1 DEF Scheduled
      <4> QED BY <3>1, <4>1, ScheduledTypes
    <3>3. Lands(SlotOf(r, p), v)
      BY <1>2, <1>5, <2>1, <2>5, <2>8, <3>2 DEF RowHeld
    <3>4. SlotOf(r, p) = s
      BY <2>4, <3>2 DEF SlotOf, BlockOf
    <3>5. ASSUME NEW j \in DOMAIN c.toks, WriteSlot(new, j)' = s
          PROVE  FALSE
      <4>1. PICK t : t = c.start + j - 1
        OBVIOUS
      <4>2. /\ t \in Nat /\ t >= c.start /\ BlockOf(t) \in DOMAIN row /\ row[BlockOf(t)] \in Blocks
        BY <4>1, NewWrites
      <4>3. <<row[BlockOf(t)], t % BlockSize>> = <<row[BlockOf(p)], p % BlockSize>>
        BY <1>3, <2>4, <3>5, <4>1
      <4>4. row[BlockOf(t)] = row[BlockOf(p)] /\ t % BlockSize = p % BlockSize
        BY <4>3
      <4>5. \A m, n \in DOMAIN row : row[m] = row[n] /\ row[m] \in Blocks => m = n
        BY DEF Scheduled
      <4>6. p = t
        BY <3>2, <4>2, <4>4, <4>5, OneSlot
      <4> QED BY <2>1, <2>8, <4>2, <4>6
    <3>6. Lands(s, v)'
      BY <1>1, <3>3, <3>4, <3>5, LandsStill
    <3> QED BY <2>3, <2>4, <2>6, <3>6
  <2> QED BY <2>1, <2>7, <2>8
<1> QED BY <1>4, <1>5

LEMMA ScheduledCachedHeld ==
  ASSUME HInv, NEW r \in Requests, NEW c, NEW row, Scheduled(r, c, row),
         deployment.slots, ~deployment.remote, NEW b \in Blocks
  PROVE  CachedHeld(b)'
<1>1. PICK new : new = Len(batch) + 1
  OBVIOUS
<1>2. CASE \A i \in DOMAIN row : row[i] # b
  <2>1. prefix_of'[b] = prefix_of[b]
    BY <1>2 DEF Scheduled
  <2>2. CachedHeld(b)
    BY DEF HInv, SlotsOK
  <2> SUFFICES ASSUME prefix_of[b] # <<>>, NEW o \in 0 .. BlockSize - 1
               PROVE  Lands(<<b, o>>, Compressed(prefix_of[b][Len(prefix_of[b]) - BlockSize + o + 1]))'
    BY <2>1 DEF CachedHeld
  <2>3. PICK v : v = Compressed(prefix_of[b][Len(prefix_of[b]) - BlockSize + o + 1])
    OBVIOUS
  <2>4. Lands(<<b, o>>, v)
    BY <2>2, <2>3 DEF CachedHeld
  <2>5. \A j \in DOMAIN c.toks : (WriteSlot(new, j)' # <<b, o>>)
    <3>1. \A j \in DOMAIN c.toks :
            (WriteSlot(new, j)' = <<row[BlockOf(c.start + j - 1)], (c.start + j - 1) % BlockSize>>)
      BY <1>1, ScheduledSlots
    <3>2. \A j \in DOMAIN c.toks : BlockOf(c.start + j - 1) \in DOMAIN row
      BY NewWrites
    <3>3. \A j \in DOMAIN c.toks : row[BlockOf(c.start + j - 1)] # b
      BY <1>2, <3>2
    <3> QED BY <3>1, <3>3
  <2>6. Lands(<<b, o>>, v)'
    BY <1>1, <2>4, <2>5, LandsStill
  <2>7. Compressed(prefix_of[b][Len(prefix_of[b]) - BlockSize + o + 1])' = v
    BY <2>1, <2>3 DEF Compressed
  <2> QED BY <2>6, <2>7
<1>3. CASE \E i \in DOMAIN row : row[i] = b
  <2>1. PICK i \in DOMAIN row : row[i] = b
    BY <1>3
  <2>2. /\ tokens[r] \in Seq(TokenIds) /\ Len(tokens[r]) \in Nat /\ Sure(c) \in Nat
        /\ i \in Nat /\ i + 1 \in Nat /\ Committed(r)' = Sure(c) /\ table'[r] = row
    BY ScheduledTypes
  <2>3. tokens' = tokens /\ deployment' = deployment /\ Sure(c) <= Len(tokens[r])
    BY DEF Scheduled
  <2> SUFFICES ASSUME prefix_of'[b] # <<>>, NEW o \in 0 .. BlockSize - 1
               PROVE  Lands(<<b, o>>, Compressed(prefix_of[b][Len(prefix_of[b]) - BlockSize + o + 1]))'
    BY DEF CachedHeld
  <2>4. FirstOf(i + 1) <= Sure(c) /\ prefix_of'[b] = SubSeq(tokens[r], 1, FirstOf(i + 1))
    BY <2>1 DEF Scheduled
  <2>5. /\ FirstOf(i) \in Nat /\ FirstOf(i + 1) = FirstOf(i) + BlockSize /\ FirstOf(i + 1) \in Nat
        /\ FirstOf(i + 1) <= Len(tokens[r]) /\ BlockSize \in Nat
    <3>1. FirstOf(i) \in Nat /\ FirstOf(i + 1) = FirstOf(i) + BlockSize /\ FirstOf(i + 1) \in Nat
      BY <2>2, Laid
    <3> QED BY <2>2, <2>3, <2>4, <3>1, CacheShape
  <2>6. /\ Len(prefix_of'[b]) = FirstOf(i + 1)
        /\ \A j \in 1 .. FirstOf(i + 1) : prefix_of'[b][j] = tokens[r][j]
    BY <2>2, <2>4, <2>5, PrefixFacts
  <2>7. PICK p : p = FirstOf(i) + o
    OBVIOUS
  <2>8. /\ p \in Nat /\ FirstOf(i) <= p /\ p < FirstOf(i + 1) /\ p < Sure(c)
        /\ FirstOf(i + 1) - BlockSize + o + 1 = p + 1 /\ p + 1 \in 1 .. FirstOf(i + 1)
    <3> DEFINE f == FirstOf(i)
               e == FirstOf(i + 1)
    <3>1. /\ f \in Nat /\ e = f + BlockSize /\ e <= Sure(c) /\ Sure(c) \in Nat
          /\ p = f + o /\ o \in 0 .. BlockSize - 1 /\ BlockSize \in Nat
      BY <2>2, <2>4, <2>5, <2>7
    <3> HIDE DEF f, e
    <3>2. /\ p \in Nat /\ f <= p /\ p < e /\ p < Sure(c)
          /\ e - BlockSize + o + 1 = p + 1 /\ p + 1 \in 1 .. e
      BY <3>1
    <3> QED BY <3>2 DEF f, e
  <2>9. BlockOf(p) = i
    BY <2>2, <2>8, SameBlock
  <2>10. p % BlockSize = o
    <3>1. p = FirstOf(i) + (p % BlockSize) /\ p % BlockSize \in 0 .. BlockSize - 1
      BY <2>8, <2>9, InBlock
    <3> DEFINE f == FirstOf(i)
               m == p % BlockSize
    <3>2. f \in Nat /\ p = f + m /\ p = f + o /\ m \in 0 .. BlockSize - 1 /\ o \in 0 .. BlockSize - 1
          /\ BlockSize \in Nat
      BY <2>5, <2>7, <3>1
    <3> HIDE DEF f, m
    <3>3. m = o
      BY <3>2
    <3> QED BY <3>3 DEF m
  <2>11. RowHeld(r)'
    BY ScheduledRowHeld
  <2>12. Lands(SlotOf(r, p), Compressed(tokens[r][p + 1]))'
    <3>1. /\ p < Committed(r)' /\ ~deployment'.remote /\ table'[r][BlockOf(p)] \in Blocks
      BY <2>1, <2>2, <2>3, <2>8, <2>9
    <3> QED BY <2>8, <2>11, <3>1 DEF RowHeld, BlockOf
  <2>13. SlotOf(r, p)' = <<b, o>>
    BY <2>1, <2>2, <2>9, <2>10 DEF SlotOf, BlockOf
  <2>14. (Compressed(tokens[r][p + 1])' =
           Compressed(prefix_of[b][Len(prefix_of[b]) - BlockSize + o + 1])')
    BY <2>3, <2>6, <2>8 DEF Compressed
  <2> QED BY <2>12, <2>13, <2>14
<1> QED BY <1>2, <1>3

LEMMA ScheduledChunks ==
  ASSUME HInv, NEW r \in Requests, NEW c, NEW row, Scheduled(r, c, row),
         NEW k \in DOMAIN batch'
  PROVE  ChunkOK(k)'
<1>1. PICK new : new = Len(batch) + 1
  OBVIOUS
<1>2. /\ DOMAIN batch' = DOMAIN batch \cup {new} /\ new \notin DOMAIN batch
      /\ batch'[new] = c /\ \A l \in DOMAIN batch : batch'[l] = batch[l]
      /\ \A l \in DOMAIN batch : batch[l].req \in Requests /\ batch[l].req # r
  BY <1>1, ScheduledBatch
<1>3. c.req = r /\ UNCHANGED <<phase, tokens>>
  BY DEF Scheduled
<1>4. CASE k \in DOMAIN batch
  <2>1. ChunkOK(k) /\ batch'[k] = batch[k]
    BY <1>2, <1>4 DEF HInv
  <2>2. Same(batch[k].req)
    BY <1>2, <1>4, ScheduledTypes
  <2>3. \A l \in DOMAIN batch' : batch'[l].req = batch[k].req => l = k
    BY <1>2, <1>3, <1>4, <2>1 DEF ChunkOK
  <2> QED BY <2>1, <2>2, <2>3 DEF ChunkOK, Same, FirstNeeded
<1>5. CASE k = new
  <2>1. /\ phase[r] = "running" /\ c.drafts < Len(c.toks)
        /\ Sure(c) <= Len(tokens[r]) /\ (c.drafts > 0 => Sure(c) = Len(tokens[r]))
        /\ \A j \in 1 .. Len(c.toks) - c.drafts : c.toks[j] = tokens[r][c.start + j]
    BY DEF Scheduled
  <2>2. computed'[r] = c.start + Len(c.toks) /\ table'[r] = row
    BY ScheduledTypes
  <2>3. Sure(c) = computed'[r] - c.drafts
    BY <2>2, ScheduledTypes DEF Sure
  <2>4. ASSUME NEW i \in DOMAIN row, i >= FirstNeeded(c.start)
        PROVE  row[i] \in Blocks
    <3>1. CASE i \in DOMAIN table[r]
      <4>1. /\ row[i] = Kept(r, i) /\ c.start = computed[r] /\ ~InBatch(r)
        BY <3>1 DEF Scheduled
      <4>2. table[r][i] \in Blocks
        BY <2>4, <3>1, <4>1 DEF HInv, RowOK
      <4>3. ~(i < FirstNeeded(computed[r]))
        <5>1. i \in Nat /\ c.start \in Nat
          BY ScheduledTypes
        <5>2. FirstNeeded(c.start) \in Nat
          BY <5>1, Window_
        <5> QED BY <2>4, <4>1, <5>1, <5>2
      <4> QED BY <4>1, <4>2, <4>3 DEF Kept
    <3>2. CASE i \notin DOMAIN table[r]
      BY <3>2 DEF Scheduled
    <3> QED BY <3>1, <3>2
  <2>5. \A l \in DOMAIN batch' : batch'[l].req = r => l = new
    BY <1>2
  <2>6. \A i \in DOMAIN table'[r] : i >= FirstNeeded(c.start) => table'[r][i] \in Blocks
    BY <2>2, <2>4
  <2> QED BY <1>2, <1>3, <1>5, <2>1, <2>2, <2>3, <2>5, <2>6 DEF ChunkOK, FirstNeeded
<1> QED BY <1>2, <1>4, <1>5

LEMMA ScheduledRequests ==
  ASSUME HInv, NEW r \in Requests, NEW c, NEW row, Scheduled(r, c, row),
         NEW q \in Requests
  PROVE  RequestOK(q)' /\ RowOK(q)'
<1>1. PICK new : new = Len(batch) + 1
  OBVIOUS
<1>2. /\ DOMAIN batch' = DOMAIN batch \cup {new} /\ batch'[new] = c
      /\ \A l \in DOMAIN batch : batch'[l] = batch[l]
  BY <1>1, ScheduledBatch
<1>3. c.req = r /\ UNCHANGED <<deployment, phase, tokens, prompt_len>> /\ phase[r] = "running"
  BY DEF Scheduled
<1>4. CASE q # r
  <2>1. InBatch(q)' <=> InBatch(q)
    BY <1>2, <1>3, <1>4 DEF InBatch
  <2>2. Same(q) /\ SameDeployment
    BY <1>4, ScheduledTypes
  <2> QED BY <2>1, <2>2, SameRequest DEF HInv
<1>5. CASE q = r
  <2>1. InBatch(r)'
    BY <1>2, <1>3 DEF InBatch
  <2>2. computed'[r] = c.start + Len(c.toks) /\ table'[r] = row
    BY ScheduledTypes
  <2>3. RequestOK(r)'
    <3>1. c.start + Len(c.toks) <= MaxLen
      BY DEF Scheduled
    <3>2. RequestOK(r)
      BY DEF HInv
    <3> QED BY <1>3, <2>1, <2>2, <3>1, <3>2 DEF RequestOK
  <2>4. \A i \in DOMAIN row : row[i] \in Blocks \cup {NullBlock}
    BY ScheduledTypes
  <2>5. /\ \E m \in Nat : DOMAIN row = 0 .. m - 1 /\ c.start + Len(c.toks) <= FirstOf(m)
        /\ \A i, j \in DOMAIN row : row[i] = row[j] /\ row[i] \in Blocks => i = j
    BY DEF Scheduled
  <2>6. RowOK(r)'
    BY <2>1, <2>2, <2>4, <2>5 DEF RowOK, FirstOf
  <2> QED BY <1>5, <2>3, <2>6
<1> QED BY <1>4, <1>5

LEMMA ScheduledTyped ==
  ASSUME HInv, NEW r \in Requests, NEW c, NEW row, Scheduled(r, c, row)
  PROVE  Typed' /\ CacheOK'
<1>1. Typed /\ CacheOK
  BY DEF HInv
<1>2. UNCHANGED <<deployment, kv_cache, _cache, _kv_cache_ref, phase, tokens, prompt_len>>
      /\ phase[r] = "running" /\ prefix_of' = [b \in Blocks |-> prefix_of'[b]]
      /\ computed' = [computed EXCEPT ![r] = c.start + Len(c.toks)]
      /\ table' = [table EXCEPT ![r] = row]
  BY DEF Scheduled
<1>3. batch' \in Seq(Chunk) /\ c.start + Len(c.toks) \in Nat
  <2>1. PICK new : new = Len(batch) + 1
    OBVIOUS
  <2> QED BY <2>1, ScheduledBatch, ScheduledTypes
<1>4. ASSUME NEW b \in Blocks PROVE prefix_of'[b] \in Seq(TokenIds)
  <2>1. CASE \A i \in DOMAIN row : row[i] # b
    <3>1. prefix_of'[b] = prefix_of[b]
      BY <2>1 DEF Scheduled
    <3> QED BY <1>1, <3>1 DEF Typed
  <2>2. CASE \E i \in DOMAIN row : row[i] = b
    <3>1. PICK i \in DOMAIN row : row[i] = b
      BY <2>2
    <3>2. /\ prefix_of'[b] = IF FirstOf(i + 1) <= Sure(c)
                             THEN SubSeq(tokens[r], 1, FirstOf(i + 1)) ELSE <<>>
          /\ Sure(c) <= Len(tokens[r])
      BY <3>1 DEF Scheduled
    <3>3. /\ tokens[r] \in Seq(TokenIds) /\ Len(tokens[r]) \in Nat /\ Sure(c) \in Nat
          /\ i + 1 \in Nat
      BY ScheduledTypes
    <3>4. FirstOf(i + 1) \in Nat
      BY <3>3, Laid
    <3>5. CASE FirstOf(i + 1) <= Sure(c)
      BY <3>2, <3>3, <3>4, <3>5, PrefixFacts
    <3>6. CASE ~(FirstOf(i + 1) <= Sure(c))
      BY <3>2, <3>6
    <3> QED BY <3>5, <3>6
  <2> QED BY <2>1, <2>2
<1>5. prefix_of' \in [Blocks -> Seq(TokenIds)]
  <2>1. \A q \in Blocks : prefix_of'[q] \in Seq(TokenIds)
    BY <1>4
  <2> QED BY <1>2, <2>1
<1>6. Typed'
  BY <1>1, <1>2, <1>3, <1>5 DEF Typed
<1>7. CacheOK'
  BY <1>1, <1>2 DEF CacheOK, Slots, Compressed
<1> QED BY <1>6, <1>7

LEMMA ScheduleStep == ASSUME NEW r \in Requests PROVE HInv /\ Schedule(r) => HInv'
<1> SUFFICES ASSUME HInv, Schedule(r) PROVE HInv'
  OBVIOUS
<1>1. PICK c : \E row : Scheduled(r, c, row)
  BY ScheduleFacts
<1>2. PICK row : Scheduled(r, c, row)
  BY <1>1
<1>3. Typed' /\ CacheOK'
  BY <1>2, ScheduledTyped
<1>4. \A q \in Requests : RequestOK(q)' /\ RowOK(q)' /\ CachedOK(q)'
  BY <1>2, ScheduledRequests, ScheduledCached
<1>5. \A k \in DOMAIN batch' : ChunkOK(k)'
  BY <1>2, ScheduledChunks
<1>6. SharedOK' /\ WritesApart'
  BY <1>2, ScheduledShared, ScheduledApart
<1>7. SlotsOK'
  <2>1. deployment' = deployment
    BY <1>2 DEF Scheduled
  <2>2. deployment.slots => \A q \in Requests : RowHeld(q)'
    BY <1>2, ScheduledRowHeld
  <2>3. deployment.slots /\ ~deployment.remote => \A b \in Blocks : CachedHeld(b)'
    BY <1>2, ScheduledCachedHeld
  <2> QED BY <2>1, <2>2, <2>3 DEF SlotsOK
<1>8. HashOK'
  <2>1. hashed' = hashed /\ HashOK
    BY <1>2 DEF Scheduled, HInv
  <2> QED BY <2>1 DEF HashOK, TrueIds
<1> QED BY <1>3, <1>4, <1>5, <1>6, <1>7, <1>8 DEF HInv

(* What a forward does to a request: its tokens only grow, and a position  *)
(* that becomes certain is an accepted draft of the batch.                 *)
Grown(r) ==
  /\ tokens'[r] \in Seq(TokenIds) /\ Len(tokens'[r]) >= Len(tokens[r])
  /\ Len(tokens'[r]) <= MaxLen + 1
  /\ \A j \in 1 .. Len(tokens[r]) : tokens'[r][j] = tokens[r][j]
  /\ computed'[r] \in Nat /\ computed'[r] <= computed[r]
  /\ computed'[r] <= Len(tokens'[r]) /\ Committed(r) <= computed'[r]
  /\ ~InBatch(r) => tokens'[r] = tokens[r] /\ computed'[r] = computed[r]
  /\ \A p \in Nat : Committed(r) <= p /\ p < computed'[r] =>
       \E k \in DOMAIN batch : \E j \in DOMAIN batch[k].toks :
         batch[k].req = r /\ p = batch[k].start + j - 1 /\ tokens'[r][p + 1] = batch[k].toks[j]

LEMMA AcceptDrafts ==
  ASSUME NEW s \in Seq(TokenIds), NEW toks \in Seq(TokenIds), NEW at \in 0 .. Len(toks),
         NEW a \in 0 .. Len(toks) - at, NEW x \in TokenIds
  PROVE  LET t == s \o SubSeq(toks, at + 1, at + a) \o <<x>> IN
         /\ t \in Seq(TokenIds) /\ Len(t) = Len(s) + a + 1
         /\ \A j \in 1 .. Len(s) : t[j] = s[j]
         /\ \A j \in 1 .. a : t[Len(s) + j] = toks[at + j]
<1> DEFINE u == SubSeq(toks, at + 1, at + a)
<1>1. /\ Len(toks) \in Nat /\ Len(s) \in Nat /\ at \in Nat /\ a \in Nat
      /\ at + 1 \in Nat /\ at + a \in Nat /\ at + a <= Len(toks) /\ at + 1 >= 1
  OBVIOUS
<1>2. u \in Seq(TokenIds)
  BY <1>1
<1>3. Len(u) = a
  BY <1>1
<1>4. \A j \in 1 .. a : u[j] = toks[at + j]
  <2>1. \A j \in 1 .. a : u[j] = toks[(at + 1) + j - 1] /\ (at + 1) + j - 1 = at + j
    BY <1>1
  <2> QED BY <2>1
<1> HIDE DEF u
<1> DEFINE v == s \o u
<1>5. /\ v \in Seq(TokenIds) /\ Len(v) = Len(s) + a
      /\ \A j \in 1 .. Len(s) : v[j] = s[j]
      /\ \A j \in 1 .. a : v[Len(s) + j] = u[j]
  <2>1. v \in Seq(TokenIds) /\ Len(v) = Len(s) + a
    BY <1>1, <1>2, <1>3
  <2>2. \A j \in 1 .. Len(s) : v[j] = s[j]
    BY <1>1, <1>2, <1>3
  <2>3. \A j \in 1 .. a : v[Len(s) + j] = u[j]
    BY <1>1, <1>2, <1>3
  <2> QED BY <2>1, <2>2, <2>3
<1> HIDE DEF v
<1> DEFINE t == v \o <<x>>
<1>6. /\ t \in Seq(TokenIds) /\ Len(t) = Len(s) + a + 1
      /\ \A j \in 1 .. Len(v) : t[j] = v[j]
  <2>1. t \in Seq(TokenIds)
    BY <1>5
  <2>0. <<x>> \in Seq(TokenIds) /\ Len(<<x>>) = 1 /\ v \in Seq(TokenIds)
    BY <1>5
  <2>2. Len(t) = Len(v) + 1
    BY <2>0
  <2>3. \A j \in 1 .. Len(v) : t[j] = v[j]
    BY <2>0
  <2> QED BY <1>5, <2>1, <2>2, <2>3
<1> HIDE DEF t
<1>7. \A j \in 1 .. Len(s) : t[j] = s[j]
  BY <1>1, <1>5, <1>6
<1>8. \A j \in 1 .. a : t[Len(s) + j] = toks[at + j]
  <2> SUFFICES ASSUME NEW j \in 1 .. a PROVE t[Len(s) + j] = toks[at + j]
    OBVIOUS
  <2>1. Len(s) + j \in 1 .. Len(v)
    BY <1>1, <1>5
  <2> QED BY <1>4, <1>5, <1>6, <2>1
<1> QED BY <1>6, <1>7, <1>8 DEF t, v, u

(* The step, request by request.                                           *)
LEMMA ExecuteGrown ==
  ASSUME HInv, Execute, NEW r \in Requests
  PROVE  Grown(r) /\ DOMAIN tokens' = Requests /\ DOMAIN computed' = Requests
         /\ tokens' = [q \in Requests |-> tokens'[q]]
         /\ computed' = [q \in Requests |-> computed'[q]]
<1> DEFINE chunkOf(q) == CHOOSE c \in {batch[i] : i \in DOMAIN batch} : c.req = q
           inBatch == {batch[i].req : i \in DOMAIN batch}
           sampling == {q \in inBatch : computed[q] - chunkOf(q).drafts = Len(tokens[q])}
           Longer(q, a, x) ==
             LET c == chunkOf(q) IN
             tokens[q] \o SubSeq(c.toks, Len(c.toks) - c.drafts + 1, Len(c.toks) - c.drafts + a)
                       \o <<x>>
<1>1. PICK accepted \in [sampling -> 0 .. MaxDraft], sampled \in [sampling -> Sampled] :
        /\ \A q \in sampling : accepted[q] <= chunkOf(q).drafts
        /\ tokens' = [q \in Requests |-> IF q \in sampling THEN Longer(q, accepted[q], sampled[q])
                                         ELSE tokens[q]]
        /\ computed' = [q \in Requests |->
             IF q \in sampling THEN computed[q] - chunkOf(q).drafts + accepted[q] ELSE computed[q]]
  BY Zenon DEF Execute
<1> HIDE DEF sampling, Longer
<1>2. /\ tokens'[r] = IF r \in sampling THEN Longer(r, accepted[r], sampled[r]) ELSE tokens[r]
      /\ computed'[r] = IF r \in sampling THEN computed[r] - chunkOf(r).drafts + accepted[r]
                        ELSE computed[r]
      /\ DOMAIN tokens' = Requests /\ DOMAIN computed' = Requests
      /\ tokens' = [q \in Requests |-> tokens'[q]]
      /\ computed' = [q \in Requests |-> computed'[q]]
  BY <1>1
<1>3. /\ tokens[r] \in Seq(TokenIds) /\ Len(tokens[r]) \in Nat /\ computed[r] \in Nat
      /\ Len(tokens[r]) <= MaxLen + 1 /\ computed[r] <= MaxLen /\ MaxLen \in Nat
      /\ RequestOK(r)
  BY TokensOK DEF HInv, Typed, RequestOK
<1>4. ASSUME NEW k \in DOMAIN batch, batch[k].req = r
      PROVE  chunkOf(r) = batch[k]
  <2>1. \A l \in DOMAIN batch : batch[l].req = r => l = k
    BY <1>4 DEF HInv, ChunkOK
  <2> QED BY <1>4, <2>1
<1> HIDE DEF chunkOf
<1>5. CASE r \notin sampling
  <2>1. tokens'[r] = tokens[r] /\ computed'[r] = computed[r]
    BY <1>2, <1>5
  <2>2. computed[r] <= Len(tokens[r])
    <3>1. CASE ~InBatch(r)
      BY <1>3, <3>1 DEF RequestOK
    <3>2. CASE InBatch(r)
      <4>1. PICK k \in DOMAIN batch : batch[k].req = r
        BY <3>2 DEF InBatch
      <4>2. computed[r] - batch[k].drafts # Len(tokens[r])
        BY <1>4, <1>5, <4>1 DEF sampling
      <4>3. /\ batch[k].drafts \in Nat /\ computed[r] - batch[k].drafts <= Len(tokens[r])
            /\ batch[k].drafts > 0 => computed[r] - batch[k].drafts = Len(tokens[r])
        BY <4>1, BatchFacts DEF HInv, ChunkOK
      <4> QED BY <1>3, <4>2, <4>3
    <3> QED BY <3>1, <3>2
  <2>3. Committed(r) = computed[r]
    BY <2>2 DEF Committed
  <2> QED BY <1>2, <1>3, <2>1, <2>2, <2>3 DEF Grown
<1>6. CASE r \in sampling
  <2>1. PICK k \in DOMAIN batch : batch[k].req = r
    BY <1>6 DEF sampling
  <2> DEFINE c == batch[k]
             a == accepted[r]
             x == sampled[r]
             at == Len(c.toks) - c.drafts
             t == tokens[r] \o SubSeq(c.toks, at + 1, at + a) \o <<x>>
  <2>2. chunkOf(r) = c
    BY <1>4, <2>1
  <2>3. /\ a \in Nat /\ a <= c.drafts /\ x \in TokenIds
        /\ computed[r] - c.drafts = Len(tokens[r])
    <3>1. accepted[r] \in 0 .. MaxDraft /\ sampled[r] \in Sampled
          /\ accepted[r] <= chunkOf(r).drafts
      BY <1>1, <1>6
    <3>2. computed[r] - chunkOf(r).drafts = Len(tokens[r])
      BY <1>6 DEF sampling
    <3>3. MaxDraft \in Nat /\ Sampled \subseteq TokenIds
      BY TokensOK
    <3> QED BY <2>2, <3>1, <3>2, <3>3
  <2>4. /\ c.start \in Nat /\ c.drafts \in Nat /\ c.toks \in Seq(TokenIds)
        /\ Len(c.toks) \in Nat /\ DOMAIN c.toks = 1 .. Len(c.toks)
        /\ c.start + Len(c.toks) = computed[r]
    BY <2>1, BatchFacts, TokensOK
  <2>5. c.drafts < Len(c.toks)
    BY <2>1 DEF HInv, ChunkOK
  <2>6. tokens'[r] = t /\ computed'[r] = computed[r] - c.drafts + a
    BY <1>2, <1>6, <2>2 DEF Longer
  <2> HIDE DEF a, x, c
  <2>7. /\ at \in 0 .. Len(c.toks) /\ a \in 0 .. Len(c.toks) - at
        /\ c.start + at = Len(tokens[r])
    BY <2>3, <2>4, <2>5
  <2> HIDE DEF at
  <2>8. /\ t \in Seq(TokenIds) /\ Len(t) = Len(tokens[r]) + a + 1
        /\ \A j \in 1 .. Len(tokens[r]) : t[j] = tokens[r][j]
        /\ \A j \in 1 .. a : t[Len(tokens[r]) + j] = c.toks[at + j]
    <3> DEFINE s == tokens[r]
               toks == c.toks
    <3>1. /\ s \in Seq(TokenIds) /\ toks \in Seq(TokenIds) /\ x \in TokenIds
          /\ at \in 0 .. Len(toks) /\ a \in 0 .. Len(toks) - at
      BY <1>3, <2>3, <2>4, <2>7
    <3> HIDE DEF s, toks, t
    <3>2. LET u == s \o SubSeq(toks, at + 1, at + a) \o <<x>> IN
          /\ u \in Seq(TokenIds) /\ Len(u) = Len(s) + a + 1
          /\ \A j \in 1 .. Len(s) : u[j] = s[j]
          /\ \A j \in 1 .. a : u[Len(s) + j] = toks[at + j]
      BY <3>1, AcceptDrafts
    <3>3. t = s \o SubSeq(toks, at + 1, at + a) \o <<x>>
      BY DEF t, s, toks
    <3> QED BY <3>2, <3>3 DEF s, toks
  <2> HIDE DEF t
  <2>9. computed'[r] = Len(tokens[r]) + a
    BY <2>3, <2>6
  <2>10. Committed(r) = Len(tokens[r])
    BY <1>3, <2>3, <2>4 DEF Committed
  <2>11. Len(tokens[r]) + a <= computed[r]
    <3> DEFINE d == c.drafts
    <3>1. /\ d \in Nat /\ a \in Nat /\ a <= d /\ computed[r] - d = Len(tokens[r])
          /\ computed[r] \in Nat /\ Len(tokens[r]) \in Nat
      BY <1>3, <2>3, <2>4
    <3> HIDE DEF d
    <3> QED BY <3>1
  <2>12. ASSUME NEW p \in Nat, Len(tokens[r]) <= p, p < Len(tokens[r]) + a
         PROVE  \E j \in DOMAIN c.toks : p = c.start + j - 1 /\ t[p + 1] = c.toks[j]
    <3>1. PICK j : j = p + 1 - Len(tokens[r])
      OBVIOUS
    <3>2. j \in 1 .. a /\ Len(tokens[r]) + j = p + 1
      BY <1>3, <2>3, <2>12, <3>1
    <3>3. at + j \in DOMAIN c.toks /\ p = c.start + (at + j) - 1
      <4> DEFINE n == Len(c.toks)
                 l == Len(tokens[r])
                 f == c.start
      <4>1. /\ at \in Nat /\ n \in Nat /\ l \in Nat /\ f \in Nat /\ a \in Nat
            /\ a <= n - at /\ f + at = l /\ j \in 1 .. a /\ l + j = p + 1
        BY <1>3, <2>3, <2>4, <2>7, <3>2
      <4> HIDE DEF n, l, f
      <4>2. at + j \in 1 .. n /\ p = f + (at + j) - 1
        BY <4>1
      <4> QED BY <2>4, <4>2 DEF n, f
    <3>4. t[p + 1] = c.toks[at + j]
      BY <2>8, <3>2
    <3> QED BY <3>3, <3>4
  <2>13. InBatch(r)
    BY <2>1 DEF InBatch
  <2>14. /\ Len(t) >= Len(tokens[r]) /\ Len(t) <= MaxLen + 1
         /\ Len(tokens[r]) + a \in Nat /\ Len(tokens[r]) + a <= Len(t)
         /\ Len(tokens[r]) <= Len(tokens[r]) + a
    BY <1>3, <2>3, <2>8, <2>11
  <2>15. \A p \in Nat : Committed(r) <= p /\ p < computed'[r] =>
           \E l \in DOMAIN batch : \E j \in DOMAIN batch[l].toks :
             batch[l].req = r /\ p = batch[l].start + j - 1 /\ tokens'[r][p + 1] = batch[l].toks[j]
    BY <2>1, <2>6, <2>9, <2>10, <2>12 DEF c
  <2>16. Grown(r)
    BY <2>6, <2>8, <2>9, <2>10, <2>11, <2>13, <2>14, <2>15 DEF Grown
  <2> QED BY <1>2, <2>16
<1> QED BY <1>5, <1>6

LEMMA ExecuteFacts ==
  ASSUME HInv, Execute
  PROVE  LET cache == IF use_slot_cache THEN WriteHashCache(Flat, EnsureCache) ELSE EnsureCache IN
         /\ batch # <<>> /\ batch' = <<>> /\ kv_cache = "real"
         /\ UNCHANGED <<deployment, kv_cache, phase, prompt_len, table, prefix_of>>
         /\ _cache' = cache /\ _kv_cache_ref' = EnsureRef
         /\ hashed' = {Hashed(Flat, cache, t) : t \in DOMAIN Flat.input_ids}
<1>1. kv_cache = "real"
  BY DEF HInv, CacheOK, Execute
<1> QED BY <1>1 DEF Execute

(* What was to land has landed.                                            *)
LEMMA LandsThen ==
  ASSUME HInv, Execute, deployment.slots, NEW s \in Slots("real"), NEW v, Lands(s, v)
  PROVE  Lands(s, v)'
<1>1. /\ batch' = <<>> /\ kv_cache = "real" /\ kv_cache' = "real" /\ deployment' = deployment
      /\ _cache' = WriteHashCache(Flat, EnsureCache) /\ _kv_cache_ref' = "real"
  BY ExecuteFacts DEF use_slot_cache, EnsureRef
<1>2. s \in DOMAIN EnsureCache
  BY <1>1, CacheReady
<1>3. _cache'[s] = v
  BY <1>1, <1>2, Written
<1>4. EnsureCache' = _cache'
  BY <1>1 DEF EnsureCache, use_slot_cache
<1>5. DOMAIN batch' = {}
  BY <1>1
<1> QED BY <1>3, <1>4, <1>5 DEF Lands

LEMMA ExecuteCache == HInv /\ Execute => CacheOK'
<1> SUFFICES ASSUME HInv, Execute PROVE CacheOK'
  OBVIOUS
<1> DEFINE Values == {Compressed(t) : t \in TokenIds}
<1>1. /\ kv_cache = "real" /\ kv_cache' = "real" /\ deployment' = deployment
      /\ _cache' = IF use_slot_cache THEN WriteHashCache(Flat, EnsureCache) ELSE EnsureCache
      /\ _kv_cache_ref' = EnsureRef
  BY ExecuteFacts
<1>2. ASSUME NEW s \in DOMAIN EnsureCache PROVE EnsureCache[s] \in Values
  <2>1. 0 \in Values
    BY TokensOK DEF Compressed, Image
  <2>2. CASE ~use_slot_cache \/ _kv_cache_ref = kv_cache
    BY <1>1, <1>2, <2>2 DEF EnsureCache, HInv, CacheOK
  <2>3. CASE ~(~use_slot_cache \/ _kv_cache_ref = kv_cache)
    <3>1. EnsureCache = [q \in Slots(kv_cache) |-> 0]
      BY <1>1, <2>3 DEF EnsureCache
    <3> QED BY <1>2, <2>1, <3>1
  <2> QED BY <2>2, <2>3
<1>3. ASSUME NEW s \in DOMAIN EnsureCache PROVE WriteHashCache(Flat, EnsureCache)[s] \in Values
  <2>1. \E v \in Values : Lands(s, v)
    <3>1. CASE \E k \in DOMAIN batch : \E j \in DOMAIN batch[k].toks : WriteSlot(k, j) = s
      <4>1. PICK k \in DOMAIN batch : \E j \in DOMAIN batch[k].toks : WriteSlot(k, j) = s
        BY <3>1
      <4>2. PICK j \in DOMAIN batch[k].toks : WriteSlot(k, j) = s
        BY <4>1
      <4>3. batch[k].toks[j] \in TokenIds
        BY BatchFacts
      <4> QED BY <4>2, <4>3 DEF Lands
    <3>2. CASE \A k \in DOMAIN batch : \A j \in DOMAIN batch[k].toks : WriteSlot(k, j) # s
      BY <1>2, <3>2 DEF Lands
    <3> QED BY <3>1, <3>2
  <2>2. PICK v \in Values : Lands(s, v)
    BY <2>1
  <2> QED BY <2>2, Written
<1>4. DOMAIN WriteHashCache(Flat, EnsureCache) = DOMAIN EnsureCache
  BY DEF WriteHashCache
<1>5. \A s \in DOMAIN _cache' : _cache'[s] \in Values
  BY <1>1, <1>2, <1>3, <1>4
<1>6. deployment.slots => _kv_cache_ref' = "real" /\ DOMAIN _cache' = Slots("real")
  BY <1>1, <1>4, CacheReady DEF use_slot_cache, EnsureRef
<1>7. Slots("real")' = Slots("real")
  BY DEF Slots
<1> QED BY <1>1, <1>5, <1>6, <1>7 DEF CacheOK, Compressed, Slots

LEMMA ExecuteRequest ==
  ASSUME HInv, Execute, NEW r \in Requests
  PROVE  RequestOK(r)' /\ RowOK(r)' /\ CachedOK(r)' /\ (deployment.slots => RowHeld(r)')
<1>1. Grown(r)
  BY ExecuteGrown
<1>2. /\ batch' = <<>> /\ kv_cache = "real"
      /\ UNCHANGED <<deployment, kv_cache, phase, prompt_len, table, prefix_of>>
  BY ExecuteFacts
<1>3. RequestOK(r) /\ RowOK(r) /\ CachedOK(r)
  BY DEF HInv
<1>4. /\ tokens[r] \in Seq(TokenIds) /\ Len(tokens[r]) \in Nat /\ computed[r] \in Nat
      /\ prompt_len[r] \in Nat /\ MaxLen \in Nat
  BY TokensOK DEF HInv, Typed
<1>5. tokens'[r] \in Seq(TokenIds) /\ Len(tokens'[r]) \in Nat /\ computed'[r] \in Nat
      /\ Committed(r) \in Nat /\ Committed(r) <= Len(tokens[r])
  BY <1>1, <1>4 DEF Grown, Committed
<1>6. Committed(r)' = computed'[r]
  BY <1>1, <1>5 DEF Committed, Grown
<1>7. phase[r] # "running" => ~InBatch(r)
  BY NotInBatch
<1>8. RequestOK(r)'
  <2>1. /\ computed'[r] <= MaxLen /\ computed'[r] <= Len(tokens'[r])
        /\ prompt_len[r] <= Len(tokens'[r]) /\ Len(tokens'[r]) <= MaxLen + 1
        /\ Len(tokens[r]) > 0 => Len(tokens'[r]) > 0
    BY <1>1, <1>3, <1>4, <1>5 DEF RequestOK, Grown
  <2>2. phase[r] # "running" => tokens'[r] = tokens[r] /\ computed'[r] = computed[r]
    BY <1>1, <1>7 DEF Grown
  <2> QED BY <1>2, <1>3, <2>1, <2>2 DEF RequestOK
<1>9. RowOK(r)'
  <2>1. \E n \in Nat : DOMAIN table[r] = 0 .. n - 1 /\ computed'[r] <= FirstOf(n)
    <3>1. PICK n \in Nat : DOMAIN table[r] = 0 .. n - 1 /\ computed[r] <= FirstOf(n)
      BY <1>3 DEF RowOK
    <3>2. computed'[r] <= FirstOf(n)
      <4>1. FirstOf(n) \in Nat /\ computed'[r] <= computed[r]
        BY <1>1, Laid DEF Grown
      <4> QED BY <1>4, <1>5, <3>1, <4>1
    <3> QED BY <3>1, <3>2
  <2>2. ASSUME NEW i \in DOMAIN table[r], i >= FirstNeeded(computed'[r])
        PROVE  table[r][i] \in Blocks
    <3>1. CASE ~InBatch(r)
      BY <1>1, <1>3, <2>2, <3>1 DEF Grown, RowOK
    <3>2. CASE InBatch(r)
      <4>1. PICK k \in DOMAIN batch : batch[k].req = r
        BY <3>2 DEF InBatch
      <4>2. batch[k].start \in Nat /\ batch[k].start < Committed(r)
        BY <4>1, BatchFacts, ChunkFacts
      <4>3. batch[k].start <= computed'[r]
        BY <1>1, <1>5, <4>2 DEF Grown
      <4>4. /\ FirstNeeded(batch[k].start) <= FirstNeeded(computed'[r])
            /\ FirstNeeded(batch[k].start) \in Nat /\ FirstNeeded(computed'[r]) \in Nat
        BY <1>5, <4>2, <4>3, Window_
      <4>5. i \in Nat
        BY <2>1
      <4>6. i >= FirstNeeded(batch[k].start)
        BY <2>2, <4>4, <4>5
      <4> QED BY <4>1, <4>6 DEF HInv, ChunkOK
    <3> QED BY <3>1, <3>2
  <2> QED BY <1>2, <1>3, <2>1, <2>2 DEF RowOK, FirstOf, FirstNeeded
<1>10. CachedOK(r)'
  <2> SUFFICES ASSUME NEW i \in DOMAIN table[r], table[r][i] \in Blocks,
                      prefix_of[table[r][i]] # <<>>
               PROVE  /\ FirstOf(i + 1) <= computed'[r]
                      /\ Len(prefix_of[table[r][i]]) = FirstOf(i + 1)
                      /\ \A j \in 1 .. FirstOf(i + 1) :
                           prefix_of[table[r][i]][j] = tokens'[r][j]
    BY <1>2, <1>6 DEF CachedOK, FirstOf
  <2>1. /\ FirstOf(i + 1) <= Committed(r) /\ Len(prefix_of[table[r][i]]) = FirstOf(i + 1)
        /\ \A j \in 1 .. FirstOf(i + 1) : prefix_of[table[r][i]][j] = tokens[r][j]
    BY <1>3 DEF CachedOK
  <2>2. FirstOf(i + 1) \in Nat
    <3>1. PICK n \in Nat : DOMAIN table[r] = 0 .. n - 1
      BY <1>3 DEF RowOK
    <3>2. i + 1 \in Nat
      BY <3>1
    <3> QED BY <3>2, Laid
  <2>3. \A j \in 1 .. FirstOf(i + 1) : tokens'[r][j] = tokens[r][j]
    <3>1. \A j \in 1 .. FirstOf(i + 1) : j \in 1 .. Len(tokens[r])
      BY <1>4, <1>5, <2>1, <2>2
    <3> QED BY <1>1, <3>1 DEF Grown
  <2>4. FirstOf(i + 1) <= computed'[r]
    BY <1>1, <1>5, <2>1, <2>2 DEF Grown
  <2> QED BY <2>1, <2>3, <2>4
<1>11. ASSUME deployment.slots PROVE RowHeld(r)'
  <2> SUFFICES ASSUME NEW p \in Nat, p < computed'[r], deployment.remote => p >= prompt_len[r],
                      table[r][BlockOf(p)] \in Blocks
               PROVE  Lands(SlotOf(r, p), Compressed(tokens[r][p + 1]))'
    BY <1>2, <1>6 DEF RowHeld, BlockOf
  <2>1. PICK s : s = SlotOf(r, p)
    OBVIOUS
  <2>2. PICK v : v = Compressed(tokens'[r][p + 1])
    OBVIOUS
  <2>3. s \in Slots("real")
    BY <2>1, SlotIn
  <2>4. Lands(s, v)
    <3>1. CASE p < Committed(r)
      <4>1. RowHeld(r)
        BY <1>11 DEF HInv, SlotsOK
      <4>2. tokens'[r][p + 1] = tokens[r][p + 1]
        <5>1. p + 1 \in 1 .. Len(tokens[r])
          BY <1>4, <1>5, <3>1
        <5> QED BY <1>1, <5>1 DEF Grown
      <4> QED BY <2>1, <2>2, <3>1, <4>1, <4>2 DEF RowHeld
    <3>2. CASE ~(p < Committed(r))
      <4>1. Committed(r) <= p
        BY <1>5, <3>2
      <4>2. PICK k \in DOMAIN batch : \E j \in DOMAIN batch[k].toks :
              /\ batch[k].req = r /\ p = batch[k].start + j - 1
              /\ tokens'[r][p + 1] = batch[k].toks[j]
        BY <1>1, <4>1 DEF Grown
      <4>3. PICK j \in DOMAIN batch[k].toks :
              /\ batch[k].req = r /\ p = batch[k].start + j - 1
              /\ tokens'[r][p + 1] = batch[k].toks[j]
        BY <4>2
      <4>4. WriteSlot(k, j) = s /\ v = Compressed(batch[k].toks[j])
        BY <2>1, <2>2, <4>3 DEF WriteSlot
      <4> QED BY <4>4 DEF Lands
    <3> QED BY <3>1, <3>2
  <2>5. Lands(s, v)'
    BY <1>11, <2>3, <2>4, LandsThen
  <2>6. (SlotOf(r, p)' = s) /\ (Compressed(tokens[r][p + 1])' = v)
    BY <1>2, <2>1, <2>2 DEF SlotOf, Compressed
  <2> QED BY <2>5, <2>6
<1> QED BY <1>8, <1>9, <1>10, <1>11

LEMMA ExecuteStep == HInv /\ Execute => HInv'
<1> SUFFICES ASSUME HInv, Execute PROVE HInv'
  OBVIOUS
<1> DEFINE cache == IF use_slot_cache THEN WriteHashCache(Flat, EnsureCache) ELSE EnsureCache
<1>1. /\ batch' = <<>> /\ kv_cache = "real" /\ DOMAIN batch' = {}
      /\ UNCHANGED <<deployment, kv_cache, phase, prompt_len, table, prefix_of>>
      /\ _cache' = cache /\ _kv_cache_ref' = EnsureRef
      /\ hashed' = {Hashed(Flat, cache, t) : t \in DOMAIN Flat.input_ids}
  BY ExecuteFacts
<1>2. \A r \in Requests : /\ tokens'[r] \in Seq(TokenIds) /\ computed'[r] \in Nat
  BY ExecuteGrown DEF Grown
<1>3. tokens' \in [Requests -> Seq(TokenIds)] /\ computed' \in [Requests -> Nat]
  <2>1. tokens' = [q \in Requests |-> tokens'[q]] /\ computed' = [q \in Requests |-> computed'[q]]
    BY DEF Execute
  <2> QED BY <1>2, <2>1
<1>4. Typed'
  <2>1. Typed /\ EnsureRef \in Caches
    BY DEF HInv, Typed, EnsureRef, Caches
  <2>2. batch' \in Seq(Chunk)
    BY <1>1
  <2> QED BY <1>1, <1>3, <2>1, <2>2 DEF Typed
<1>5. CacheOK' /\ \A r \in Requests : RequestOK(r)' /\ RowOK(r)' /\ CachedOK(r)'
  BY ExecuteCache, ExecuteRequest
<1>6. (\A k \in DOMAIN batch' : ChunkOK(k)') /\ WritesApart'
  BY <1>1 DEF WritesApart
<1>7. SharedOK'
  BY <1>1 DEF HInv, SharedOK
<1>8. SlotsOK'
  <2>1. ASSUME deployment.slots, ~deployment.remote, NEW b \in Blocks PROVE CachedHeld(b)'
    <3> SUFFICES ASSUME prefix_of[b] # <<>>, NEW o \in 0 .. BlockSize - 1
                 PROVE  Lands(<<b, o>>, Compressed(prefix_of[b][Len(prefix_of[b]) - BlockSize + o + 1]))'
      BY <1>1 DEF CachedHeld
    <3>1. PICK v : v = Compressed(prefix_of[b][Len(prefix_of[b]) - BlockSize + o + 1])
      OBVIOUS
    <3>2. Lands(<<b, o>>, v)
      BY <2>1, <3>1 DEF HInv, SlotsOK, CachedHeld
    <3>3. <<b, o>> \in Slots("real")
      BY DEF Slots
    <3>4. Lands(<<b, o>>, v)'
      BY <2>1, <3>2, <3>3, LandsThen
    <3>5. Compressed(prefix_of[b][Len(prefix_of[b]) - BlockSize + o + 1])' = v
      BY <1>1, <3>1 DEF Compressed
    <3> QED BY <3>4, <3>5
  <2>2. deployment.slots => \A r \in Requests : RowHeld(r)'
    BY ExecuteRequest
  <2> QED BY <1>1, <2>1, <2>2 DEF SlotsOK
<1>9. HashOK'
  <2>1. \A t \in DOMAIN Flat.input_ids :
          Hashed(Flat, cache, t).ids = TrueIds(Hashed(Flat, cache, t).seq, Hashed(Flat, cache, t).pos)
    BY HashTrue
  <2> HIDE DEF cache
  <2>2. \A h \in hashed' : h.ids = TrueIds(h.seq, h.pos)
    BY <1>1, <2>1
  <2> QED BY <2>2 DEF HashOK, TrueIds
<1> QED BY <1>4, <1>5, <1>6, <1>7, <1>8, <1>9 DEF HInv

-----------------------------------------------------------------------------
(* The theorems.                                                           *)

LEMMA HInvStep == HInv /\ [Next]_vars => HInv'
<1> SUFFICES ASSUME HInv, [Next]_vars PROVE HInv'
  OBVIOUS
<1>1. CASE Bind
  BY <1>1, BindStep
<1>2. CASE DummyRun
  BY <1>2, DummyRunStep
<1>3. CASE Execute
  BY <1>3, ExecuteStep
<1>4. ASSUME NEW r \in Requests, Arrive(r) PROVE HInv'
  BY <1>4, ArriveStep
<1>5. ASSUME NEW r \in Requests, Admit(r) PROVE HInv'
  BY <1>5, AdmitStep
<1>6. ASSUME NEW r \in Requests, AdmitRemote(r) PROVE HInv'
  BY <1>6, AdmitRemoteStep
<1>7. ASSUME NEW r \in Requests, Schedule(r) PROVE HInv'
  BY <1>7, ScheduleStep
<1>8. ASSUME NEW r \in Requests, Preempt(r) PROVE HInv'
  BY <1>8, PreemptStep
<1>9. ASSUME NEW r \in Requests, Finish(r) PROVE HInv'
  BY <1>9, FinishStep
<1>10. CASE UNCHANGED vars
  <2>1. UNCHANGED <<deployment, kv_cache, _cache, _kv_cache_ref, phase, tokens, prompt_len,
                    computed, table, prefix_of, batch, hashed>>
    BY <1>10 DEF vars
  <2>2. \A q : Same(q) /\ InBatch(q)' = InBatch(q)
    BY <2>1 DEF Same, InBatch
  <2>3. SameDeployment /\ EnsureCache' = EnsureCache
    BY <2>1 DEF SameDeployment, EnsureCache, use_slot_cache, Slots
  <2>4. \A r \in Requests : /\ RequestOK(r)' /\ RowOK(r)' /\ CachedOK(r)'
                            /\ Committed(r)' = Committed(r)
    BY <2>1, <2>2, <2>3, SameRequest, SameCached DEF HInv
  <2>5. \A k \in DOMAIN batch' : ChunkOK(k)'
    BY <2>1, <2>2, SameChunk DEF HInv
  <2>6. WritesApart' /\ \A s, v : Lands(s, v) => Lands(s, v)'
    BY <2>1, <2>3, SameLands DEF HInv
  <2>7. SharedOK' /\ HashOK'
    BY <2>1 DEF HInv, SharedOK, HashOK, TrueIds
  <2>8. \A r \in Requests : RowHeld(r) => RowHeld(r)'
    <3> SUFFICES ASSUME NEW r \in Requests, RowHeld(r) PROVE RowHeld(r)'
      OBVIOUS
    <3>1. \A p : (SlotOf(r, p) = SlotOf(r, p)')
      BY <2>1 DEF SlotOf
    <3> QED BY <2>1, <2>4, <2>6, <3>1 DEF RowHeld, BlockOf, Compressed
  <2>9. \A b \in Blocks : CachedHeld(b) => CachedHeld(b)'
    BY <2>1, <2>6 DEF CachedHeld, Compressed
  <2>10. SlotsOK'
    BY <2>1, <2>8, <2>9 DEF HInv, SlotsOK
  <2>11. Typed' /\ CacheOK'
    BY <2>1 DEF HInv, Typed, CacheOK, Slots, Compressed
  <2> QED BY <2>4, <2>5, <2>6, <2>7, <2>10, <2>11 DEF HInv
<1> QED BY <1>1, <1>2, <1>3, <1>4, <1>5, <1>6, <1>7, <1>8, <1>9, <1>10 DEF Next

LEMMA HInvHolds == Spec => []HInv
<1>1. Init => HInv
  BY HInit
<1>2. HInv /\ [Next]_vars => HInv'
  BY HInvStep
<1> QED BY <1>1, <1>2, PTL DEF Spec

(* Types, and the two bounds the kernels rely on: a request never has more *)
(* than MaxLen computed positions, and the slot cache holds compressed ids *)
(* only, whichever KV cache ensure_cache of engram.py made it for.         *)
THEOREM TypeCorrect == Spec => []TypeOK
<1>1. HInv => TypeOK
  <2> SUFFICES ASSUME HInv PROVE TypeOK
    OBVIOUS
  <2>1. Typed /\ CacheOK
    BY DEF HInv
  <2>2. \A r \in Requests :
          /\ tokens[r] \in Seq(TokenIds) /\ Len(tokens[r]) <= MaxLen + 1
          /\ prompt_len[r] \in 0 .. Len(tokens[r])
          /\ computed[r] \in 0 .. MaxLen
          /\ \A i \in DOMAIN table[r] : table[r][i] \in Blocks \cup {NullBlock}
    <3> SUFFICES ASSUME NEW r \in Requests
                 PROVE  /\ tokens[r] \in Seq(TokenIds) /\ Len(tokens[r]) <= MaxLen + 1
                        /\ prompt_len[r] \in 0 .. Len(tokens[r])
                        /\ computed[r] \in 0 .. MaxLen
                        /\ \A i \in DOMAIN table[r] : table[r][i] \in Blocks \cup {NullBlock}
      OBVIOUS
    <3>1. /\ tokens[r] \in Seq(TokenIds) /\ Len(tokens[r]) \in Nat
          /\ prompt_len[r] \in Nat /\ computed[r] \in Nat
      BY <2>1 DEF Typed
    <3>2. /\ prompt_len[r] <= Len(tokens[r]) /\ Len(tokens[r]) <= MaxLen + 1
          /\ computed[r] <= MaxLen
      BY DEF HInv, RequestOK
    <3>3. \A i \in DOMAIN table[r] : table[r][i] \in Blocks \cup {NullBlock}
      BY DEF HInv, RowOK
    <3> QED BY <3>1, <3>2, <3>3, TokensOK
  <2> QED BY <2>1, <2>2 DEF Typed, CacheOK, Caches, TypeOK
<1> QED BY <1>1, HInvHolds, PTL

(* Between two steps of the V1 runner, the slot of each generated token a  *)
(* later chunk may look back at holds that token: no other request's write *)
(* of hash_cache, through a shared or a reused block, has replaced it.     *)
THEOREM SlotsKeepHistory == Spec => []SlotHistory
<1>1. HInv => SlotHistory
  <2> SUFFICES ASSUME HInv, use_slot_cache, batch = <<>>,
                      NEW r \in Requests, phase[r] = "running",
                      NEW p \in prompt_len[r] .. computed[r] - 1, p > computed[r] - MaxNgram
               PROVE  _cache[SlotOf(r, p)] = Compressed(tokens[r][p + 1])
    BY DEF SlotHistory
  <2>1. /\ computed[r] \in Nat /\ prompt_len[r] \in Nat /\ Len(tokens[r]) \in Nat
        /\ MaxNgram \in Nat /\ Window \in Nat
    BY CacheShape DEF HInv, Typed
  <2>2. p \in Nat /\ p >= prompt_len[r] /\ p < computed[r]
    BY <2>1
  <2>3. ~InBatch(r) /\ DOMAIN batch = {}
    BY DEF InBatch
  <2>4. computed[r] <= Len(tokens[r]) /\ Committed(r) = computed[r]
    BY <2>3 DEF HInv, RequestOK, Committed
  <2>5. BlockOf(p) \in DOMAIN table[r] /\ BlockOf(p) \in Nat
    BY <2>2, HasBlock
  <2>6. BlockOf(p) >= FirstNeeded(computed[r])
    <3>1. computed[r] - p < Window
      BY <2>1, <2>2, WindowCoversLookback
    <3>2. FirstNeeded(computed[r]) <= BlockOf(p) /\ FirstNeeded(computed[r]) \in Nat
      BY <2>1, <2>2, <3>1, Window_
    <3> QED BY <2>5, <3>2
  <2>7. table[r][BlockOf(p)] \in Blocks
    BY <2>3, <2>5, <2>6 DEF HInv, RowOK
  <2>8. Lands(SlotOf(r, p), Compressed(tokens[r][p + 1]))
    <3>1. RowHeld(r)
      BY DEF HInv, SlotsOK, use_slot_cache
    <3> QED BY <2>2, <2>4, <2>7, <3>1 DEF RowHeld
  <2>9. Compressed(tokens[r][p + 1]) = EnsureCache[SlotOf(r, p)]
    BY <2>3, <2>8 DEF Lands
  <2>10. kv_cache = "real" /\ _kv_cache_ref = "real"
    <3>1. kv_cache = "real"
      BY DEF HInv, CacheOK
    <3>2. Len(tokens[r]) # prompt_len[r]
      BY <2>1, <2>2, <2>4
    <3> QED BY <3>1, <3>2 DEF HInv, CacheOK, use_slot_cache
  <2> QED BY <2>9, <2>10 DEF EnsureCache
<1> QED BY <1>1, HInvHolds, PTL

(* Every hash that _hash_ids_kernel computes is of the token and the ones  *)
(* just before it in the same request, for any interleaving of requests,   *)
(* chunks, drafts, hits, preemptions and loads from elsewhere.             *)
THEOREM LookbackHolds == Spec => LookbackExact
<1>1. HInv /\ [Next]_vars => [\A h \in hashed' : h.ids = TrueIds(h.seq, h.pos)]_vars
  <2> SUFFICES ASSUME HInv, [Next]_vars
               PROVE  \A h \in hashed' : h.ids = TrueIds(h.seq, h.pos)
    OBVIOUS
  <2>1. HashOK'
    BY HInvStep DEF HInv
  <2> QED BY <2>1 DEF HashOK, TrueIds
<1> QED BY <1>1, HInvHolds, PTL DEF Spec, LookbackExact

(* The cache that a forward writes has exactly the slots of the KV cache   *)
(* that is bound: ensure_cache replaced the one made while profiling.      *)
THEOREM CacheFits == Spec => CacheFitsKv
<1>1. HInv /\ [Next]_vars => [Execute /\ use_slot_cache => DOMAIN _cache' = Slots(kv_cache)]_vars
  <2> SUFFICES ASSUME HInv, Execute, use_slot_cache
               PROVE  DOMAIN _cache' = Slots(kv_cache)
    OBVIOUS
  <2>1. kv_cache = "real" /\ _cache' = WriteHashCache(Flat, EnsureCache)
    BY ExecuteFacts
  <2>2. DOMAIN EnsureCache = Slots("real")
    BY <2>1, CacheReady DEF use_slot_cache
  <2> QED BY <2>1, <2>2 DEF WriteHashCache
<1> QED BY <1>1, HInvHolds, PTL DEF Spec, CacheFitsKv
===============================================================================
