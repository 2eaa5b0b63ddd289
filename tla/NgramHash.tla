------------------------------ MODULE NgramHash ------------------------------
(***************************************************************************)
(* NgramHashState of patches/engram.py: every position of every request is *)
(* hashed with the tokens just before it, while requests arrive chunk by   *)
(* chunk.  The tokens before a chunk come from the runner's lookback       *)
(* window, or (V1 runner) from hash_cache, a value per KV slot of the      *)
(* sliding-window cache.  The scheduler, the block pool with its prefix    *)
(* cache and the runner are vLLM, outside the repository: they are         *)
(* modelled from what engram.py says of them.                              *)
(*                                                                         *)
(* A hash id is modelled by the compressed ids it hashes, so the multiply, *)
(* xor and prime of the kernel are left to the data.                       *)
(***************************************************************************)
EXTENDS Integers, FiniteSets, SequencesExt

CONSTANTS
  Requests,
  Blocks,                \* the blocks of the serving KV cache but the null block
  NullBlock,             \* block 0: what a position that left the window maps to
  TokenIds,              \* the vocabulary
  Sampled, Drafted,      \* token ids the model samples and the drafter proposes
  Prompts,               \* the prompts a request may arrive with
  BlockSize,             \* tokens per KV block
  MaxNgram,
  Window,                \* sliding window, in tokens
  MaxLen,                \* bound: tokens of a request
  MaxDraft,              \* bound: draft tokens per step
  Deployments            \* [slots, remote, preempt]: V1 runner; KV loaded from
                         \* another instance; bound: preemptions

ASSUME WindowCoversLookback == Window > MaxNgram - 1

ASSUME CacheShape ==
  /\ BlockSize \in Nat \ {0} /\ MaxNgram \in Nat \ {0} /\ Window \in Nat
  /\ NullBlock \notin Blocks
  /\ IsFiniteSet(Requests)

ASSUME TokensOK ==
  /\ TokenIds \subseteq Nat /\ 0 \in TokenIds
  /\ Sampled \subseteq TokenIds /\ Drafted \subseteq TokenIds
  /\ MaxLen \in Nat /\ MaxDraft \in Nat
  /\ \A prompt \in Prompts : \E n \in 1 .. MaxLen + 1 : prompt \in [1 .. n -> TokenIds]

(* With KV loaded from another instance, no request is preempted.          *)
ASSUME DeploymentsOK ==
  \A d \in Deployments : /\ d \in [slots : BOOLEAN, remote : BOOLEAN, preempt : Nat]
                         /\ d.slots /\ d.remote => d.preempt = 0

VARIABLES
  deployment,
  kv_cache,              \* the bound KV cache: "none", "temp", "real"
  _cache, _kv_cache_ref,
  phase,                 \* of a request: "new", "waiting", "running", "done"
  tokens, prompt_len,    \* per request
  computed,              \* num_computed_tokens
  table,                 \* row of the block table: position block -> block
  prefix_of,             \* per block: the tokens up to its end, if it is cached
  batch,                 \* the chunks scheduled for this step, in order
  hashed                 \* history: what the last step hashed; nothing reads it

vars == <<deployment, kv_cache, _cache, _kv_cache_ref, phase, tokens,
          prompt_len, computed, table, prefix_of, batch, hashed>>

DEAD_ID == -1            \* an image token in the cache: no part of an n-gram
Image == 2               \* the one token id that image_sentinel_mask marks
pad_id == 3
Compressed(token) == IF token = Image THEN DEAD_ID ELSE token

use_slot_cache == deployment.slots

-----------------------------------------------------------------------------
(* The slot cache.                                                         *)

(* A slot is a block and an offset in it.  The KV cache bound while graphs *)
(* are profiled is smaller: it stands for the null block alone.            *)
Slots(kv) == (IF kv = "temp" THEN {NullBlock} ELSE Blocks \cup {NullBlock})
             \X (0 .. BlockSize - 1)

\* Fault: a cache that exists is kept, whatever KV cache is bound.
EnsureCacheKeepsOld ==
  IF kv_cache = "none" THEN <<>>
  ELSE IF ~use_slot_cache \/ _kv_cache_ref # "none" THEN _cache
  ELSE [s \in Slots(kv_cache) |-> 0]

(* ensure_cache: what _cache is after the call.                            *)
EnsureCache ==
  IF kv_cache = "none" THEN <<>>
  ELSE IF ~use_slot_cache \/ _kv_cache_ref = kv_cache THEN _cache
  ELSE [s \in Slots(kv_cache) |-> 0]

EnsureRef ==
  IF kv_cache = "none" THEN "none"
  ELSE IF use_slot_cache THEN kv_cache ELSE _kv_cache_ref

(* The batch as the kernels get it: flat tensors with an entry per token.  *)
(* query_start_loc has a row per request and repeats its end for the rest. *)
Entries(m) == UNION {{i} \X DOMAIN batch[i].toks : i \in 1 .. m}
QueryEnd(m) == Cardinality(Entries(m))

Flat ==
  LET tokenIdx == 1 .. QueryEnd(Len(batch))
      row(t) == CHOOSE m \in DOMAIN batch : QueryEnd(m - 1) < t /\ t <= QueryEnd(m)
      offset(t) == t - QueryEnd(row(t) - 1) IN
  [input_ids |-> [t \in tokenIdx |-> batch[row(t)].toks[offset(t)]],
   positions |-> [t \in tokenIdx |-> batch[row(t)].start + offset(t) - 1],
   query_start_loc |->
     [m \in 0 .. Cardinality(Requests) |->
        QueryEnd(IF m < Len(batch) THEN m ELSE Len(batch))]]

(* The chunk of a token: the binary search for its row.                    *)
ChunkOf(step, t) ==
  batch[CHOOSE m \in DOMAIN batch : /\ step.query_start_loc[m - 1] < t
                                    /\ t <= step.query_start_loc[m]]

SlotOf(r, position) == <<table[r][position \div BlockSize], position % BlockSize>>

SlotMapping(step) ==
  [t \in DOMAIN step.input_ids |-> SlotOf(ChunkOf(step, t).req, step.positions[t])]

\* Fault: the mask of the write kernel drops the last token of the step.
WriteHashCacheDropsLast(step, cache) ==
  LET slot == SlotMapping(step)
      written == DOMAIN slot \ {Len(step.input_ids)} IN
  [s \in DOMAIN cache |->
     IF \E t \in written : slot[t] = s
     THEN Compressed(step.input_ids[CHOOSE t \in written : slot[t] = s])
     ELSE cache[s]]

\* Fault: the raw token id is stored, not its compressed id.
WriteHashCacheRaw(step, cache) ==
  LET slot == SlotMapping(step) IN
  [s \in DOMAIN cache |->
     IF \E t \in DOMAIN slot : slot[t] = s
     THEN step.input_ids[CHOOSE t \in DOMAIN slot : slot[t] = s] ELSE cache[s]]

(* _write_hash_cache_kernel: all of the step's tokens, before any is read. *)
WriteHashCache(step, cache) ==
  LET slot == SlotMapping(step)
      written == DOMAIN slot IN
  [s \in DOMAIN cache |->
     IF \E t \in written : slot[t] = s
     THEN Compressed(step.input_ids[CHOOSE t \in written : slot[t] = s])
     ELSE cache[s]]

(* lookback_token_ids, from the runner: the ids before the chunk, nearest  *)
(* first, -1 where the runner has none.  V2 reads its own token history;   *)
(* V1 knows only prompt positions.                                         *)
LookbackTokenId(chunk, col) ==
  LET position == chunk.start - 1 - col
      r == chunk.req IN
  IF position >= 0 /\ (use_slot_cache => position < prompt_len[r])
  THEN tokens[r][position + 1] ELSE -1

(* A slot outside the cache is clamped to its last one.                    *)
Fallback(cache, r, lookback) ==
  LET slot == SlotOf(r, IF lookback < 0 THEN 0 ELSE lookback) IN
  IF ~use_slot_cache THEN pad_id
  ELSE IF slot \in DOMAIN cache THEN cache[slot]
  ELSE cache[<<NullBlock, BlockSize - 1>>]

\* Fault: the window is indexed from the chunk start, not the token before it.
SourceOffByOne(step, cache, t, shift) ==
  LET chunk == ChunkOf(step, t)
      lookback == step.positions[t] - shift
      col == chunk.start - lookback IN
  IF lookback >= chunk.start THEN Compressed(step.input_ids[t - shift])
  ELSE IF col \in 0 .. MaxNgram - 2 /\ LookbackTokenId(chunk, col) >= 0
  THEN Compressed(LookbackTokenId(chunk, col))
  ELSE Fallback(cache, chunk.req, lookback)

(* One lookback of _hash_ids_kernel: the batch, else the window, else the  *)
(* slot of the position.                                                   *)
Source(step, cache, t, shift) ==
  LET chunk == ChunkOf(step, t)
      lookback == step.positions[t] - shift
      col == chunk.start - 1 - lookback IN
  IF lookback >= chunk.start THEN Compressed(step.input_ids[t - shift])
  ELSE IF col \in 0 .. MaxNgram - 2 /\ LookbackTokenId(chunk, col) >= 0
  THEN Compressed(LookbackTokenId(chunk, col))
  ELSE Fallback(cache, chunk.req, lookback)

(* The values the n-grams ending at a token are hashed from: a lookback    *)
(* before the request or on an image blocks every longer n-gram.           *)
HashIds(step, cache, t) ==
  [shift \in 0 .. MaxNgram - 1 |->
     IF \E k \in 0 .. shift : \/ step.positions[t] - k < 0
                              \/ Source(step, cache, t, k) = DEAD_ID
     THEN pad_id ELSE Source(step, cache, t, shift)]

-----------------------------------------------------------------------------

Init ==
  /\ deployment \in Deployments
  /\ kv_cache = "none"
  /\ _cache = <<>> /\ _kv_cache_ref = "none"
  /\ phase = [r \in Requests |-> "new"]
  /\ tokens = [r \in Requests |-> <<>>]
  /\ prompt_len = [r \in Requests |-> 0]
  /\ computed = [r \in Requests |-> 0]
  /\ table = [r \in Requests |-> <<>>]
  /\ prefix_of = [b \in Blocks |-> <<>>]
  /\ batch = <<>>
  /\ hashed = {}

engine == <<deployment, kv_cache, _cache, _kv_cache_ref>>

(* The engine binds a temporary KV cache to profile graphs, then the real. *)
Bind ==
  /\ kv_cache' = IF kv_cache = "none" THEN "temp" ELSE "real"
  /\ kv_cache # "real"
  /\ UNCHANGED <<deployment, _cache, _kv_cache_ref, phase, tokens, prompt_len,
                 computed, table, prefix_of, batch, hashed>>

(* A profiling forward: no request, no slot written.                       *)
DummyRun ==
  /\ kv_cache # "real"
  /\ _cache' = EnsureCache /\ _kv_cache_ref' = EnsureRef
  /\ UNCHANGED <<deployment, kv_cache, phase, tokens, prompt_len, computed,
                 table, prefix_of, batch, hashed>>

Arrive(r) ==
  /\ kv_cache = "real" /\ phase[r] = "new"
  /\ \E prompt \in Prompts :
       /\ tokens' = [tokens EXCEPT ![r] = prompt]
       /\ prompt_len' = [prompt_len EXCEPT ![r] = Len(prompt)]
  /\ phase' = [phase EXCEPT ![r] = "waiting"]
  /\ UNCHANGED <<engine, computed, table, prefix_of, batch, hashed>>

InUse(b) == \E r \in Requests : \E i \in DOMAIN table[r] : table[r][i] = b

(* The first position block that the window of a token at position p needs.*)
FirstNeeded(p) == IF p < Window THEN 0 ELSE (p - Window + 1) \div BlockSize

(* Prefix-cache hits: k whole blocks of r's tokens, those in the window    *)
(* cached; at least one token is left to compute.                          *)
HitBlocks(r, k) ==
  {row \in [0 .. k - 1 -> Blocks \cup {NullBlock}] :
     \A i \in 0 .. k - 1 :
       IF i < FirstNeeded(k * BlockSize) THEN row[i] = NullBlock
       ELSE /\ row[i] # NullBlock
            /\ prefix_of[row[i]] = SubSeq(tokens[r], 1, (i + 1) * BlockSize)}

Admit(r) ==
  /\ phase[r] = "waiting"
  /\ LET hits == {k \in 0 .. (Len(tokens[r]) - 1) \div BlockSize : HitBlocks(r, k) # {}}
         longest == CHOOSE k \in hits : \A n \in hits : n <= k IN
     \E row \in HitBlocks(r, longest) :
       /\ table' = [table EXCEPT ![r] = row]
       /\ computed' = [computed EXCEPT ![r] = longest * BlockSize]
  /\ phase' = [phase EXCEPT ![r] = "running"]
  /\ UNCHANGED <<engine, tokens, prompt_len, prefix_of, batch, hashed>>

(* KV of prompt positions arrives from another instance: into fresh blocks,*)
(* whose slots in _cache keep what an earlier owner wrote.                 *)
AdmitRemote(r) ==
  /\ deployment.remote
  /\ phase[r] = "waiting" /\ Len(tokens[r]) = prompt_len[r]
  /\ \E k \in 1 .. (prompt_len[r] - 1) \div BlockSize :
     \E row \in [0 .. k - 1 -> Blocks] :
       /\ \A i \in 0 .. k - 1 : ~InUse(row[i])
       /\ \A i, j \in 0 .. k - 1 : row[i] = row[j] => i = j
       /\ table' = [table EXCEPT ![r] = row]
       /\ computed' = [computed EXCEPT ![r] = k * BlockSize]
       /\ prefix_of' =
            [b \in Blocks |->
               IF \E i \in 0 .. k - 1 : row[i] = b
               THEN SubSeq(tokens[r], 1,
                           ((CHOOSE i \in 0 .. k - 1 : row[i] = b) + 1) * BlockSize)
               ELSE prefix_of[b]]
  /\ phase' = [phase EXCEPT ![r] = "running"]
  /\ UNCHANGED <<engine, tokens, prompt_len, batch, hashed>>

(* The scheduler gives r a chunk of its uncomputed tokens, and drafts when *)
(* the chunk reaches the last of them.  Blocks that left the window are    *)
(* freed, missing ones allocated (blocks of rejected drafts are there      *)
(* still), full ones cached at once.                                       *)
Schedule(r) ==
  /\ phase[r] = "running"
  /\ \A i \in DOMAIN batch : batch[i].req # r
  /\ \E n \in 1 .. Len(tokens[r]) - computed[r] :
     \E draft \in BoundedSeq(Drafted, MaxDraft) :
       LET start == computed[r]
           end == start + n + Len(draft)
           kept == [i \in DOMAIN table[r] |->
                      IF i < FirstNeeded(start) THEN NullBlock ELSE table[r][i]]
           fresh == 0 .. (end - 1) \div BlockSize \ DOMAIN kept
           free == {b \in Blocks :
                      /\ \A q \in Requests \ {r} :
                           \A i \in DOMAIN table[q] : table[q][i] # b
                      /\ \A i \in DOMAIN kept : kept[i] # b} IN
       /\ draft # <<>> => start + n = Len(tokens[r])
       /\ end <= MaxLen
       /\ \E alloc \in [fresh -> free] :
            /\ \A i, j \in fresh : alloc[i] = alloc[j] => i = j
            /\ LET row == [i \in DOMAIN kept \cup fresh |->
                             IF i \in DOMAIN kept THEN kept[i] ELSE alloc[i]]
                   place(b) == CHOOSE i \in DOMAIN row : row[i] = b IN
               /\ table' = [table EXCEPT ![r] = row]
               /\ prefix_of' =
                    [b \in Blocks |->
                       IF \A i \in DOMAIN row : row[i] # b THEN prefix_of[b]
                       ELSE IF (place(b) + 1) * BlockSize <= start + n
                       THEN SubSeq(tokens[r], 1, (place(b) + 1) * BlockSize)
                       ELSE <<>>]
       /\ computed' = [computed EXCEPT ![r] = end]
       /\ batch' = Append(batch,
                     [req |-> r, start |-> start, drafts |-> Len(draft),
                      toks |-> SubSeq(tokens[r], start + 1, start + n) \o draft])
  /\ UNCHANGED <<engine, phase, tokens, prompt_len, hashed>>

(* What the step really hashes at flat token t: the request's own sequence.*)
Hashed(step, cache, t) ==
  LET chunk == ChunkOf(step, t) IN
  [seq |-> SubSeq(tokens[chunk.req], 1, chunk.start) \o chunk.toks,
   pos |-> step.positions[t], ids |-> HashIds(step, cache, t)]

(* forward: write the slots, hash, run the model.  Each request that       *)
(* reached its last token accepts some of its drafts and gains a token.    *)
Execute ==
  LET step == Flat
      ready == EnsureCache
      cache == IF use_slot_cache THEN WriteHashCache(step, ready) ELSE ready
      chunkOf(r) == CHOOSE c \in {batch[i] : i \in DOMAIN batch} : c.req = r
      inBatch == {batch[i].req : i \in DOMAIN batch}
      sampling == {r \in inBatch :
                     computed[r] - chunkOf(r).drafts = Len(tokens[r])} IN
  /\ batch # <<>>
  /\ _cache' = cache /\ _kv_cache_ref' = EnsureRef
  /\ hashed' = {Hashed(step, cache, t) : t \in DOMAIN step.input_ids}
  /\ \E accepted \in [sampling -> 0 .. MaxDraft], sampled \in [sampling -> Sampled] :
       /\ \A r \in sampling : accepted[r] <= chunkOf(r).drafts
       /\ tokens' = [r \in Requests |->
            IF r \in sampling
            THEN LET c == chunkOf(r) IN
                 tokens[r] \o SubSeq(c.toks, Len(c.toks) - c.drafts + 1,
                                     Len(c.toks) - c.drafts + accepted[r])
                           \o <<sampled[r]>>
            ELSE tokens[r]]
       /\ computed' = [r \in Requests |->
            IF r \in sampling THEN computed[r] - chunkOf(r).drafts + accepted[r]
            ELSE computed[r]]
  /\ batch' = <<>>
  /\ UNCHANGED <<deployment, kv_cache, phase, prompt_len, table, prefix_of>>

(* Preemption frees the blocks, which stay cached until they are reused;   *)
(* the request starts over with its generated tokens kept.                 *)
Preempt(r) ==
  /\ deployment.preempt > 0
  /\ deployment' = [deployment EXCEPT !.preempt = @ - 1]
  /\ phase[r] = "running" /\ \A i \in DOMAIN batch : batch[i].req # r
  /\ phase' = [phase EXCEPT ![r] = "waiting"]
  /\ computed' = [computed EXCEPT ![r] = 0]
  /\ table' = [table EXCEPT ![r] = <<>>]
  /\ UNCHANGED <<kv_cache, _cache, _kv_cache_ref, tokens, prompt_len, prefix_of,
                 batch, hashed>>

Finish(r) ==
  /\ phase[r] = "running" /\ \A i \in DOMAIN batch : batch[i].req # r
  /\ Len(tokens[r]) > prompt_len[r]
  /\ phase' = [phase EXCEPT ![r] = "done"]
  /\ tokens' = [tokens EXCEPT ![r] = <<>>]
  /\ prompt_len' = [prompt_len EXCEPT ![r] = 0]
  /\ computed' = [computed EXCEPT ![r] = 0]
  /\ table' = [table EXCEPT ![r] = <<>>]
  /\ UNCHANGED <<engine, prefix_of, batch, hashed>>

Next ==
  \/ Bind \/ DummyRun \/ Execute
  \/ \E r \in Requests : \/ Arrive(r) \/ Admit(r) \/ AdmitRemote(r)
                         \/ Schedule(r) \/ Preempt(r) \/ Finish(r)

Spec == Init /\ [][Next]_vars

-----------------------------------------------------------------------------

StateView == <<deployment, kv_cache, _cache, _kv_cache_ref, phase, tokens,
               prompt_len, computed, table, prefix_of, batch>>

TypeOK ==
  /\ deployment \in [slots : BOOLEAN, remote : BOOLEAN, preempt : Nat]
  /\ kv_cache \in {"none", "temp", "real"}
  /\ _kv_cache_ref \in {"none", "temp", "real"}
  /\ \A s \in DOMAIN _cache : _cache[s] \in {Compressed(t) : t \in TokenIds}
  /\ phase \in [Requests -> {"new", "waiting", "running", "done"}]
  /\ \A r \in Requests :
       /\ tokens[r] \in Seq(TokenIds) /\ Len(tokens[r]) <= MaxLen + 1
       /\ prompt_len[r] \in 0 .. Len(tokens[r])
       /\ computed[r] \in 0 .. MaxLen
       /\ \A i \in DOMAIN table[r] : table[r][i] \in Blocks \cup {NullBlock}

(* What the n-grams ending at position pos of seq should be hashed from.   *)
TrueIds(seq, pos) ==
  [shift \in 0 .. MaxNgram - 1 |->
     IF \E k \in 0 .. shift : pos - k < 0 \/ seq[pos - k + 1] = Image
     THEN pad_id ELSE seq[pos - shift + 1]]

(* Chunked prefill, drafts, rollbacks, prefix hits, preemption, window     *)
(* eviction and KV loaded from elsewhere notwithstanding, each position is *)
(* hashed with exactly the tokens that precede it in its own request.      *)
LookbackExact ==
  [][\A h \in hashed' : h.ids = TrueIds(h.seq, h.pos)]_vars

(* Slots are stable per (request, position): while a V1 request runs, the  *)
(* slot of each generated token a later step may look back at holds that   *)
(* token, whoever shares or shared the block.                              *)
SlotHistory ==
  use_slot_cache /\ batch = <<>> =>
    \A r \in Requests :
      phase[r] = "running" =>
        \A p \in prompt_len[r] .. computed[r] - 1 :
          p > computed[r] - MaxNgram =>
            _cache[SlotOf(r, p)] = Compressed(tokens[r][p + 1])

(* The slot cache the V1 kernels write and read has exactly the slots of   *)
(* the KV cache that is bound when they run, not of the one bound during   *)
(* profiling, so no write falls outside it and no clamp redirects a read.  *)
CacheFitsKv ==
  [][Execute /\ use_slot_cache => DOMAIN _cache' = Slots(kv_cache)]_vars

=============================================================================
