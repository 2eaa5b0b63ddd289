# Formal models of the DeepSeek-V4.1-Flash EXL3 serving recipe

TLA+ models of the program logic in `src/recipe`: the scripts that boot and tune
four-node tensor-parallel lines of vLLM, and the patched vLLM files they mount
into the containers. TLC checks the models on small instances; TLAPS proves the
theorems of eight modules for every size. `PROJECT.json` gives, for each definition,
the source lines it stands for, and for each run its properties.

Contents: [parts](#1-the-system) · [modules](#2-modules) · [runs](#3-runs-and-bounds) ·
[fairness](#4-fairness) · [proofs](#5-what-is-proved) ·
[assumptions](#6-assumptions-of-the-models) · [findings](#7-where-the-code-and-its-documents-disagree) ·
[not modelled](#8-what-is-not-modelled) · [plan](#9-plan)

## 1. The system

Eight DGX Spark nodes form two *lines* (A and B) of four. A line serves one
tensor-parallel vLLM engine: rank 0 (the head) answers HTTP, ranks 1 to 3 are
workers. Paths below are relative to `src/recipe`.

| component | state it keeps | operations | hard part |
|---|---|---|---|
| Boot of a line: `dsv41_boot_tp4_v2.sh`, `dsv41_tp4_launch.sh`, `dsv41_node_prep_v2.sh`, `ops/boot_prod.sh` | container per node, copy of the launcher per node, `boot_tp4.log` | preflight, prep, copy, launch (workers first), health wait, smokes, bench | every ssh may fail or time out; what runs on a node outlives its ssh; cleanup is unchecked |
| Gate rows: `dsv41_gate_run_v2.sh` | the summary table | teardown, boot, teardown | kill in the middle |
| Tuning ladder: `dsv41_ladder3.sh`, `ops/stack_next.sh`, `ops/ladder_relaunch.sh` | `accepted-<LINE>.env`, results directories, `ladder-<LINE>.log` | measure a base, one row per lever, verdict, append; wait for a verdict, settle it, kill, relaunch | two scripts share files without a lock; a kill between any two steps; files of earlier runs |
| Operator tools: `ops/accept_lever.sh`, `ops/drop_lever.sh`, `ops/publish_best.py` | the accepted file, a published page | edits | stale reads of the ladder's files |
| Free list of KV blocks: `FreeKVCacheBlockQueue` in `patches/kvgroup/kv_cache_utils.py` | links in the blocks, a count | popleft, popleft_n, remove, append, append_n, prepend_n, iter_blocks_after | links and count apart; a generator suspended across other calls |
| Prefix-cache hashes: same file | `block_hashes` of each request | hash the blocks that became full; coarse view | incremental calls must agree with one call; multi-modal items, salts, adapters |
| KV grouping and sizing: same file, `patches/kvgroup/sim_kvgroup.py` | the shared `max_model_len`, a configuration per worker | split layers into groups, fit the length to the memory, lay out tensors, shrink all pools to the smallest | groups alias in one allocation; the search overwrites the configuration as it probes; the workers must agree |
| Engram n-gram hashing: `NgramHashState` in `patches/engram.py` | `_cache`, a value per KV slot | ensure_cache, forward | chunks, drafts and rollbacks, block reuse, rebinding of the KV cache |
| Engram disk staging: `EngramDiskStager` | pinned and device buffers, an event | stage | host runs ahead of the GPU, buffers are reused each step |
| Engram tables: `DiskEngramTable`, `ParallelEngramEmbedding` | shard ranges, resident hot rows | gather_dequant_many, parallel read | uneven shards, thread pool, failed reads |
| Collectives: `patches/roce_cuda_communicator.py` | symmetric buffers per rank | choose a backend, all-reduce, gather, scatter | each rank decides alone and they must decide alike |
| EXL3 experts: `patches/exl3_moe.py` | fused parameters of a rank | cut, load, apply | shares of different widths; trellis and scales cut apart |
| Output projection: `patches/woproj/flashinfer_sparse_woproj.py` | payloads, a built state, attempts | hook, build once, fall back | a rank may fall back alone |
| EXL3 config: `patches/exl3_config.py` | none after start | match layer names | |

How they interact. The ladder runs a gate row per lever; a row tears the line
down, runs the boot script and tears it down again. The boot script runs prep,
copies the launcher and starts it on each node over ssh; the launcher starts a
container. In it, vLLM's runner calls `EngramDiskStager.stage` before each
forward (V2 runner; the V1 runner hashes in the forward); `stage` hashes with
`NgramHashState` and reads rows with `gather_dequant_many`. vLLM's scheduler and
block pool call the free list and the block hasher. Scripts share files and
logs only; `stack_next` watches the ladder's log and kills it. Before serving, the
engine core groups and sizes the KV cache for all workers at once
(`get_kv_cache_configs`). In a forward each rank applies its share of the experts and
its own output projection and meets the others in collectives only.

What makes each part correct, in one line: the engine declared healthy is the one
this boot started and a serving engine is not harmed; the accepted base holds
what won against the base it is stacked on; the free list holds each free block
once, in eviction order; equal block hashes mean equal prefixes; each token's
n-grams are those of its own request; each forward reads the rows of its own step;
pools of equal size hold a request of the length served, no two layers' pages
overlapping where they are in use together; the ranks make the same collective calls
in the same order, and the sum of their experts is whole.

## 2. Modules

| module | models | correspondence |
|---|---|---|
| `FreeQueue` | what the free list promises | abstract: a sequence of free blocks and the set of held ones |
| `FreeBlockQueue` | `FreeKVCacheBlockQueue` | `prev_free_block`, `next_free_block`, `num_free_blocks` are the fields; an action per method; `iter` is the generator's frame: creation, each resumption and close are steps of their own. `held` is what callers took. Refines `FreeQueue` through `get_all_free_blocks` |
| `PrefixHash` | `get_request_block_hasher`, extra keys, `BlockHashListWithBlockSize`, `resolve_block_hashes` | `BlockHasher` is a call of the hasher; `Arrive` and `AppendTokens` are its two call sites in vLLM |
| `BlockPool_proofs` | | the theorems of section 5 about `FreeBlockQueue` and `PrefixHash` |
| `NgramHash` | `NgramHashState`, `_write_hash_cache_kernel`, `_hash_ids_kernel` | `Execute` is a forward: ensure_cache, write of all slots, then `HashIds` for each token out of batch, window or slot; `Bind`, `Admit`, `Schedule`, `Preempt`, .. are vLLM, written from the module's docstring and what the kernels read |
| `EngramStager` | `EngramDiskStager.stage` and its stream | the body of `stage` cut at each point where the GPU's progress matters: enqueue and record, synchronize, read, one turn of the copy loop per layer. `stream` is the list of enqueued operations, `GpuStep` executes the first; `layer` is the turn of the copy loop |
| `EngramGather` | sharding of heads, `load_hot`, `gather_dequant_many`, `_kai_parallel_read` | a row is its number; weights and scales are read apart, as tasks of the pool; a sorted list of ids is its set, and `Place` the position of an id in it |
| `Boot` | boot, launchers, teardown, kill of a chain | `pc` and `rank` are the place in the boot script (and the row around it); `launcher[r]` is the process on node r, which stays when its ssh is gone; `container[r]` carries the boot it belongs to |
| `Ladder` | ladder, stack_next, accept_lever, drop_lever | `ladder` and `stack` are the two processes, `AcceptByHand` and `DropByHand` the operator's edits, one step each; a bench result is the environment it was measured in and which numbers its file has, so that a comparison with the wrong numbers, or with a missing one, can be told. `Settings` are a lever's settings as the ladder appends them, `LeverText` the text of the script as `stack_next` reads it; `Wins` is the ladder's rule with `ACCEPT_PCT` and `PREFILL_TOL`, `Rederived` the one of `stack_next` with its fixed percentages and its pattern of six numbers |
| `KvGroups` | `get_kv_cache_groups` and what it calls | operators only: uniform, unified-page and packed grouping, hidden states, promotion of sliding windows; a group is `[layers, spec, per_layer]` |
| `KvConfig` | `get_kv_cache_configs` | `Group`, `ProbeFirst`/`Probe`/`SearchEnds` (the search of the model length), `Fitted`, `Check`, `Plan`, `Shrink`: one action per step that the next reads; raising ends in `failed`. `WorkerGroups` are the groups projected to each worker. The grouping is a parameter, `KvCacheGroups` in the run; what sizing relies on of it is the contract `GroupingOK` |
| `Exl3Moe` | `_tp_split`, `_place`, `load_weights`, `apply` of the routed experts | operators only: a slot of a parameter is the columns it was copied from |
| `TensorParallel` | a forward of the ranks: `Exl3Moe`, woproj, the communicator | a rank's `place` is the item of the program it is at; `calls` what it has entered; it leaves a collective when all ranks made the same call |
| `EngramStager_proofs`, `EngramGather_proofs`, `Boot_proofs`, `Ladder_proofs`, `KvConfig_proofs`, `NgramHash_proofs`, `TensorParallel_proofs` | | the theorems of section 5 about the module of that name; `TensorParallel_proofs` also those about `Exl3Moe` |

`MCNgramHash`, `MCEngramGather`, `MCLadder`, `MCPrefixHash`, `MCKvConfig` and
`MCTensorParallel` give the constants that a `.cfg` cannot spell. `MCKvConfig` also
recomputes the capacities that `sim_kvgroup.py` expects of DeepSeek-V4.1 and
`kvgroup/README.md` reports, from the real geometry in units of 64 bytes (`LoggedCapacity`). Modules are independent where the code is: `Boot` and
`Ladder` meet in the gate row (`RowEnds` is what a boot leaves), `EngramStager`
takes hashing as `NgramHash` shows it and reads as `EngramGather` shows them.
Definitions whose comment begins with *Fault:* are deliberately broken variants of
the definition after them; no specification uses them. They document which mistake
each property would find.

## 3. Runs and bounds

| run | shows | bounds, and why they suffice |
|---|---|---|
| `block_queue` | `FreeListOK`: one well-formed list, exactly the free blocks, the right count; `InternalErrorsUnreachable`; `IterYieldsFree`; `ImplementsFreeQueue` | 4 blocks: an inner block with two inner neighbours, and every list up to 4; sizes beyond are covered by the proofs |
| `engram_hash` | `LookbackExact`: a position is hashed with the tokens before it in its own request; `SlotHistory`; `CacheFitsKv` | 2 requests, 3 blocks of 2 tokens plus the null block, n-grams of 3, window 3, up to 5 tokens, 2 drafts: a lookback crosses a chunk and a block, blocks are shared, leave the window and are reused |
| `engram_stager` | `PinnedBuffersQuiescent`, `HashesAreCurrent`, `ForwardReadsOwnStep`, `StagingEnds` | 2 layers, 2 tokens, 3 steps: a third step meets the copies of the second while the first is long done; steps of 0, 1 and 2 tokens follow each other |
| `engram_gather` | `GatherExact`, `TasksPartitionMisses`, `ShardsCoverHeads` | heads of 2, 3 and 1 rows over 2 ranks (a padded column), 2 layers; with 7 threads and a cap of 3 rows a chunk has 1 to 2 rows, so tasks end in full and in partial chunks |
| `boot` | `HealthyIsOneBoot`, `WorkersBeforeHead`, `ServingSurvives`, `BootEnds` | 3 ranks (head, a worker launched after another, the first worker), 2 boots (leftovers need a predecessor, no more), 2 polls |
| `boot_parity` | `LaunchersAgree` violated | 1 boot |
| `ladder` | `BaseIsCurrent`, `AcceptedOnOwnRow`, `AcceptedSurvivesRelaunch`, `StackEnds` | 5 levers: two wins of two settings that share one and differ in the other, a two-setting win that may be skipped and whose text `stack_next` does not expand, one that gains decode and loses prefill, a profile lever; 2 acts by hand, each a start of the ladder, an accept of two settings (one that `stack_next` may apply too) or a drop of a key; 1 `stack_next` with three different arguments. Two ladders and an edit between them, or one killed and relaunched, are within these. `ACCEPT_PCT` is 5, so that one lever lies between the two rules; one lever's result may lack the C6 number |
| `ladder_restart` | `BaseIsCurrent` violated without `CarefulOperator` | 2 starts by hand, no `stack_next` and no edit of the accepted file |
| `prefix_hash` | `HashesFingerprintPrefix`, `SamePrefixHits`, `CoarseHitsExact` | 2 requests (the properties relate pairs), 14 prompts, blocks of 2 and 4, up to 6 tokens: three fine blocks, the third reached by generation |
| `kv_config` | `PoolServesOneRequest`, `PagesApart`, `LengthIsLargest` | 11 models of 0 to 8 layers with pages of 1 to 8 units, one for each way of grouping, and one that the fallback for pages that cannot be unified refuses; 2 workers in tensor or pipeline parallel or one without layers; pools from too small through fitted to ample; lengths up to 9 |
| `tensor_parallel` | `CollectivesMatch`, `SumIsWhole`, `ForwardEnds` | 4 ranks (the deployment's); 24 columns cut in 4, 8, 8 and 4; a decode program (two output projections, an expert layer, a gather) and one with uneven scatters and gathers; five environments, each rank's output projection building, failing or off |
| `prefix_images` | `HashesFingerprintPrefix` violated | blocks of 3: two images and a generated token in one |

Each module has one type invariant, named `TypeOK` (`HashTypeOK` in `PrefixHash`, whose
proofs extend `FreeBlockQueue` too). Every property of a passing run is
broken by at least one of the *Fault* definitions under the same constants.

A note on `CHECK_DEADLOCK FALSE`: every model but the queue has bounds that it
exhausts (steps, boots, tokens), and there it may stop; that the scripts and the
staging do not stop *before* that is what `BootEnds`, `StackEnds` and `StagingEnds` say.
`FreeBlockQueue` is checked for deadlock. The views of `FreeBlockQueue` and `NgramHash`
leave out a history variable that no action reads.

## 4. Fairness

- `EngramStager`: weak fairness of the GPU (a stream executes what is enqueued) and of
  each host step once `stage` has begun. Not of the runner's `Prepare`: no step need
  come. A failed read is possible, never forced.
- `Boot`: weak fairness of "the host proceeds" as one action, because the script is
  sequential and each remote command ends (ssh has `timeout`, polls have `-m`; scp is
  assumed to end). The failure branches count as progress only when the state
  calls for them, save the timeout of the launching ssh, which may always come. Weak
  fairness of each node's launcher, a local sequence of commands. Nothing makes an
  engine come up, so `BootEnds` rests on the bounded polls alone.
- `TensorParallel`: weak fairness of each rank, a process that runs on unless it waits in
  a collective. A build of the output projection may succeed or fail on each rank.
- `Ladder`: weak fairness of the ladder and of `stack_next`, loops of commands that end;
  that a row ends is `BootEnds` of `Boot`. What the operator does by hand is not fair.

Safety properties use no fairness.

## 5. What is proved

`BlockPool_proofs` proves of `FreeBlockQueue`, for every `NumBlocks` in Nat:

| theorem | statement |
|---|---|
| `TypeCorrect` | `Spec => []TypeOK` |
| `FreeListCorrect` | `Spec => []FreeListOK` |
| `InternalErrors` | `Spec => []InternalErrorsUnreachable` |
| `IterationSafe` | `Spec => IterYieldsFree` |
| `Implements` | `Spec => ImplementsFreeQueue` |

The only assumption is `NumBlocksNat`. The argument. `TypeOK` is not inductive: that the count stays at or above zero needs
that it is the length of the list, and that a pop finds a block needs that the links
spell it. `FreeListOK` says both: *there is* a duplicate-free sequence s of blocks along
which the links run in both directions (`Chained(s)`), the held blocks are the others,
without links, and the count is `Len(s)`. `IInv == TypeOK /\ FreeListOK` is inductive. Each
action's step picks that s and names the sequence after it: a suffix for the pops,
s without one element for `RemoveBlock`, a concatenation for the returns. `RemoveStep`,
`PopLeftNStep` and `GiveStep` say that the links after the step are chained along it; `popleft`
is the removal of the first block (`PopLeftRemoves`) and `append` the return of a
singleton (`AppendWrites`), so both reuse those lemmas. Two chained sequences
are equal (the list is determined by its links), so
`GetAllFreeBlocks` *is* s, and the same lemmas give the refinement: each step of the
linked list is the corresponding step of `FreeQueue`, and the generator's steps are
stutters. `InternalErrorsUnreachable` follows from `IInv` in one state;
`IterYieldsFree` from `IInv` and the fact that a block's link that is neither None nor the
fake tail leads to a block of s.

The other modules. `Spec =>` is left out of the statements; each theorem has the name of
its property beside it.

| module | theorem | statement |
|---|---|---|
| `BlockPool_proofs` | `HashTypeCorrect`, and if `OneItemInTail`: `HashesFingerprint`, `PrefixesHit`, `CoarseExact` | `[]HashTypeOK`, `[]HashesFingerprintPrefix`, `[]SamePrefixHits`, `[]CoarseHitsExact` (of `HashSpec`) |
| `EngramStager_proofs` | `TypeCorrect`, `OwnStep`, `Current`, `Quiescent` | `[]TypeOK`, `[]ForwardReadsOwnStep`, `[]HashesAreCurrent`, `PinnedBuffersQuiescent` |
| `EngramGather_proofs` | `TypeCorrect`, `Exact`, `Partition`, `Cover` | `[]TypeOK`, `[]GatherExact`, `[]TasksPartitionMisses`, `[]ShardsCoverHeads` |
| `Boot_proofs` | `TypeCorrect`, `OneBoot`, `WorkersFirst`, `OnlyTeardown` | `[]TypeOK`, `HealthyIsOneBoot`, `WorkersBeforeHead`, `ServingSurvives` |
| `Ladder_proofs` | `TypeCorrect`, and if `CarefulOperator`: `JudgedAgainstCurrentBase`, `JudgedOnOwnRow`, `AcceptedAreKept` | `[]TypeOK`, `[]BaseIsCurrent`, `[]AcceptedOnOwnRow`, `[]AcceptedSurvivesRelaunch` |
| `KvConfig_proofs` | `TypeCorrect`, `Serves`, `Largest`, `LaidApart` | `[]TypeOK`, `[]PoolServesOneRequest`, `[]LengthIsLargest`, `[]PagesApart` |
| | `GroupsOfModel`, `SizesOfModel` | `KvCacheGroups` of a `ModelOK` keeps `GroupsDisjoint` and, where each worker owns a layer of some group, `SizesAgree` (no `Spec`) |
| `NgramHash_proofs` | `TypeCorrect`, `SlotsKeepHistory`, `LookbackHolds`, `CacheFits` | `[]TypeOK`, `[]SlotHistory`, `LookbackExact`, `CacheFitsKv` |
| `TensorParallel_proofs` | `SharesPartition` | the shares `TpSplit` gives to the ranks are disjoint and together all columns (no `Spec`) |
| | `TypeCorrect`, `Matching`, `ExpertsWhole` | `[]TypeOK`, `[]CollectivesMatch`, `[]SumIsWhole` |

`PrefixHash`, for all prompts, requests, block sizes and lengths. A request is hashed in pieces, at
whatever times its tokens came, and none of the three properties can be kept step by step: each compares
two requests with different histories. `HashInv` takes the history away: the hashes a
request holds are those that its prompt and its present tokens determine, block by block from the
first item on (`Hashed`). That a step keeps this is the point where the hasher could be wrong. Its
later calls start at the last item and not at the first; `MmKeysSame` says that any start will do as long as the items
before it have ended where the block begins (`Behind`), and `StartBehind` that the
last item is such a start. This takes `OneItemInTail`, what the comment "we only need to consider
the last mm input" (`kv_cache_utils.py:819`) takes for granted: of the items of a prompt that fills a block, the last alone reaches past
its full blocks. Nothing in the file ensures it, and without it the run `prefix_images`
violates the first property; so it is a hypothesis of the three theorems, not an
assumption of the model (TLC finds it true of the prompts of `prefix_hash` and false of those of
`prefix_images`). The type invariant is proved without it, from `HashTypeInv`.

Two requests are then compared through their tokens and prompts alone. One block: its hash tells its parent, its tokens and
its keys (`BlockTells`), the one list of keys tells adapter, items, salt and embeddings apart although any of them may
be missing (`PartsEqual`, `KeysEqual`), and equal item keys are the same items at the
same places, of which each position of the block learns which one it stands for (`ItemsTell`; `ItemsTold` is the converse: the
items over a block, sorted, are determined by what its positions show). A strong induction
on the block, made with a set, goes on to the prefix (`FingerprintStep`, `HitsStep`). A coarse block's hash is the fine
hash at which it ends (`CoarseFacts`), so `CoarseExact` is both at that block.

`EngramStager`, for all numbers of layers, tokens and steps. The GPU may lag behind the host by
any number of operations, so an invariant on the present content of the buffers says
nothing about the forward that will read them. `Ordered(k)` says instead what the k-th
operation of the stream finds when its turn comes: the hashes it copies are those of their
step, and a forward comes after the copies of its rows with none of a later step between. While the
host waits for the event, the hashes are the last thing enqueued; when the wait is over the stream
is empty, and this is why the host may write pinned memory (`HostKnows`). In the copy loop
the stream holds copies of the layers already passed only.

`EngramGather`, for all sharding, ids, hot sets, threads and chunk sizes. An entry
holds its row from the start if it is resident, otherwise from the end of its task on, and no
task touches another's entries. Chunks start at the multiples of their size, so the place of a
row in the list of misses lies in one chunk (`OneChunk`), and `Collect` needs all tasks done. The
ranges of heads are cardinalities of sets of rows (`Buckets`), so that heads and ranks are
ordered without an induction over a sum.

`NgramHash`, for all requests, blocks, vocabularies, sizes of block, window and n-gram, chunks
and drafts. Between the scheduling of a batch and its forward, a slot may still hold the token of a
draft that was rejected, or of the request that had the block before. `Lands(s)` is therefore what a slot
holds *after the writes of the scheduled batch*, and `SlotsOK` says of it: in each row of the
block table, the slot of every position that the window still needs, up to the last one whose
token is certain (`Committed`: drafts are not), lands on that token (`RowHeld`), and so does each slot of a cached block
(`CachedHeld`). KV loaded from another instance is the exception: nobody wrote its slots, and it is
prompt, which the runner's window answers for. That a step keeps this needs that its writes go where
they do no harm: a block of two rows is cached and covers the same tokens in both (`SharedOK`), a cached block holds
certain tokens only (`CachedOK`), so the new positions of a chunk lie in blocks of their own
(`NewWrites`), and no two of them in one slot (`WritesApart`). The forward then executes
what the invariant already says. For the hashes, a lookback inside the chunk finds the batch; before it, the runner's
window; and beyond that a slot, in a block the window keeps, because the sliding window is longer
than the lookback (`WindowCoversLookback`, at `FirstNeeded`). The flat batch is cut back
into chunks by counting entries (`QueryEnd`), without an induction over a sum.

`Boot`, for all numbers of ranks, boots and polls. `HealthyIsOneBoot` needs where each part of a
boot may be at each place of the script (`BInv`): a launcher is waited for only on the rank the
script is at; the containers of the ranks it has started belong to this boot (`StartedByBoot`); once the
head is loaded no rank is still starting (`LoadedTogether`); a boot that was declared healthy is over
and its ranks do not start again; and no engine that was declared healthy serves on a node past
preflight or beside a launcher, since its memory makes preflight fail. That a launcher left behind has ended
by then is an assumption of the model (section 6).

`Ladder`, for all levers, settings, benchmarks, arguments and numbers of starts, edits and runs of
`stack_next`. What a lever is compared with was read long before the verdict, and `stack_next` may append to
the accepted settings in between. `Measured` says until when the numbers are still current: at each place
of the ladder the base (after a verdict, the row) is absent or measured with the accepted settings, unless
`stack_next` is past its appends; from then on it has retired the base row, no row can end in
health before it kills the ladder, and what the ladder holds no longer matters. An accepted row answered a
smoke, so it ended before `stack_next` acted (`OwnRow`). That its numbers are its own and not those of an earlier
row of the same label needs `Fresh`: the levers still to run, in the ladder's list or in the one `stack_next` holds,
have no results and are different from each other.

That an accepted lever is still in force when the next ladder starts (`AcceptedAreKept`) is not
inductive either: the kill may come between two appends of one lever. Its invariant `SInv` says of each
setting of an accepted decode lever that it is in force, that a later line or edit sets its key, or that it is
still to be appended (`Held`). The third case must be over when `stack_next` kills the ladder. It is, since what
`stack_next` waits for can then only be the verdict that is being appended (`Appending`), of which nothing
newer is accepted (`Stacking`): if `stack_next` derives it again, it appends what is missing. It need not:
its percentages are fixed, it does not match a line with a nan, and it appends the text of the script. The property is
therefore stated for what it can restate (`Restatable`): of a lever that some `stack_next` waits for, the settings
whose unexpanded text is what the ladder appended, provided its rule takes the verdict (`Rederived`); of
any other lever, all settings. Section 7 says what lies outside. That an append by either script leaves the lever's other settings in force needs to know where the
settings in the file came from (`Sourced`), that a lever is taken at most once (`LinesOK`), and
`SettingsAgree`. "Set later" counts the levers `stack_next` accepts where the ladder did not: it
re-derives a verdict from the numbers alone, so a lever rejected for want of a smoke comes in and may
override one accepted before. Without `CarefulOperator` the three properties are false.

`KvConfig`, for all inputs whose grouping keeps `GroupingOK`, and any number of workers. The
search keeps: what it has found fits, what lies just beyond its right end does not, and the two
meet (`Searching`). Because a longer request never needs fewer blocks, the length found is the
largest for that worker (`FitFacts`), and the least over the workers the largest for all
(`AutoFit`): it fits each, and one of them does not fit more. The searches write the shared length;
`Chosen` says that outside of them it is the configured or the fitted one. For the pools:
a request that fits leaves a block to spare (`PoolFacts`: the null block was set aside), it needs
as many blocks on every worker, so the least pool holds it too and the others, cut to
that size, stay within their memory.

`LaidApart` is about sums of page sizes over sets of layers, so the fold behind them is unrolled once (`Unrolled`)
and the sum shown to add over disjoint sets and to grow (`TotalUnion`, `TotalGrows`). A tensor begins behind
the pages of all specs that come before its own in the group (`ByteOffset`), and the k-th layer of a tensor k - 1
pages further: this gives each layer a place in a block (`Place`), within the width of the widest group
(`PlaceInside`) and apart from the other layers of its group (`PlacesApart`). With the blocks outermost a page lies at its
block's beginning plus that place; with the layers outermost, at that place times the number of blocks
plus the block's index in pages, which cannot run into another layer because all pages have one
size or there is one group (`LayoutExpresses`; `PlaceMultiple`, `PairApart`). Shrinking a pool changes the
number of blocks, and in the second layout with it every stride and offset: the proof goes through
because `Shrink` lays the tensors out again (`EvenApart`). That every layer of a worker is in a tensor needs the
assertion `Assigned`, which only counts: the layers in the groups are the worker's, all different (`GroupsDisjoint`), and as many
as it has (`Counted`, `AllPlaced`). The invariant `ApartInv` holds this of the workers planned so far (`Placed`).

What these theorems take of the grouping is then proved of the one the code computes, for every model a
configuration can register (`ModelOK`). `GroupsOver` says of a list of groups that each has
its layers once, with specs of one type (`Sound`), and that no two have a layer in common. The first-fit
buckets have it (`BucketsFacts`), as a fold that keeps the buckets apart and, unless specs are to be merged,
of one type (`JoinedKeeps`, `JoinedSame`). A bucket is then split twice over: in `layers[i::n]`, whose places are
those of one residue (`EverySplits`, `BySpecFacts`), or, packed, in every n-th row of its layers listed by page size (`PatternFacts`, `DealtOnce`);
either way a place of the whole falls to one group (`FlattenPlaces`). The sizes the packing computes (`_approximate_gcd`,
the anchor, the groups of states) matter only in that they are positive (`GcdIn`, `RepeatsIn`, `WidestNat`). Promotion,
page unification and the alignment of hidden states change block and page, and these stay positive: the
divisions are of a page by a smaller one, or by a block of tokens that have bytes (`PromotedLayers`, `UnifiedLayers`, `AlignedSound`). For
`SizesOfModel`: in a group of one type every layer needs the same blocks (`RequestFacts`), so a worker with some of its layers
needs what the group needs, and so does one with none, which keeps the group's spec (`PartNeeds`); the
sum over the groups does not depend on the worker and grows with the length (`WorkerNeeds`, `TotalLess`). That
each worker owns a layer of some group is a hypothesis: the packing may drop layers (section 6), and a worker left with none fails at
`bytes_per_block > 0`.

`Exl3Moe` and `TensorParallel`, for all numbers of ranks, programs and environments. A share ends where
the next one begins (`SharesEndToEnd`), and the last at the end of the dimension; the column
that two shares had in common, or none had, would contradict the least rank whose share
reaches it. `CollectivesMatch` compares ranks that are at different places of their
programs: the n-th call of a rank is a function of the n-th item and of the buffers registered by
the calls before, never of the rank, and a rank is at most at the call the others are in. For
`SumIsWhole`, each slot of a parameter was loaded from the column its share names, for
trellis and scales alike, so that the columns a rank applies are its share. `TypeOK` says that an output
projection is attempted at most once and never both built and off; that holds after every linear whose hook runs
(`LinearsPrepared`), in whatever order wo_a and wo_b come.

The assumptions are `NumBlocksNat`, `HashSizes`, `HashInputs`, `WindowCoversLookback`, `CacheShape`, `TokensOK`, `DeploymentsOK`, `StagerBounds`, `GatherBounds`, `IdsInBuckets`, `BootBounds`, `LadderArgs`, `SettingsAgree`,
`InputsOK`, `GroupingOK`, `TilesOfBlock`, `SeveralRanks`, `SetupsOK` and `ExpertsOK`; TLC
evaluates each in the run of its module. `GroupingOK` is the contract between sizing and grouping, whatever the
grouping: TLC finds it true of `KvCacheGroups` on every input of `kv_config`, and `SizesOfModel` proves it for every
model, where each worker owns a layer of some group. That the models of the run are `ModelOK` is evaluated there too (`ModelsRegister`).

Model-checked only: which sizes the grouping chooses and that it reaches the capacities the README of kvgroup reports (`LoggedCapacity`);
and, by nature of the provers, the liveness
properties (`StagingEnds`, `BootEnds`, `StackEnds`, `ForwardEnds`) and enabledness. The provers cannot instantiate an
induction theorem that takes a predicate; where a proof needs an induction (over the hooks of the
linears, the layers of a group, the elements of a sum), it is made with a set in its place.

## 6. Assumptions of the models

- `FreeBlockQueue`: callers (vLLM's block pool) give back blocks they hold. A call that
  raises changes nothing and is no step.
- `PrefixHash`: the hash function is collision-free; no adapter has the name of
  another request's salt (both are strings in one list of keys); a hit in the block
  pool is equality of hashes. No prompt is empty; the items of a prompt are sorted by offset, as
  `_gen_mm_extra_hash_keys` says (`kv_cache_utils.py:500`), and do not overlap; items of one identifier have one length
  (`HashInputs`); the block size of a group is a multiple of the hash block size (`HashSizes`, asserted
  by `BlockHashListWithBlockSize`).
- `NgramHash`: vLLM allocates, shares and frees blocks as the docstring of `engram.py`
  says; a sliding window frees blocks behind it only. The V1 runner with KV from another
  instance *and* preemption is left out (`DeploymentsOK`): in it, blocks loaded from elsewhere could be
  prefix hits for generated positions whose slots nobody wrote, and the repository does not say
  whether the combination can occur.
- `EngramStager`: one stream; `prepare_inputs` of a step follows the launch of the step before.
- `EngramGather`: at most one read fails in a run. Every rank has a head (`GatherBounds`: the code does
  not assert it, and a rank without any would read row 0 of an empty share for its padding), and
  the hash of a head lies in that head's bucket (`IdsInBuckets`), as `NgramHashState` builds them.
- `Boot`: a launcher abandoned by an earlier boot has ended when the next boot launches
  (its steps take seconds, teardown, preflight and prep minutes); `SKIP_PREP=1` is left out; one
  boot chain per line at a time. A container's failure to load is an exit.
- `Ladder`: `stack_next` acts within one 30 s poll, in which no row ends in health (a row
  takes many minutes). `CarefulOperator` starts no ladder by hand on a base
  row older than the accepted settings, gives neither the ladder nor `stack_next` a lever that has results or that
  the running ladder still has to run, and edits the accepted settings only while no script
  runs: the code checks none of these (section 7, and the hazard at `dsv41_ladder3.sh:25`). A list of levers
  names each once, and every lever has a setting (`LadderArgs`). A lever sets a key once, and a setting that
  several levers share is the only value any lever gives its key (`SettingsAgree`, as in `lever_env`): else the
  `grep -qx` of `stack_next.sh:24` would find an old line of a setting that is overridden and not append it anew.
  Expanded or not, a lever sets the same keys. `ACCEPT_PCT` and `PREFILL_TOL` are the same for all ladders of a run, and what a
  benchmark measures is determined by the environment of its row (`Perf`); which numbers its file has is not.
- `KvConfig`: there is no chunked attention; specs arrive without padding; what a layer needs of its block table, when
  specs merge or are of one type, and how strides follow from a layout are vLLM's
  (`RequestBlocks`, `Mergeable`, `UniformType`, `LayoutExpresses`); `extra_retained_tokens` is
  left out. Sizes are small numbers; Python's integers do not overflow. Of any grouping, sizing expects
  that a block has bytes and that a request needs as many blocks on every worker, no fewer the
  longer it is, and the layout that no layer is twice in the groups (`GroupingOK`, `GroupsDisjoint`). A model that registers
  has positive blocks and pages, windows of some length, at least a byte per token in a window or in hidden
  states, and other layers beside hidden states (`ModelOK`). A layout has its
  blocks or its layers outermost (`InputsOK`, the two cases of the comment at `kv_cache_utils.py:1712`).
- `TensorParallel`: the gates on size, type and architecture give the same answer on all
  ranks (they see the same input), and a backend that disables itself does so on all: that ranks whose
  gates differ wait for each other for ever is assumed away, not checked. All
  ranks have the same environment but for `expert_map` and the woproj flag; vLLM cuts and sums
  outside the patched files as its programs say. The checkpoint is complete, its shares are whole
  tiles, and an expert is cut over all ranks or whole on one (`ExpertsOK`). A collective completes only when all ranks
  made the same call.

What the models show about inputs the recipe does not use, and are no disagreement
between code and text:

- A bucket of sliding windows with unequal page counts is split by `zip` in
  `PatternRepeats` (`kv_cache_utils.py:2068`), which drops layers, though a comment at 1973-1975
  says such buckets are emitted whole. The start then stops at the assertion of 2672.
- A worker that has no layer while others have groups fails at `bytes_per_block > 0`;
  a group that is empty on one worker names the other workers' layers in its tensors.
- `_log_all_reduce_backend_selection` logs another order than `all_reduce` tries.
- A lever given to the ladder as `KEY=VAL` is its own setting there (`dsv41_ladder3.sh:12`), but `stack_next.sh:16`
  looks levers up in that table by name and would append nothing for it.
- `load_weights` of the experts does not notice a tensor the checkpoint lacks.
- `ops/drop_lever.sh:4` moves the result of `grep -v` into place only if a line is left: when the drop
  would empty the file, the settings stay and the script reports success (`DropByHand`).

## 7. Where the code and its documents disagree

1. `boot_parity`: parity of the launcher is checked before the launcher is copied, and
   the copies are unchecked (`dsv41_boot_tp4_v2.sh:27` against `dsv41_node_prep_v2.sh:9`).
2. `ladder_restart`: a restarted ladder keeps a base row measured before the accepted
   settings grew (`dsv41_ladder3.sh:28` against its own header).
3. `prefix_images`: a later call of the block hasher looks at the last multi-modal item
   only (`kv_cache_utils.py:822` against its docstring at 802-804).

`stack_next` says that it "re-derives that verdict from its logged numbers" (`ops/stack_next.sh:3-4`) and that
`HOT_ROWS` passes through (line 7). Its derivation is not the ladder's rule, in three ways, all of which `Ladder` models and
`ladder` reaches. `AcceptedSurvivesRelaunch` is stated around them (`Restatable`; `SetLater` counts what
`stack_next` takes by its own rule), since an accepted lever does get lost by the first and the third:

- Line 16 takes the settings of a lever from the text of `dsv41_ladder3.sh:12`: for HOT,
  `HOT_ROWS=${HOT_ROWS:-20000000}` is appended after the value that the ladder accepted and overrides it; the nodes'
  shells make it 20000000.
- Line 21 has 3 % and 5 % written out, where the ladder takes `ACCEPT_PCT` and `PREFILL_TOL` from its environment. With
  another `ACCEPT_PCT`, `stack_next` takes a lever that the ladder rejected, or the reverse.
- A line of the log with a nan does not match the pattern of line 19: the ladder accepts on C1 with C6
  missing (`dsv41_ladder3.sh:18,36`), `stack_next` derives a reject. Killed between two appends, the ladder leaves
  such a lever in part.

`run_row` "returns 0 if bench done" (`dsv41_ladder3.sh:21`), but finds the BENCH-DONE line of an earlier run of
the label too (line 25): a lever that is repeated after the base has grown, and whose benchmark fails, is judged on its
old result. `CarefulOperator` excludes repeats, and no run covers them.

## 8. What is not modelled

GPU arithmetic (dequantization, attention, the hash function's multiply and xor), weight
loading, Dockerfiles, vendored diffs and their tests, the quality gate and GPU tools (no state of
their own), documents, and the first versions of scripts whose successor is modelled. Of
`kv_cache_utils.py`: the GLM-5 layout, chunked attention, draft annotations of groups and the fine-grained
alternative of `resolve_block_hashes`, which another file would have to use. Of the communicator: ROCm, the
batched `all_gatherv` of several tensors, broadcast and point-to-point calls, the all-to-all
managers. Of woproj: the kernels' layouts. `exl3_config.py` matches names and keeps no state
after start. The publisher (`publish_best`): it reads the ladder's results and tables and writes a
page that no script reads. Of the scripts: notifications, tables and log collection.

## 9. Plan

In this order; a module marked + is written.

1. + `FreeQueue`, `FreeBlockQueue` and proofs: the structure everything in the block pool rests on.
2. + `NgramHash`, `EngramStager`, `EngramGather`: the repository's own code in the serving path.
3. + `Boot`, `Ladder`: the orchestration.
4. + `PrefixHash`.
5. + `KvGroups`, `KvConfig`: sizing of the KV cache.
6. + `Exl3Moe`, `TensorParallel`: what the ranks must do alike.
7. + `Ladder` extended by the operator's edits. The publisher is not modelled (section 8).
8. + Proofs of `EngramStager`, `EngramGather`, `Boot`, `Ladder`, `KvConfig`, `Exl3Moe`, `TensorParallel`,
   `NgramHash`, `PrefixHash`, `KvGroups`.
