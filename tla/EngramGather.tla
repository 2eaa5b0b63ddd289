----------------------------- MODULE EngramGather -----------------------------
(***************************************************************************)
(* The disk-backed Engram tables of patches/engram.py: how the hash heads  *)
(* are sharded over the tensor-parallel ranks (ParallelEngramEmbedding),   *)
(* and how one rank turns hash ids into rows (gather_dequant_many): unique *)
(* ids, resident hot rows, and the misses read in chunks by a thread pool. *)
(*                                                                         *)
(* A row is its global number.  A dequantized row is the pair of the       *)
(* numbers its weight and its scales were read from.                       *)
(***************************************************************************)
EXTENDS Integers, FiniteSets, Sequences, FiniteSetsExt

CONSTANTS
  HeadSizes,             \* rows of each head's bucket range, in order
  NumRanks,              \* tp_size
  NumLayers,             \* tables read in one batch
  Batches,               \* hash ids of a step: layer -> sequence over tokens of
                         \* sequences over heads
  HotSets,               \* candidate hot sets: layer -> global row ids, {} = none
  Threads, MaxChunk      \* _KAI_THREADS, _KAI_CHUNK

VARIABLES
  rank, hot,             \* fixed at start
  phase,                 \* "idle", "reading", "done", "error"
  ids,                   \* the batch being gathered
  task,                  \* state of each read task: "queued", "done", "failed"
  w, s,                  \* per layer: the row read for each unique id
  out                    \* per layer: the dequantized rows

vars == <<rank, hot, phase, ids, task, w, s, out>>

Layers == 1 .. NumLayers
n_hash_cols == Len(HeadSizes)
None == -1               \* memory nothing was written to
Zero == <<None, None>>   \* a row of zeros

CeilDiv(a, b) == (a + b - 1) \div b

(* The rows of the first n heads: sum(head_sizes[:n]) of them.             *)
Buckets(n) == UNION {{h} \X (1 .. HeadSizes[h]) : h \in {k \in 1 .. n_hash_cols : k <= n}}
SumHeads(n) == Cardinality(Buckets(n))

-----------------------------------------------------------------------------
(* Sharding by complete hash heads.                                        *)

part_n_hash_cols == CeilDiv(n_hash_cols, NumRanks)
HeadStart(r) == r * part_n_hash_cols

\* Fault: the start of the range is added twice.
VocabStartTwice(r) == 2 * SumHeads(HeadStart(r))

VocabStart(r) == SumHeads(HeadStart(r))

\* Fault: the last head of the rank is left out of its range.
VocabEndOneHeadShort(r) == SumHeads(HeadStart(r) + part_n_hash_cols - 1)

VocabEnd(r) == SumHeads(HeadStart(r) + part_n_hash_cols)

(* The hash id of local column c of rank r; -1 pads columns past the heads.*)
LocalId(r, row, c) ==
  IF HeadStart(r) + c <= n_hash_cols THEN row[HeadStart(r) + c] ELSE -1

(* disk_rel_owned, flattened over tokens and local columns.                *)
Entries(layer) == 1 .. Len(ids[layer]) * part_n_hash_cols
EntryId(r, layer, e) ==
  LocalId(r, ids[layer][(e - 1) \div part_n_hash_cols + 1],
             ((e - 1) % part_n_hash_cols) + 1)
Owned(r, layer, e) ==
  EntryId(r, layer, e) >= VocabStart(r) /\ EntryId(r, layer, e) < VocabEnd(r)
Rel(r, layer, e) ==
  IF Owned(r, layer, e) THEN EntryId(r, layer, e) - VocabStart(r) ELSE 0

(* The heads have rows and no rank is without heads; the hash of a head is *)
(* a row of its bucket range, as NgramHashState numbers them.              *)
ASSUME GatherBounds ==
  /\ NumRanks \in Nat \ {0} /\ NumLayers \in Nat
  /\ Threads \in Nat \ {0} /\ MaxChunk \in Nat \ {0}
  /\ HeadSizes \in Seq(Nat \ {0}) /\ HeadStart(NumRanks - 1) < n_hash_cols
ASSUME IdsInBuckets ==
  \A b \in Batches : \A l \in Layers :
    /\ b[l] \in Seq([1 .. n_hash_cols -> Nat])
    /\ \A t \in DOMAIN b[l] : \A h \in 1 .. n_hash_cols :
         SumHeads(h - 1) <= b[l][t][h] /\ b[l][t][h] < SumHeads(h)

-----------------------------------------------------------------------------
(* What is resident and what is read.                                      *)

(* load_hot: the rank's share of the hot set, as rank-local ids.           *)
HotIds(layer) ==
  {g - VocabStart(rank) : g \in {h \in hot[layer] :
                                   h >= VocabStart(rank) /\ h < VocabEnd(rank)}}

Uniq(layer) == {Rel(rank, layer, e) : e \in Entries(layer)}

(* torch.searchsorted, clamped: the first hot id from u on, else the last. *)
HotAt(layer, u) ==
  LET from == {h \in HotIds(layer) : h >= u}
  IN IF from # {} THEN Min(from) ELSE Max(HotIds(layer))

\* Fault: the clamped position counts as a hit without a comparison.
HitUnchecked(layer, u) == HotIds(layer) # {}

Hit(layer, u) == HotIds(layer) # {} /\ HotAt(layer, u) = u

(* The unique ids the read jobs of the layer cover, and the place of one   *)
(* in the list, which is sorted.                                           *)
Miss(layer) == {u \in Uniq(layer) : ~Hit(layer, u)}
Place(layer, u) == Cardinality({v \in Miss(layer) : v <= u})

(* _kai_parallel_read: the rows of all jobs, two per layer, over the pool. *)
Parts == {"w", "s"}
Total == Cardinality(UNION {{l} \X (Parts \X Miss(l)) : l \in Layers})
Smaller(a, b) == IF a < b THEN a ELSE b
ChunkRows == LET even == Smaller(MaxChunk, CeilDiv(Total, Threads))
             IN IF even > 1 THEN even ELSE 1

\* Fault: a chunk ends one row early.
TasksOneShort ==
  UNION {{[layer |-> l, of |-> part, lo |-> lo,
           hi |-> Smaller(lo + ChunkRows - 1, Cardinality(Miss(l)))] :
            part \in Parts,
            lo \in {n \in 0 .. Cardinality(Miss(l)) - 1 : n % ChunkRows = 0}} : l \in Layers}

Tasks ==
  UNION {{[layer |-> l, of |-> part, lo |-> lo,
           hi |-> Smaller(lo + ChunkRows, Cardinality(Miss(l)))] :
            part \in Parts,
            lo \in {n \in 0 .. Cardinality(Miss(l)) - 1 : n % ChunkRows = 0}} : l \in Layers}

(* The rows of a task: those at places lo + 1 .. hi of the layer's list.   *)
Rows(t) == {u \in Miss(t.layer) : t.lo < Place(t.layer, u) /\ Place(t.layer, u) <= t.hi}

-----------------------------------------------------------------------------

Init ==
  /\ rank \in 0 .. NumRanks - 1
  /\ hot \in HotSets
  /\ phase = "idle"
  /\ ids = [l \in Layers |-> <<>>]
  /\ task = <<>>
  /\ w = <<>> /\ s = <<>> /\ out = <<>>

(* Resident rows are copied at once; the misses become tasks of the pool.  *)
Plan ==
  /\ phase = "idle"
  /\ ids' \in Batches
  /\ phase' = "plan"
  /\ UNCHANGED <<rank, hot, task, w, s, out>>

Submit ==
  /\ phase = "plan"
  /\ LET resident == [l \in Layers |-> [u \in Uniq(l) |->
           IF Hit(l, u) THEN VocabStart(rank) + HotAt(l, u) ELSE None]] IN
     w' = resident /\ s' = resident
  /\ task' = [t \in Tasks |-> "queued"]
  /\ phase' = "reading"
  /\ UNCHANGED <<rank, hot, ids, out>>

(* A pool thread reads the rows of one task into the entries they are for. *)
RunTask(t) ==
  LET read(buf) == [u \in DOMAIN buf |->
        IF u \in Rows(t) THEN VocabStart(rank) + u ELSE buf[u]] IN
  /\ task[t] = "queued"
  /\ task' = [task EXCEPT ![t] = "done"]
  /\ w' = IF t.of = "w" THEN [w EXCEPT ![t.layer] = read(@)] ELSE w
  /\ s' = IF t.of = "s" THEN [s EXCEPT ![t.layer] = read(@)] ELSE s
  /\ UNCHANGED <<rank, hot, phase, ids, out>>

(* preadv returns nothing: the task raises.  At most one fails in a run.   *)
TaskFails(t) ==
  /\ task[t] = "queued" /\ \A u \in DOMAIN task : task[u] # "failed"
  /\ task' = [task EXCEPT ![t] = "failed"]
  /\ UNCHANGED <<rank, hot, phase, ids, w, s, out>>

(* Entry e of a layer: inverse index, dequantize, zero what is not owned.  *)
Dequantized(layer, e) ==
  LET u == Rel(rank, layer, e) IN
  IF Owned(rank, layer, e) THEN <<w[layer][u], s[layer][u]>> ELSE Zero

\* Fault: an exception in a task is not looked at.
CollectIgnoresErrors ==
  /\ phase = "reading"
  /\ \A t \in DOMAIN task : task[t] # "queued"
  /\ phase' = "done"
  /\ out' = [l \in Layers |-> [e \in Entries(l) |-> Dequantized(l, e)]]
  /\ UNCHANGED <<rank, hot, ids, task, w, s>>

(* fut.result() for every task, then the rows.                             *)
Collect ==
  /\ phase = "reading"
  /\ \A t \in DOMAIN task : task[t] = "done"
  /\ phase' = "done"
  /\ out' = [l \in Layers |-> [e \in Entries(l) |-> Dequantized(l, e)]]
  /\ UNCHANGED <<rank, hot, ids, task, w, s>>

(* fut.result() raises while other tasks may still be queued or running.   *)
CollectRaises ==
  /\ phase = "reading"
  /\ \E t \in DOMAIN task : task[t] = "failed"
  /\ phase' = "error"
  /\ UNCHANGED <<rank, hot, ids, task, w, s, out>>

Next ==
  \/ Plan \/ Submit \/ Collect \/ CollectRaises
  \/ \E t \in DOMAIN task : RunTask(t) \/ TaskFails(t)

Spec == Init /\ [][Next]_vars

-----------------------------------------------------------------------------

AnyRow == None .. SumHeads(n_hash_cols) - 1

TypeOK ==
  /\ phase \in {"idle", "plan", "reading", "done", "error"}
  /\ \A t \in DOMAIN task : task[t] \in {"queued", "done", "failed"}
  /\ phase \in {"reading", "done", "error"} =>
       \A l \in Layers : w[l] \in [Uniq(l) -> AnyRow] /\ s[l] \in [Uniq(l) -> AnyRow]
  /\ phase = "done" => \A l \in Layers : out[l] \in [Entries(l) -> AnyRow \X AnyRow]

(* Whatever the order in which the pool finishes, whichever of its reads   *)
(* fails, however many ids repeat and whichever are resident: the rows     *)
(* that are returned are, in each column of each token, the weight and the *)
(* scales of the row its hash names, and zeros in a padded column.         *)
GatherExact ==
  phase = "done" =>
    \A l \in Layers : \A e \in Entries(l) :
      LET id == EntryId(rank, l, e) IN
      out[l][e] = IF id = -1 THEN Zero ELSE <<id, id>>

(* The tasks cover the rows that are not resident, each exactly once for   *)
(* the weights and once for the scales: no memory is left unread, and no   *)
(* two threads write the same row.                                         *)
TasksPartitionMisses ==
  phase = "reading" =>
    \A l \in Layers : \A part \in Parts : \A u \in Miss(l) :
      Cardinality({t \in DOMAIN task : t.layer = l /\ t.of = part /\ u \in Rows(t)}) = 1

(* The shards of all ranks, concatenated by the all-gather and cut to the  *)
(* number of heads, are the lookup of the whole table: each id is owned by *)
(* the rank its head belongs to.                                           *)
ShardsCoverHeads ==
  phase = "plan" =>
    \A l \in Layers : \A t \in DOMAIN ids[l] : \A h \in 1 .. n_hash_cols :
      LET r == (h - 1) \div part_n_hash_cols
          e == (t - 1) * part_n_hash_cols + ((h - 1) % part_n_hash_cols) + 1 IN
      /\ r < NumRanks
      /\ Owned(r, l, e)
      /\ VocabStart(r) + Rel(r, l, e) = ids[l][t][h]

=============================================================================
