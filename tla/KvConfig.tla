------------------------------- MODULE KvConfig -------------------------------
(***************************************************************************)
(* KV-cache sizing: get_kv_cache_configs of patches/kvgroup/               *)
(* kv_cache_utils.py, which the engine core runs once.  It groups the      *)
(* layers of all workers, fits the model length to the memory of each by a *)
(* search that overwrites the shared configuration as it probes, checks    *)
(* that a request fits, lays out each worker's tensors and shrinks all     *)
(* pools to the smallest.  The grouping is module KvGroups.                *)
(*                                                                         *)
(* Sizes are small numbers in place of bytes.  Raising ends in "failed".   *)
(* How strides follow from a layout (compute_layout_strides) is vLLM's.    *)
(***************************************************************************)
EXTENDS KvGroups

CONSTANTS
  Grouping(_, _, _, _),  \* get_kv_cache_groups: KvCacheGroups of KvGroups
  Inputs                 \* [specs, owned, memory, override, len, auto,
                         \*  hybrid_off, fine, layout, in_flight]

(* Workers are numbered; owned is the layers of each, all registered once. *)
(* A layout has its blocks or its layers outermost.                        *)
ASSUME InputsOK ==
  \A x \in Inputs :
    /\ DOMAIN x.owned = 1 .. Len(x.owned) /\ DOMAIN x.memory = DOMAIN x.owned
    /\ UNION Range(x.owned) = DOMAIN x.specs
    /\ DOMAIN x.specs = 1 .. Len(x.specs) /\ Len(x.specs) \in Nat
    /\ x.layout.outermost \/ x.layout.layer_compact
    /\ \A v \in DOMAIN x.memory : x.memory[v] \in Nat
    /\ x.override \in Nat /\ x.len \in Nat \ {0}

VARIABLES
  input,                 \* the configuration and what the workers report
  pc,
  max_model_len,         \* vllm_config.model_config.max_model_len
  groups,                \* kv_cache_groups projected to each worker
  w,                     \* the worker a loop is at
  search,                \* binary search of _estimate_max_model_len
  auto_fit_max,
  configs                \* num_blocks, size and tensors of each worker

vars == <<input, pc, max_model_len, groups, w, search, auto_fit_max, configs>>

Workers == DOMAIN input.owned
NoSearch == [left |-> 0, right |-> 0, result |-> 0, original |-> 0]

-----------------------------------------------------------------------------

(* A group keeps its spec on a worker that has none of its layers.         *)
Project(group, owned) ==
  LET mine == Only(group.layers, owned) IN
  [layers |-> mine, per_layer |-> group.per_layer,
   spec |-> IF mine # <<>> THEN Restrict(group.spec, ToSet(mine)) ELSE group.spec]

Pages(spec, layers) == Sum(LAMBDA i : spec[i].page, layers)

(* Groups alias from byte 0: a block is as wide as the widest group.       *)
BytesPerBlock(gs) == Max({Pages(g.spec, ToSet(g.layers)) : g \in ToSet(gs)})

GroupBlocks(group, len, in_flight) ==
  Max({RequestBlocks(group.spec[i], len, in_flight) : i \in DOMAIN group.spec})

BlocksPerRequest(gs, len, in_flight) ==
  Sum(LAMBDA k : GroupBlocks(gs[k], len, in_flight), DOMAIN gs)

MemoryNeeded(gs, len) == BytesPerBlock(gs) * BlocksPerRequest(gs, len, input.in_flight)

(* The groups of all workers' layers, and of each worker's.                *)
AllGroups(x) == Grouping(x.specs, x.hybrid_off, x.layout.outermost, x.fine)
WorkerGroups(x) ==
  LET all == AllGroups(x) IN
  [v \in DOMAIN x.owned |-> [k \in DOMAIN all |-> Project(all[k], x.owned[v])]]

(* What raises in the grouping: a group without layers, and a worker       *)
(* without any layer when there are groups.                                *)
Empty(x) == \E group \in Range(AllGroups(x)) : group.layers = <<>>
Starved(x) == AllGroups(x) # <<>> /\ \E v \in DOMAIN x.owned : x.owned[v] = {}

(* What the layout relies on: no layer is twice in the groups.             *)
GroupsDisjoint(x) ==
  LET all == AllGroups(x) IN
  /\ DOMAIN all = 1 .. Len(all) /\ Len(all) \in Nat
  /\ \A k \in DOMAIN all :
       /\ all[k].layers \in Seq(DOMAIN x.specs) /\ IsInjective(all[k].layers)
       /\ DOMAIN all[k].spec = ToSet(all[k].layers)
       /\ \A i \in ToSet(all[k].layers) :
            /\ all[k].spec[i].page \in Nat \ {0}
            /\ \A l \in DOMAIN all : i \in ToSet(all[l].layers) => l = k

(* What sizing relies on: a block has bytes, and a request needs as many   *)
(* blocks on every worker, no fewer of them the longer it is.              *)
SizesAgree(x) ==
  LET gs == WorkerGroups(x)
      blocks(v, len) == BlocksPerRequest(gs[v], len, x.in_flight) IN
  \A v \in DOMAIN x.owned :
    /\ GroupsDisjoint(x)
    /\ gs[v] # <<>> /\ BytesPerBlock(gs[v]) \in Nat \ {0}
    /\ \A len \in 1 .. x.len : /\ blocks(v, len) \in Nat
                                /\ blocks(v, len) = blocks(1, len)
                                /\ \A more \in len .. x.len : blocks(v, len) <= blocks(v, more)

ASSUME GroupingOK ==
  \A x \in Inputs : ~Empty(x) /\ ~Starved(x) /\ AllGroups(x) # <<>> => SizesAgree(x)

(* What the plan may use: the override's blocks or the worker's memory.    *)
Available(v) ==
  IF input.override # 0 /\ groups[v] # <<>>
  THEN input.override * BytesPerBlock(groups[v]) ELSE input.memory[v]

\* Fault: the pool's null block is not set aside.
CheckMemoryAll(v) == Available(v)

(* BlockPool holds the null block back for ever.                           *)
CheckMemory(v) == Available(v) - BytesPerBlock(groups[v])

Fits(v, len) == MemoryNeeded(groups[v], len) <= CheckMemory(v)

(* Pages of different sizes need each page whole in its block and, with    *)
(* several groups, the layers of a block side by side.                     *)
LayoutExpresses(layout, gs) ==
  LET pages == UNION {{g.spec[i].page : i \in ToSet(g.layers)} : g \in ToSet(gs)} IN
  Cardinality(pages) = 1 \/ (layout.block_compact
                             /\ (Len(gs) > 1 => ~layout.layer_compact))

(* The tensors of a group: one per spec, in the order the specs come.  One *)
(* with specs per layer of which the worker has no layer yields a tensor   *)
(* for every spec of the others (here in order of registration).           *)
Names(group) == IF group.per_layer /\ group.layers = <<>>
                THEN Ordered(DOMAIN group.spec) ELSE group.layers
OfSpec(group, s) == {i \in ToSet(Names(group)) : group.spec[i] = s}
First(group, s) == Min({k \in DOMAIN Names(group) : group.spec[Names(group)[k]] = s})
ByteOffset(group, s) ==
  Pages(group.spec, {i \in ToSet(Names(group)) : First(group, group.spec[i]) < First(group, s)})

GroupTensors(group, bytes, num_blocks, outermost) ==
  {[layers |-> Only(Names(group), OfSpec(group, s)), page |-> s.page,
    layer_stride |-> IF outermost THEN s.page ELSE s.page * num_blocks,
    block_stride |-> IF outermost THEN bytes ELSE s.page,
    offset |-> ByteOffset(group, s) * (IF outermost THEN 1 ELSE num_blocks)]
     : s \in {group.spec[i] : i \in ToSet(Names(group))}}

(* get_kv_cache_config_from_groups; no group, and the pool has its null    *)
(* block alone.                                                            *)
ConfigFromGroups(gs, memory) ==
  IF gs = <<>> THEN [num_blocks |-> 1, size |-> 0, tensors |-> {}]
  ELSE LET bytes == BytesPerBlock(gs)
           num_blocks == IF input.override # 0 THEN input.override ELSE memory \div bytes
       IN [num_blocks |-> num_blocks, size |-> bytes * num_blocks,
           tensors |-> UNION {GroupTensors(gs[k], bytes, num_blocks, input.layout.outermost)
                                : k \in DOMAIN gs}]

-----------------------------------------------------------------------------

Init ==
  /\ input \in Inputs
  /\ pc = "group" /\ max_model_len = input.len
  /\ groups = <<>> /\ w = 1 /\ search = NoSearch
  /\ auto_fit_max = input.len /\ configs = <<>>

(* Merge, group and project.                                               *)
Group ==
  /\ pc = "group"
  /\ groups' = IF Empty(input) THEN <<>> ELSE WorkerGroups(input)
  /\ pc' = CASE Empty(input) \/ Starved(input) -> "failed"
             [] AllGroups(input) = <<>> -> "plan"
             [] OTHER -> IF input.auto THEN "fit" ELSE "check"
  /\ UNCHANGED <<input, max_model_len, w, search, auto_fit_max, configs>>

(* _estimate_max_model_len_from_groups: a length of one token first.  The  *)
(* length on trial stands in the shared configuration.                     *)
SearchBegins ==
  \/ pc = "fit" /\ w \in Workers
  \/ pc = "check" /\ w \in Workers /\ CheckMemory(w) > 0 /\ ~Fits(w, max_model_len)

ProbeFirst ==
  /\ SearchBegins
  /\ max_model_len' = 1
  /\ search' = IF Fits(w, 1)
               THEN [left |-> 1, right |-> max_model_len, result |-> 1, original |-> max_model_len]
               ELSE [left |-> 1, right |-> 0, result |-> 0, original |-> max_model_len]
  /\ pc' = IF pc = "fit" THEN "fit_search" ELSE "check_search"
  /\ UNCHANGED <<input, groups, w, auto_fit_max, configs>>

Probe ==
  /\ pc \in {"fit_search", "check_search"} /\ search.left <= search.right
  /\ LET mid == (search.left + search.right) \div 2 IN
       /\ max_model_len' = mid
       /\ search' = IF Fits(w, mid) THEN [search EXCEPT !.result = mid, !.left = mid + 1]
                    ELSE [search EXCEPT !.right = mid - 1]
  /\ UNCHANGED <<input, pc, groups, w, auto_fit_max, configs>>

\* Fault: the configuration keeps the last length probed.
SearchEndsUnrestored ==
  /\ pc \in {"fit_search", "check_search"} /\ search.left > search.right
  /\ IF pc = "fit_search"
     THEN /\ auto_fit_max' = Smaller(auto_fit_max, search.result)
          /\ w' = w + 1 /\ pc' = "fit"
     ELSE UNCHANGED <<auto_fit_max, w>> /\ pc' = "failed"
  /\ search' = NoSearch
  /\ UNCHANGED <<input, max_model_len, groups, configs>>

(* The length is restored; after a check the estimate is only a message.   *)
SearchEnds ==
  /\ pc \in {"fit_search", "check_search"} /\ search.left > search.right
  /\ IF pc = "fit_search"
     THEN /\ auto_fit_max' = Smaller(auto_fit_max, search.result)
          /\ w' = w + 1 /\ pc' = "fit"
     ELSE UNCHANGED <<auto_fit_max, w>> /\ pc' = "failed"
  /\ search' = NoSearch /\ max_model_len' = search.original
  /\ UNCHANGED <<input, groups, configs>>

\* Fault: a length of zero is taken like any other.
FittedAnyway ==
  /\ pc = "fit" /\ w \notin Workers
  /\ max_model_len' = auto_fit_max
  /\ pc' = "check" /\ w' = 1
  /\ UNCHANGED <<input, groups, search, auto_fit_max, configs>>

(* _auto_fit_max_model_len, all workers searched.                          *)
Fitted ==
  /\ pc = "fit" /\ w \notin Workers
  /\ max_model_len' = IF auto_fit_max > 0 THEN auto_fit_max ELSE max_model_len
  /\ pc' = IF auto_fit_max > 0 THEN "check" ELSE "failed"
  /\ w' = 1
  /\ UNCHANGED <<input, groups, search, auto_fit_max, configs>>

(* _check_enough_kv_cache_memory, worker by worker.                        *)
Check ==
  /\ pc = "check"
  /\ IF w \in Workers
     THEN IF CheckMemory(w) <= 0 THEN pc' = "failed" /\ w' = w
          ELSE Fits(w, max_model_len) /\ w' = w + 1 /\ pc' = pc
     ELSE pc' = "plan" /\ w' = 1
  /\ UNCHANGED <<input, max_model_len, groups, search, auto_fit_max, configs>>

(* Every layer of the worker is in a group, and the layout can hold them.  *)
LayerCount(gs) == Sum(LAMBDA k : Len(gs[k].layers), DOMAIN gs)
Assigned(v) == LayerCount(groups[v]) = Cardinality(input.owned[v])

Plan ==
  /\ pc = "plan" /\ w \in Workers
  /\ IF Assigned(w) /\ (groups[w] # <<>> => LayoutExpresses(input.layout, groups[w]))
     THEN /\ configs' = Append(configs, ConfigFromGroups(groups[w], Available(w)))
          /\ w' = w + 1 /\ pc' = pc
     ELSE pc' = "failed" /\ UNCHANGED <<w, configs>>
  /\ UNCHANGED <<input, max_model_len, groups, search, auto_fit_max>>

\* Fault: the larger pools are cut to size, their strides left as they were.
ShrinkStale ==
  /\ pc = "plan" /\ w \notin Workers
  /\ LET least == Min({configs[v].num_blocks : v \in Workers}) IN
     configs' = [v \in Workers |->
                   [configs[v] EXCEPT !.num_blocks = least,
                                      !.size = (@ \div configs[v].num_blocks) * least]]
  /\ pc' = "done"
  /\ UNCHANGED <<input, max_model_len, groups, w, search, auto_fit_max>>

(* The smallest pool for all: larger ones are laid out again.              *)
Shrink ==
  /\ pc = "plan" /\ w \notin Workers
  /\ LET least == Min({configs[v].num_blocks : v \in Workers}) IN
     configs' = [v \in Workers |->
                   IF configs[v].num_blocks = least THEN configs[v]
                   ELSE ConfigFromGroups(groups[v], least * BytesPerBlock(groups[v]))]
  /\ pc' = "done"
  /\ UNCHANGED <<input, max_model_len, groups, w, search, auto_fit_max>>

Next ==
  \/ Group \/ ProbeFirst \/ Probe \/ SearchEnds \/ Fitted \/ Check \/ Plan \/ Shrink

Spec == Init /\ [][Next]_vars

-----------------------------------------------------------------------------
(* Properties.                                                             *)

(* Every variable has the shape the code keeps: pools of at least the null *)
(* block, one per worker planned, and a model length within the original.  *)
TypeOK ==
  /\ pc \in {"group", "fit", "fit_search", "check", "check_search", "plan", "done", "failed"}
  /\ max_model_len \in 1 .. input.len /\ auto_fit_max \in 0 .. input.len
  /\ w \in 1 .. Len(input.owned) + 1
  /\ search \in [left : 0 .. input.len + 1, right : 0 .. input.len,
                  result : 0 .. input.len, original : 0 .. input.len]
  /\ groups = <<>> \/ DOMAIN groups = Workers
  /\ \A v \in DOMAIN configs : configs[v].num_blocks > 0 /\ configs[v].size \in Nat

(* The engine starts only with pools that agree: the ranks have as many    *)
(* blocks, no more than the memory of each (or the override) pays for, and *)
(* besides the null block enough for one request of the length served.     *)
PoolServesOneRequest ==
  pc = "done" =>
    \A v \in Workers :
      /\ configs[v].num_blocks = configs[1].num_blocks
      /\ groups[v] # <<>> =>
           /\ configs[v].size <= Available(v)
           /\ BlocksPerRequest(groups[v], max_model_len, input.in_flight) < configs[v].num_blocks

(* The pages of a worker's layers in its tensors.                          *)
PagesOfConfig(config, owned) ==
  UNION {{[layer |-> t.layers[k], block |-> b, page |-> t.page,
           at |-> t.offset + (k - 1) * t.layer_stride + b * t.block_stride]
            : k \in {j \in DOMAIN t.layers : t.layers[j] \in owned},
              b \in 0 .. config.num_blocks - 1}
           : t \in config.tensors}
Apart(x, y) == x.at + x.page <= y.at \/ y.at + y.page <= x.at
SameGroup(gs, i, j) == \E k \in DOMAIN gs : {i, j} \subseteq ToSet(gs[k].layers)

(* Every layer of a worker has a page for every block of its pool, inside  *)
(* the allocation, and two pages share bytes only if they belong to the    *)
(* same block in different groups: a block is in one group's table.        *)
PagesApart ==
  pc = "done" =>
    \A v \in Workers :
      LET pages == PagesOfConfig(configs[v], input.owned[v]) IN
      /\ {<<x.layer, x.block>> : x \in pages}
           = input.owned[v] \X (0 .. configs[v].num_blocks - 1)
      /\ \A x \in pages : x.at >= 0 /\ x.at + x.page <= configs[v].size
      /\ \A x, y \in pages :
           \/ x = y \/ Apart(x, y)
           \/ x.block = y.block /\ ~SameGroup(groups[v], x.layer, y.layer)

(* The length served: as configured or, when it is to be fitted, the       *)
(* largest that fits every worker; a start that fails leaves the one       *)
(* configured or the one fitted, whatever the searches tried.              *)
LengthIsLargest ==
  LET all_fit(len) == \A v \in Workers : groups[v] # <<>> => Fits(v, len) IN
  /\ pc = "failed" => max_model_len \in {input.len, auto_fit_max}
  /\ pc = "done" =>
       /\ all_fit(max_model_len)
       /\ max_model_len # input.len =>
            input.auto /\ \A len \in max_model_len + 1 .. input.len : ~all_fit(len)
===============================================================================
