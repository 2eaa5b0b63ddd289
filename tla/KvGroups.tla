------------------------------- MODULE KvGroups -------------------------------
(***************************************************************************)
(* KV-cache groups (patches/kvgroup/kv_cache_utils.py): the layers of a    *)
(* model are split into groups that share a block table, and all groups    *)
(* draw their blocks from one pool.  Pure operators; KvConfig runs them.   *)
(*                                                                         *)
(* Layers are numbered in the order they register.  A spec is              *)
(* [kind, page, block, window]: page_size_bytes, block_size in tokens and  *)
(* sliding window (0: none).  Specs arrive without padding.  A group is    *)
(* [layers, spec, per_layer]: its layers in order, the spec of each, and   *)
(* whether it holds one per layer (UniformTypeKVCacheSpecs) or one for     *)
(* all.  What a layer needs is vLLM's: UniformType, Mergeable and          *)
(* RequestBlocks.                                                          *)
(***************************************************************************)
EXTENDS Integers, SequencesExt

Cdiv(a, b) == (a + b - 1) \div b
Smaller(a, b) == IF a < b THEN a ELSE b
MaxOr0(S) == Max(S \cup {0})
Sum(Op(_), S) == MapThenSumSet(Op, S)

(* What of a list is in a set, in its order.                               *)
Only(list, S) ==
  LET kept[n \in 0 .. Len(list)] ==
        IF n = 0 THEN <<>>
        ELSE IF list[n] \in S THEN Append(kept[n - 1], list[n]) ELSE kept[n - 1]
  IN kept[Len(list)]

Ordered(S) == Only([k \in 1 .. MaxOr0(S) |-> k], S)

(* names[i::n], counted from 1.                                            *)
Every(names, i, n) ==
  [k \in 1 .. Cdiv(Len(names) - i + 1, n) |-> names[i + (k - 1) * n]]

IsFull(s) == s.kind \in {"full", "mla"}
IsWindow(s) == s.kind \in {"window", "window_mla"}
Family(s) == IF IsFull(s) THEN "full" ELSE IF IsWindow(s) THEN "window" ELSE s.kind

UniformType(specs) ==
  \A i, j \in DOMAIN specs :
    /\ specs[i].block = specs[j].block
    /\ Family(specs[i]) = Family(specs[j])
    /\ IsFull(specs[i]) \/ specs[i].window = specs[j].window

Mergeable(specs) ==
  \A i, j \in DOMAIN specs :
    /\ [specs[i] EXCEPT !.window = 0] = [specs[j] EXCEPT !.window = 0]
    /\ \/ specs[i].window = specs[j].window
       \/ IsFull(specs[i]) /\ 0 \in {specs[i].window, specs[j].window}

(* Blocks of a group's table that one request of length len may hold.      *)
RequestBlocks(s, len, in_flight) ==
  CASE s.kind = "mamba"  -> 1
    [] IsWindow(s)       -> Cdiv(Smaller(s.window - 1 + in_flight, len), s.block) + 1
    [] OTHER             -> Cdiv(len, s.block)

-----------------------------------------------------------------------------
(* Groups of one spec, of one type, and of nothing: from_specs of no layer *)
(* raises, as does a model whose pages cannot be unified.                  *)

UniformGroup(specs, names) ==
  [layers |-> names, spec |-> [i \in ToSet(names) |-> specs[i]], per_layer |-> TRUE]

MergedGroup(specs, names) ==
  LET window == MaxOr0({specs[i].window : i \in ToSet(names)}) IN
  [layers |-> names, per_layer |-> FALSE,
   spec |-> [i \in ToSet(names) |-> [specs[names[1]] EXCEPT !.window = window]]]

Raise == <<UniformGroup(<<>>, <<>>)>>

PageSizes(specs) == {specs[i].page : i \in DOMAIN specs}

(* What registers: a window has a length; a token of a window or of hidden *)
(* states has bytes; and hidden states come with other layers.             *)
LayerSpecs ==
  {s \in [kind : {"full", "mla", "window", "window_mla", "mamba", "hidden"},
          page : Nat \ {0}, block : Nat \ {0}, window : Nat] :
     IsWindow(s) => s.window # 0}

ModelOK(specs) ==
  /\ specs \in Seq(LayerSpecs)
  /\ \A i \in DOMAIN specs :
       IsWindow(specs[i]) \/ specs[i].kind = "hidden" => specs[i].block <= specs[i].page
  /\ (\E i \in DOMAIN specs : specs[i].kind = "hidden")
       => \E i \in DOMAIN specs : specs[i].kind # "hidden"

(* First-fit: each layer joins the first bucket that stays compatible.     *)
Buckets(specs, merged) ==
  LET compatible(S) == IF merged THEN Mergeable(S) ELSE UniformType(S)
      fits(bs, i) == {b \in DOMAIN bs : compatible(Restrict(specs, bs[b] \cup {i}))}
      join(bs, i) == IF fits(bs, i) = {} THEN Append(bs, {i})
                     ELSE [bs EXCEPT ![Min(fits(bs, i))] = @ \cup {i}]
  IN FoldLeft(join, <<>>, Ordered(DOMAIN specs))

(* The largest page for all: more tokens per block where it is a multiple, *)
(* else padding, which MLA rows do not allow.                              *)
Unifiable(specs) ==
  LET top == Max(PageSizes(specs)) IN
  \A i \in DOMAIN specs : top % specs[i].page = 0 \/ specs[i].kind # "mla"

UnifyPageSize(specs) ==
  LET top == Max(PageSizes(specs)) IN
  [i \in DOMAIN specs |->
     LET s == specs[i] IN
     IF s.kind # "mamba" /\ top % s.page = 0
     THEN [s EXCEPT !.page = top, !.block = @ * (top \div s.page)]
     ELSE [s EXCEPT !.page = top]]

(* Layers of one spec together, in the order their specs first come.       *)
BySpec(specs, layers) ==
  LET of(i) == {j \in layers : specs[j] = specs[i]}
      firsts == Ordered({Min(of(i)) : i \in layers})
  IN FlattenSeq([k \in DOMAIN firsts |-> Ordered(of(firsts[k]))])

(* Groups of one size, layers[i::n] each: the smallest bucket's size, or   *)
(* the largest's if padding to it wastes less than half.                   *)
UniformPageSizeGroups(specs) ==
  LET buckets == Buckets(specs, TRUE)
      sizes == {Cardinality(buckets[b]) : b \in DOMAIN buckets}
      group_size == IF 2 * Max(sizes) < 3 * Min(sizes) THEN Max(sizes) ELSE Min(sizes)
      split(b) == LET n == Cdiv(Cardinality(buckets[b]), group_size) IN
                  [i \in 1 .. n |-> MergedGroup(specs, Every(BySpec(specs, buckets[b]), i, n))]
  IN FlattenSeq([b \in DOMAIN buckets |-> split(b)])

-----------------------------------------------------------------------------
(* Packing for block-outermost layouts: a block holds one page of every    *)
(* layer of a group, of whatever size.                                     *)

(* The chunk that pads the values least, the larger of two that tie.       *)
ApproximateGcd(values, lower) ==
  LET pad(d) == Sum(LAMBDA k : (d - (values[k] % d)) % d, DOMAIN values)
      sizes == lower .. Max(Range(values))
  IN CHOOSE d \in sizes : \A e \in sizes : pad(d) < pad(e) \/ (pad(d) = pad(e) /\ d >= e)

OfPage(specs, layers, page) == {i \in layers : specs[i].page = page}
PagesOf(specs, layers) == {specs[i].page : i \in layers}
Counts(specs, layers) ==
  {Cardinality(OfPage(specs, layers, p)) : p \in PagesOf(specs, layers)}
Balanced(specs, layers) == Cardinality(Counts(specs, layers)) = 1

(* zip of the layers of each page size: it stops at the shortest.          *)
PatternRepeats(specs, layers) ==
  LET first(p) == Min(OfPage(specs, layers, p))
      pages == {first(p) : p \in PagesOf(specs, layers)}
  IN [k \in 1 .. Min(Counts(specs, layers)) |->
        [q \in 1 .. Cardinality(pages) |->
           Ordered(OfPage(specs, layers, specs[Ordered(pages)[q]].page))[k]]]

RepeatsPerGroup(specs, buckets, fine) ==
  LET balanced == Only(buckets, {b \in ToSet(buckets) : Balanced(specs, b)})
      mixed == {b \in ToSet(balanced) : Cardinality(PagesOf(specs, b)) > 1}
      repeats == [k \in DOMAIN balanced |-> Max(Counts(specs, balanced[k]))]
  IN IF mixed = {} THEN 0
     ELSE ApproximateGcd(repeats, IF fine THEN 1
                                  ELSE Max(UNION {Counts(specs, b) : b \in mixed}))

PackedGroups(specs, fine) ==
  LET buckets == Buckets(specs, FALSE)
      repeats == RepeatsPerGroup(specs, buckets, fine)
      first(b) == specs[Min(b)]
      pattern_groups(b) == IF Balanced(specs, b) /\ repeats # 0
                           THEN Cdiv(Max(Counts(specs, b)), repeats) ELSE 1
      is_state(b) == first(b).kind = "mamba" \/ (repeats = 0 /\ IsWindow(first(b)))
      widest(b, n) == Sum(LAMBDA p : p * Cdiv(Cardinality(OfPage(specs, b, p)), n),
                          PagesOf(specs, b))
      anchor == Max({widest(b, IF is_state(b) THEN Cardinality(b) ELSE pattern_groups(b))
                       : b \in ToSet(buckets)})
      states_per_block(b) == Max({anchor \div first(b).page, 1})
      num_groups(b) == IF is_state(b)
                       THEN Max({pattern_groups(b),
                                 Cdiv(Cardinality(b), states_per_block(b))})
                       ELSE pattern_groups(b)
      groups(b) ==
        LET n == num_groups(b) IN
        IF n = 1 THEN <<UniformGroup(specs, Ordered(b))>>
        ELSE [i \in 1 .. n |->
                UniformGroup(specs, FlattenSeq(Every(PatternRepeats(specs, b), i, n)))]
  IN FlattenSeq([k \in DOMAIN buckets |-> groups(buckets[k])])

-----------------------------------------------------------------------------
(* Without the hybrid manager, sliding windows next to full attention are  *)
(* allocated like it, in its blocks if those have one size; those of MLA   *)
(* become MLA.                                                             *)
Promoted(specs) ==
  LET blocks == {specs[i].block : i \in {j \in DOMAIN specs : IsFull(specs[j])}}
      block_of(s) == IF Cardinality(blocks) = 1 THEN Max(blocks) ELSE s.block
      promote(s) == [s EXCEPT !.kind = IF s.kind = "window" THEN "full" ELSE "mla",
                              !.block = block_of(s),
                              !.page = (@ * block_of(s)) \div s.block]
  IN IF Mergeable(specs) \/ UniformType(specs) \/ blocks = {} THEN specs
     ELSE [i \in DOMAIN specs |->
             IF IsWindow(specs[i]) THEN promote(specs[i]) ELSE specs[i]]

Unified(specs) == Mergeable(specs) \/ UniformType(specs)

(* Pages that cannot be unified: MLA next to regular windows, allocated in *)
(* full.  Refused for hidden states and for windows of MLA.                *)
FallbackGroups(specs) ==
  LET kinds == {specs[i].kind : i \in DOMAIN specs} IN
  IF /\ {"hidden", "window_mla"} \cap kinds = {} /\ {"mla", "window"} \subseteq kinds
     /\ Unified(Promoted(specs)) /\ UniformType(Promoted(specs))
  THEN <<UniformGroup(Promoted(specs), Ordered(DOMAIN specs))>>
  ELSE Raise

(* Hidden states: a group per layer, its block the largest divisor of the  *)
(* groups' that fits the common page.                                      *)
AlignedHidden(specs, i, groups) ==
  LET common == groups[1].spec[groups[1].layers[1]].page
      per_token == specs[i].page \div specs[i].block
      sizes == {g.spec[g.layers[1]].block : g \in ToSet(groups)}
      divides(d) == \A size \in sizes : size % d = 0
      limit == Max({common \div per_token, 1})
      block == Max({d \in 1 .. Smaller(Min(sizes), limit) : divides(d)})
      aligned == [specs[i] EXCEPT !.block = block, !.page = common]
  IN MergedGroup([specs EXCEPT ![i] = aligned], <<i>>)

(* get_kv_cache_groups.                                                    *)
KvCacheGroups(registered, hybrid_off, outermost, fine) ==
  LET specs == IF hybrid_off THEN Promoted(registered) ELSE registered
      hidden == {i \in DOMAIN specs : specs[i].kind = "hidden"}
      attn == Restrict(specs, DOMAIN specs \ hidden)
      alone(Group(_)) == [k \in 1 .. Cardinality(hidden) |-> Group(Ordered(hidden)[k])]
  IN CASE hybrid_off /\ ~Unified(specs) -> Raise
       [] DOMAIN specs = {} -> <<>>
       [] DOMAIN specs # {} /\ Mergeable(specs) ->
            <<MergedGroup(specs, Ordered(DOMAIN specs))>>
       [] ~Mergeable(specs) /\ UniformType(specs) ->
            <<UniformGroup(specs, Ordered(DOMAIN specs))>>
       [] ~Unified(specs) /\ outermost /\ Cardinality(PageSizes(attn)) > 1 ->
            PackedGroups(attn, fine) \o alone(LAMBDA i : MergedGroup(specs, <<i>>))
       [] OTHER ->
            IF ~Unifiable(attn) THEN FallbackGroups(specs)
            ELSE LET groups == UniformPageSizeGroups(UnifyPageSize(attn)) IN
                 groups \o alone(LAMBDA i : AlignedHidden(specs, i, groups))
===============================================================================
