------------------------------- MODULE Exl3Moe -------------------------------
(***************************************************************************)
(* Routed experts of an EXL3 checkpoint over tensor- or expert-parallel    *)
(* ranks (patches/exl3_moe.py): how a rank cuts the intermediate dimension *)
(* and copies each checkpoint tensor into the fused parameters, and what   *)
(* its partial sum then holds.  Pure operators; TensorParallel runs them.  *)
(*                                                                         *)
(* A tensor is [expert, shard, suffix]; a slot of a parameter holds the    *)
(* columns it was copied from, column j being slot.from + j.  Trellises    *)
(* are cut in tiles of 16 columns, the kernel takes blocks of 128.         *)
(***************************************************************************)
EXTENDS Integers, SequencesExt

CONSTANTS TILE, BLOCK

ASSUME TilesOfBlock == TILE \in Nat \ {0} /\ BLOCK \in Nat \ {0} /\ BLOCK % TILE = 0

Columns(slot) == slot.from .. slot.from + slot.count - 1

\* Fault: the offset is taken as if all ranks were as wide as this one.
TpSplitOwnWidth(even, tp, r) ==
  LET blocks == (even * tp) \div BLOCK
      more == IF r \in 1 .. blocks % tp THEN 1 ELSE 0
      width == IF even % BLOCK = 0 \/ (even * tp) % BLOCK # 0 THEN even
               ELSE (blocks \div tp + more) * BLOCK
  IN [width |-> width, off |-> r * width]

(* Columns of rank r: an equal share if it is whole blocks or the total is *)
(* not; else whole blocks, the remainder on ranks 1, 2, ...                *)
TpSplit(even, tp, r) ==
  LET blocks == (even * tp) \div BLOCK
      base == blocks \div tp
      longer == 1 .. blocks % tp
  IN IF even % BLOCK = 0 \/ (even * tp) % BLOCK # 0
     THEN [width |-> even, off |-> r * even]
     ELSE [width |-> (base + (IF r \in longer THEN 1 ELSE 0)) * BLOCK,
           off |-> (r * base + Cardinality({k \in longer : k < r})) * BLOCK]

ProjOf == [w1 |-> "gate_proj", w3 |-> "up_proj", w2 |-> "down_proj"]

(* _place, on the dimension that is cut: the output of gate and up, the    *)
(* input of down.  A tensor that is not cut has no columns.                *)
Placed(split, proj, suffix) ==
  CASE suffix = "trellis" -> [from |-> TILE * (split.off \div TILE),
                              count |-> TILE * (split.width \div TILE)]
    [] suffix = (IF proj = "down_proj" THEN "suh" ELSE "svh") ->
         [from |-> split.off, count |-> split.width]
    [] OTHER -> [from |-> 0, count |-> 0]

(* load_weights: tensors of the experts this rank has (expert_map -1: not  *)
(* here), in the order of the checkpoint, the local expert's slot each.    *)
LoadWeights(checkpoint, expert_map, split) ==
  LET mine == {i \in DOMAIN checkpoint : expert_map[checkpoint[i].expert] # -1}
      slot(t) == <<expert_map[t.expert], ProjOf[t.shard], t.suffix>>
  IN [s \in {slot(checkpoint[i]) : i \in mine} |-> Placed(split, s[2], s[3])]

(* apply: blocks of experts that are not here are skipped; gate and up     *)
(* give an activation per column, and down sums them over its own.  A      *)
(* column counts only if all slots that scale or transform it are its own. *)
Partial(weights, expert_map, routed) ==
  LET cut(l) == {<<l, "gate_proj", "trellis">>, <<l, "gate_proj", "svh">>,
                 <<l, "up_proj", "trellis">>, <<l, "up_proj", "svh">>,
                 <<l, "down_proj", "trellis">>, <<l, "down_proj", "suh">>}
      here == {e \in routed : expert_map[e] # -1}
      computed(e) == IF /\ cut(expert_map[e]) \subseteq DOMAIN weights
                        /\ Cardinality({weights[s] : s \in cut(expert_map[e])}) = 1
                     THEN Columns(weights[<<expert_map[e], "up_proj", "svh">>])
                     ELSE {-1}
  IN UNION {{<<e, c>> : c \in computed(e)} : e \in here}
===============================================================================
