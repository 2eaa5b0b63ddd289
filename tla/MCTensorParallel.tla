--------------------------- MODULE MCTensorParallel ---------------------------
(***************************************************************************)
(* Four ranks, blocks of 4 columns in tiles of 2: 24 columns are cut in    *)
(* 4, 8, 8 and 4, as the 2304 of DeepSeek-V4.1 in 512, 640, 640 and 512;   *)
(* or an expert per rank.  Decoding over RoCE, prefill too large for it,   *)
(* and sequence parallelism with uneven shards.                            *)
(***************************************************************************)
EXTENDS TensorParallel

Tensors(experts) ==
  FlattenSeq([e \in 1 .. experts |->
    FlattenSeq([s \in 1 .. 3 |->
      [x \in 1 .. 3 |-> [expert |-> e - 1, shard |-> <<"w1", "w2", "w3">>[s],
                         suffix |-> <<"suh", "svh", "trellis">>[x]]]])])

Flags(on) ==
  [f \in {"tp", "custom", "pcie_b12x", "roce", "flashinfer", "flashinfer_pcie",
          "batch_invariant", "symm_mem", "symm_ag_rs"} |-> f \in on]
MCEnv(on, disabled, wanted) ==
  Flags(on) @@ [disabled |-> disabled, woproj |-> [r \in Ranks |-> r \in wanted]]

Accepts(ar) == [all_reduce |-> ar \cup {"PYNCCL"}, all_gather |-> ar \cup {"PYNCCL"}]

Item(op, dim, rows, sizes) == [op |-> op, dim |-> dim, rows |-> rows, sizes |-> sizes]
Layer(op) == Item(op, 0, 1, <<>>)
Dense == <<Layer("o_proj"), Layer("moe"), Layer("o_proj"), Item("all_gather", 1, 1, <<>>)>>
Parallel ==
  <<Layer("o_proj"), Item("reduce_scatterv", 0, 0, <<2, 1, 1, 1>>),
    Item("all_gatherv", 0, 0, <<2, 1, 1, 1>>), Layer("moe"),
    Item("reduce_scatterv", 0, 1, <<>>), Item("all_gatherv", 0, 1, <<1, 1, 1, 1>>),
    Item("all_gather", 0, 1, <<>>), Item("reduce_scatter", 0, 1, <<>>)>>

Cut == [even |-> 6, tp_size |-> 4, checkpoint |-> Tensors(2), routed |-> {0, 1},
        expert_map |-> [r \in Ranks |-> [e \in 0 .. 1 |-> e]]]
Spread == [even |-> 8, tp_size |-> 1, checkpoint |-> Tensors(4), routed |-> {0, 2, 3},
           expert_map |-> [r \in Ranks |-> [e \in 0 .. 3 |-> IF e = r THEN 0 ELSE -1]]]

Ran(env, accepts, program, linears, mxfp8) ==
  [env |-> env, accepts |-> accepts, program |-> program, linears |-> linears,
   mxfp8 |-> mxfp8, reduce_results |-> program = Dense]

Both == {"wo_a", "wo_b"}
Runs ==
  {Ran(MCEnv({"tp", "custom", "roce"}, {}, Ranks), Accepts({"B12X"}), Dense,
       <<"wo_a", "wo_b">>, Both),
   Ran(MCEnv({"tp", "custom", "roce", "flashinfer"}, {"B12X"}, Ranks \ {2}),
       Accepts({"B12X", "CUSTOM", "NCCL_SYMM_MEM"}), Dense, <<"wo_b", "wo_a">>, Both),
   Ran(MCEnv({"tp", "custom", "flashinfer", "flashinfer_pcie"}, {}, Ranks),
       Accepts({"FLASHINFER", "FLASHINFER_PCIE_IPC"}), Dense, <<"wo_a", "wo_b">>, {"wo_a"}),
   Ran(MCEnv({"tp", "symm_mem", "symm_ag_rs"}, {}, Ranks), Accepts({"SYMM_MEM"}),
       Parallel, <<"wo_b", "wo_a">>, Both),
   Ran(MCEnv({"tp", "batch_invariant"}, {}, {}), Accepts({}), Parallel,
       <<"wo_a", "wo_b">>, Both)}

(* An expert per rank only where vLLM scatters and gathers by itself.      *)
MCSetups == {ran @@ Cut : ran \in Runs}
            \cup {ran @@ Spread : ran \in {x \in Runs : ~x.reduce_results}}
===============================================================================
