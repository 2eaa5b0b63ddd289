---------------------------- MODULE TensorParallel ----------------------------
(***************************************************************************)
(* A forward pass of the tensor-parallel ranks.  Each rank loads its share *)
(* of the experts (Exl3Moe), prepares the b12x output projection or falls  *)
(* back to the reference one on its own (patches/woproj/                   *)
(* flashinfer_sparse_woproj.py), and runs the layers at its own pace.      *)
(* Collectives go through roce_cuda_communicator.py, which picks a backend *)
(* on each rank; a rank leaves a collective only when all ranks have made  *)
(* the same call.                                                          *)
(*                                                                         *)
(* vLLM's: the size and type gates of the backends (the same input on all  *)
(* ranks, the same answer), the order of the layers and the sum of the     *)
(* experts' outputs.  A backend that disables itself does so on all ranks. *)
(* The ROCm backends and the all2all managers are left out.                *)
(***************************************************************************)
EXTENDS Exl3Moe

CONSTANTS
  N,                     \* ranks 0 .. N - 1
  Setups                 \* [env, accepts, even, checkpoint, expert_map, routed,
                         \*  tp_size, linears, mxfp8, reduce_results, program]

ASSUME SeveralRanks == N \in Nat /\ N > 1

(* A program is a sequence; sizes, where given, has a size for every rank. *)
(* The linears with a hook are wo_a and wo_b.                              *)
ASSUME SetupsOK ==
  \A s \in Setups :
    /\ Len(s.program) \in Nat /\ DOMAIN s.program = 1 .. Len(s.program)
    /\ \A n \in DOMAIN s.program : s.program[n].sizes = <<>>
                                  \/ DOMAIN s.program[n].sizes = 1 .. N
    /\ s.linears \in Seq({"wo_a", "wo_b"})

(* The checkpoint has all tensors of the experts routed to, an equal share *)
(* is whole tiles, and an expert is cut over all ranks or whole on one.    *)
ASSUME ExpertsOK ==
  \A s \in Setups :
    /\ s.even \in Nat /\ s.even % TILE = 0
    /\ \A e \in s.routed, shard \in DOMAIN ProjOf, suffix \in {"suh", "svh", "trellis"} :
         \E i \in DOMAIN s.checkpoint :
           s.checkpoint[i] = [expert |-> e, shard |-> shard, suffix |-> suffix]
    /\ \/ s.tp_size = N /\ \A r \in 0 .. N - 1, e \in s.routed : s.expert_map[r][e] # -1
       \/ /\ s.tp_size = 1
          /\ \A e \in s.routed : \E r \in 0 .. N - 1 : \A q \in 0 .. N - 1 :
               s.expert_map[q][e] # -1 <=> q = r

VARIABLES
  setup,                 \* what is served and how, the same for all ranks but
                         \* for expert_map and env.woproj
  weights,               \* expert parameters of each rank
  woproj,                \* b12x output projection of each rank
  place,                 \* -1: to load, 0: to process weights, or the item
  calls,                 \* collectives each rank has entered
  scratch                \* symmetric buffers of each rank: role and size

vars == <<setup, weights, woproj, place, calls, scratch>>

Ranks == 0 .. N - 1
Program == setup.program
Env == setup.env
NotWaiting(r) == place[r] \in DOMAIN Program /\ Len(calls[r]) < place[r]

-----------------------------------------------------------------------------
(* The communicator.                                                       *)

(* __init__: b12x over PCIe or RoCE displaces FlashInfer, and vLLM's own   *)
(* reduction unless it is disabled.                                        *)
Present ==
  LET custom == Env.tp /\ Env.custom
      b12x == custom /\ (Env.pcie_b12x \/ Env.roce)
      flashinfer(flag) == Env.tp /\ flag /\ ~Env.batch_invariant /\ ~b12x
  IN {"PYNCCL"}
     \cup {b \in {"B12X"} : b12x}
     \cup {b \in {"FLASHINFER"} : flashinfer(Env.flashinfer)}
     \cup {b \in {"FLASHINFER_PCIE_IPC"} : flashinfer(Env.flashinfer_pcie)}
     \cup {b \in {"CUSTOM"} : custom /\ (~b12x \/ "B12X" \in Env.disabled)}
     \cup {b \in {"SYMM_MEM"} : Env.tp /\ Env.symm_mem}

Usable(op) == (Present \ Env.disabled) \cap setup.accepts[op]

(* all_reduce: the first that takes the input.  FlashInfer, where it would *)
(* be used, comes before NCCL's symmetric memory.                          *)
AllReduceBackend ==
  LET nccl_symm == "NCCL_SYMM_MEM" \in setup.accepts["all_reduce"]
                   /\ "FLASHINFER" \notin Usable("all_reduce")
      chain == <<"B12X", "NCCL_SYMM_MEM", "FLASHINFER_PCIE_IPC", "FLASHINFER",
                 "CUSTOM", "SYMM_MEM", "PYNCCL">>
      takes(b) == b \in Usable("all_reduce") \/ (b = "NCCL_SYMM_MEM" /\ nccl_symm)
      first == SelectInSeq(chain, takes)
  IN IF first = 0 THEN "TORCH" ELSE chain[first]

(* One call: its backend, its steps, and the symmetric buffers it needs.   *)
Call(op, backend, steps, buffers) ==
  [op |-> op, backend |-> backend, steps |-> steps, registers |-> buffers]

NoCall == Call("none", "none", <<>>, {})
AllReduceCall == Call("all_reduce", AllReduceBackend, <<"all_reduce">>, {})

(* all_gather: of equal shards; dim 0 may use symmetric memory.            *)
AllGatherCall(item) ==
  LET symm == item.dim = 0 /\ Env.symm_ag_rs
      backend == CASE "B12X" \in Usable("all_gather") -> "B12X"
                   [] "B12X" \notin Usable("all_gather") /\ symm -> "NCCL_SYMM_MEM"
                   [] OTHER -> IF "PYNCCL" \in Env.disabled THEN "TORCH" ELSE "PYNCCL"
  IN Call(item.op, backend, <<"all_gather">>,
          IF backend = "NCCL_SYMM_MEM" THEN {<<"ag_out", item.rows * N>>} ELSE {})

Uneven(sizes) == \E q, s \in DOMAIN sizes : sizes[q] # sizes[s]
OwnRows(r, item) == IF item.sizes = <<>> THEN item.rows ELSE item.sizes[r + 1]

\* Fault: shards of several sizes go through symmetric memory.
AllGathervSymm(r, item) ==
  IF Env.symm_ag_rs
  THEN Call(item.op, "NCCL_SYMM_MEM", <<"all_gather">>,
            {<<"ag_out", OwnRows(r, item) * N>>})
  ELSE Call(item.op, "PYNCCL", <<"all_gatherv">>, {})

(* all_gatherv: sizes that are all equal count as none.                    *)
AllGathervCall(r, item) ==
  IF ~Uneven(item.sizes) /\ Env.symm_ag_rs
  THEN Call(item.op, "NCCL_SYMM_MEM", <<"all_gather">>,
            {<<"ag_out", OwnRows(r, item) * N>>})
  ELSE Call(item.op, "PYNCCL",
            IF Uneven(item.sizes) THEN <<"all_gatherv">> ELSE <<"all_gather">>, {})

(* reduce_scatter: of equal shares.                                        *)
ReduceScatterCall(item) ==
  Call(item.op, IF Env.symm_ag_rs THEN "NCCL_SYMM_MEM" ELSE "PYNCCL",
       <<"reduce_scatter">>,
       IF Env.symm_ag_rs THEN {<<"rs_out", item.rows>>, <<"rs_in", item.rows * N>>} ELSE {})

(* reduce_scatterv: symmetric memory only without sizes; with a fixed      *)
(* order asked for, a reduction to rank 0 and a scatter.                   *)
ReduceScattervCall(item) ==
  IF item.sizes = <<>> /\ Env.symm_ag_rs THEN ReduceScatterCall(item)
  ELSE Call(item.op, "PYNCCL",
            CASE Env.batch_invariant /\ N > 2 -> <<"reduce", "scatter">>
              [] ~(Env.batch_invariant /\ N > 2) /\ Uneven(item.sizes) ->
                   <<"reduce_scatterv">>
              [] OTHER -> <<"reduce_scatter">>, {})

(* A buffer the rank has is not registered again.                          *)
Enter(r, call) ==
  /\ calls' = [calls EXCEPT ![r] =
                 Append(@, [call EXCEPT !.registers = @ \ scratch[r]])]
  /\ scratch' = [scratch EXCEPT ![r] = @ \cup call.registers]
  /\ UNCHANGED place

-----------------------------------------------------------------------------
(* The output projection.                                                  *)

(* _woproj_setup: without the flag no hook is installed.                   *)
Fresh(r) == [stashed |-> {}, built |-> FALSE, attempts |-> 0,
             disabled |-> ~Env.woproj[r]]

\* Fault: a build that failed is tried again at the next chance.
TryInitAgain(wo, final, ok) ==
  IF wo.built THEN wo
  ELSE IF wo.stashed # {"wo_a", "wo_b"}
       THEN IF final THEN [wo EXCEPT !.attempts = @ + 1, !.disabled = TRUE] ELSE wo
       ELSE [wo EXCEPT !.attempts = @ + 1, !.built = ok]

(* _woproj_try_init: once, when both payloads are there; missing at the    *)
(* last chance, or the build or its warm-up failing, it is off for good.   *)
TryInit(wo, final, ok) ==
  IF wo.built \/ wo.attempts > 0 THEN wo
  ELSE IF wo.stashed # {"wo_a", "wo_b"}
       THEN IF final THEN [wo EXCEPT !.attempts = 1, !.disabled = TRUE] ELSE wo
       ELSE [wo EXCEPT !.attempts = 1, !.built = ok, !.disabled = ~ok]

(* The hook on a linear: the payload is kept before its kernel repacks it, *)
(* and after wo_b the state is built.                                      *)
Hooked(wo, linear, ok) ==
  LET kept == IF linear \in setup.mxfp8 THEN [wo EXCEPT !.stashed = @ \cup {linear}]
              ELSE wo
  IN IF linear = "wo_b" THEN TryInit(kept, FALSE, ok) ELSE kept

(* The linears of the attention in the order in which they are processed.  *)
HookLinears(wo, ok) ==
  LET after[n \in 0 .. Len(setup.linears)] ==
        IF n = 0 THEN wo ELSE Hooked(after[n - 1], setup.linears[n], ok)
  IN after[Len(setup.linears)]

-----------------------------------------------------------------------------

Init ==
  /\ setup \in Setups
  /\ weights = [r \in Ranks |-> <<>>]
  /\ woproj = [r \in Ranks |-> Fresh(r)]
  /\ place = [r \in Ranks |-> -1]
  /\ calls = [r \in Ranks |-> <<>>]
  /\ scratch = [r \in Ranks |-> {}]

(* load_weights of the experts.  With expert parallelism nothing is cut.   *)
Load(r) ==
  /\ place[r] = -1
  /\ LET split == IF setup.tp_size = 1 THEN [width |-> setup.even, off |-> 0]
                  ELSE TpSplit(setup.even, setup.tp_size, r)
     IN weights' = [weights EXCEPT ![r] =
                      LoadWeights(setup.checkpoint, setup.expert_map[r], split)]
  /\ place' = [place EXCEPT ![r] = 0]
  /\ UNCHANGED <<setup, woproj, calls, scratch>>

(* process_weights_after_loading, linear by linear.                        *)
ProcessWeights(r) ==
  /\ place[r] = 0
  /\ \E ok \in BOOLEAN :
       woproj' = [woproj EXCEPT ![r] = IF @.disabled THEN @ ELSE HookLinears(@, ok)]
  /\ place' = [place EXCEPT ![r] = 1]
  /\ UNCHANGED <<setup, weights, calls, scratch>>

\* Fault: the b12x path leaves the reduction to the linear it replaces.
OProjUnreduced(r) ==
  /\ NotWaiting(r) /\ Program[place[r]].op = "o_proj"
  /\ \E ok \in BOOLEAN :
       woproj' = [woproj EXCEPT ![r] = IF @.disabled THEN @ ELSE TryInit(@, TRUE, ok)]
  /\ IF setup.reduce_results /\ ~woproj'[r].built
     THEN Enter(r, AllReduceCall)
     ELSE Enter(r, NoCall)
  /\ UNCHANGED <<setup, weights>>

(* _o_proj: the last chance to build, then b12x or the reference, each     *)
(* followed by one all-reduce unless the model scatters by itself.         *)
OProj(r) ==
  /\ NotWaiting(r) /\ Program[place[r]].op = "o_proj"
  /\ \E ok \in BOOLEAN :
       woproj' = [woproj EXCEPT ![r] = IF @.disabled THEN @ ELSE TryInit(@, TRUE, ok)]
  /\ IF setup.reduce_results
     THEN Enter(r, AllReduceCall)
     ELSE Enter(r, NoCall)
  /\ UNCHANGED <<setup, weights>>

(* The experts, and their sum over the ranks.                              *)
Moe(r) ==
  /\ NotWaiting(r) /\ Program[place[r]].op = "moe"
  /\ Enter(r, AllReduceCall)
  /\ UNCHANGED <<setup, weights, woproj>>

(* Logits, and the scatters and gathers of sequence parallelism.           *)
Collective(r) ==
  /\ NotWaiting(r)
  /\ LET item == Program[place[r]] IN
     \/ item.op = "all_gather" /\ Enter(r, AllGatherCall(item))
     \/ item.op = "all_gatherv" /\ Enter(r, AllGathervCall(r, item))
     \/ item.op = "reduce_scatter" /\ Enter(r, ReduceScatterCall(item))
     \/ item.op = "reduce_scatterv" /\ Enter(r, ReduceScattervCall(item))
  /\ UNCHANGED <<setup, weights, woproj>>

(* A collective ends when every rank has made the same call.               *)
Leave(r) ==
  /\ place[r] \in DOMAIN Program /\ Len(calls[r]) = place[r]
  /\ LET mine == calls[r][place[r]] IN
     mine.op = "none" \/ \A q \in Ranks : /\ Len(calls[q]) >= place[r]
                                          /\ calls[q][place[r]] = mine
  /\ place' = [place EXCEPT ![r] = @ + 1]
  /\ UNCHANGED <<setup, weights, woproj, calls, scratch>>

Step(r) == Load(r) \/ ProcessWeights(r) \/ OProj(r) \/ Moe(r) \/ Collective(r) \/ Leave(r)

Next == \E r \in Ranks : Step(r)

(* Each rank is a process that runs on unless it waits.                    *)
Fairness == \A r \in Ranks : WF_vars(Step(r))
Spec == Init /\ [][Next]_vars /\ Fairness

-----------------------------------------------------------------------------
(* Properties.                                                             *)

(* A rank enters one call per item, and prepares its output projection at  *)
(* most once: it is built, off, or not yet attempted, and never two.       *)
TypeOK ==
  /\ place \in [Ranks -> -1 .. Len(Program) + 1]
  /\ \A r \in Ranks :
       /\ IF place[r] < 1 THEN calls[r] = <<>> ELSE Len(calls[r]) \in {place[r] - 1, place[r]}
       /\ woproj[r] \in [stashed : SUBSET {"wo_a", "wo_b"}, built : BOOLEAN,
                         attempts : 0 .. 1, disabled : BOOLEAN]
       /\ woproj[r].built => woproj[r].attempts = 1 /\ ~woproj[r].disabled

(* The n-th collectives of any two ranks are one: the same operation, on   *)
(* the same backend, registering the same buffers.  Whether the output     *)
(* projection was built, how many rows a rank has and what it registered   *)
(* before are its own, and must not show: two that differ wait for ever.   *)
CollectivesMatch ==
  \A r, q \in Ranks : \A n \in DOMAIN calls[r] \cap DOMAIN calls[q] :
    calls[r][n] = calls[q][n]

(* The sum of the experts over the ranks that are in it holds each column  *)
(* of each routed expert once, with all its scales: no rank multiplies a   *)
(* column by the scale of another, and none is summed twice or left out.   *)
SumIsWhole ==
  \A n \in DOMAIN Program :
    Program[n].op = "moe" /\ (\A r \in Ranks : Len(calls[r]) = n) =>
      LET sum == [r \in Ranks |-> Partial(weights[r], setup.expert_map[r], setup.routed)]
          total == 0 .. setup.even * setup.tp_size - 1
      IN /\ UNION {sum[r] : r \in Ranks} = setup.routed \X total
         /\ \A r, q \in Ranks : r # q => sum[r] \cap sum[q] = {}

(* Every rank gets through its layers, whatever the others fell back to.   *)
ForwardEnds == <>(\A r \in Ranks : place[r] = Len(Program) + 1)
===============================================================================
