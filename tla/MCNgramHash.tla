---- MODULE MCNgramHash ----
(* NgramHash for TLC: prompts that share a block, and one with an image. *)
EXTENDS NgramHash

CONSTANTS r1, r2, b1, b2, b3

MCPrompts == {<<0>>, <<0, 1, 2>>}

MCDeployments ==
  {[slots |-> FALSE, remote |-> TRUE,  preempt |-> 1],
   [slots |-> TRUE,  remote |-> TRUE,  preempt |-> 0],
   [slots |-> TRUE,  remote |-> FALSE, preempt |-> 1]}

Symmetry == Permutations(Requests) \cup Permutations(Blocks)
====
