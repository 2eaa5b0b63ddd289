---- MODULE MCEngramGather ----
(***************************************************************************)
(* Three heads over two ranks, so the last rank has a padded column; two   *)
(* layers; one or two tokens with repeated and distinct ids.               *)
(***************************************************************************)
EXTENDS EngramGather

MCHeadSizes == <<2, 3, 1>>

MCBatches ==
  {[l \in Layers |-> IF l = 1 THEN <<<<0, 2, 5>>>> ELSE <<<<1, 4, 5>>>>],
   [l \in Layers |-> <<<<0, 3, 5>>, <<0, 4, 5>>>>],
   [l \in Layers |-> IF l = 1 THEN <<<<1, 4, 5>>, <<0, 2, 5>>>> ELSE <<<<1, 2, 5>>, <<1, 3, 5>>>>]}

MCHotSets == {[l \in Layers |-> {}], [l \in Layers |-> IF l = 1 THEN {0, 3} ELSE {2, 5}]}
====
