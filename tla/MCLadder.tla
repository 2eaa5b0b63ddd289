---- MODULE MCLadder ----
(***************************************************************************)
(* Five levers: two decode wins of two settings, which share one and give  *)
(* the other key different values, a decode win that may be skipped, one   *)
(* that loses prefill, and a profile lever.  The ladders run with HOT_ROWS *)
(* = 100000000, the value of HOT's second setting; the script's text has   *)
(* ${HOT_ROWS:-20000000}, which the nodes' shells make 20000000.           *)
(***************************************************************************)
EXTENDS Ladder

MCSettings ==
  [ROCEMAX512K |-> <<<<"ROCE", "1">>, <<"ROCE_MAX", "512KB">>>>,
   ROCEMAX8M   |-> <<<<"ROCE", "1">>, <<"ROCE_MAX", "8MB">>>>,
   HOT         |-> <<<<"HOT_DIR", "hot90">>, <<"HOT_ROWS", "100M">>>>,
   K7          |-> <<<<"SPEC_K", "7">>>>,
   SERVE1M     |-> <<<<"MAXLEN", "1M">>, <<"SEQS", "8">>>>]

MCLeverText ==
  [MCSettings EXCEPT
     !["HOT"] = <<<<"HOT_DIR", "hot90">>, <<"HOT_ROWS", "${HOT_ROWS:-20M}">>>>]

MCMetrics == {"c1", "c6", "prefill"}
MCBenches ==
  [label \in DOMAIN MCSettings \cup {"G0"} |->
     {MCMetrics} \cup (IF label = "ROCEMAX8M" THEN {{"c1", "prefill"}} ELSE {})]

(* RoCE helps one stream, the hot set six and less with fewer rows; k = 7  *)
(* costs prefill.  With ACCEPT_PCT = 5, the larger RoCE buffer is rejected *)
(* on top of the smaller one, and taken by the 3 % of stack_next.          *)
MCPerf(env) ==
  [c1 |-> 100 + (CASE env["ROCE_MAX"] = "512KB" -> 10
                   [] env["ROCE_MAX"] = "8MB" -> 14 [] OTHER -> 0)
              + (IF env["SPEC_K"] = "7" THEN 5 ELSE 0),
   c6 |-> 200 + (CASE env["HOT_ROWS"] = "100M" -> 12
                   [] env["HOT_ROWS"] = "${HOT_ROWS:-20M}" -> 8 [] OTHER -> 0)
              - (IF env["MAXLEN"] = "1M" THEN 10 ELSE 0),
   prefill |-> 1000 - (IF env["SPEC_K"] = "7" THEN 100 ELSE 0)]

MCFirst == {<<"ROCEMAX512K", "ROCEMAX8M">>, <<"HOT">>}

MCRelaunches ==
  {[wait |-> "ROCEMAX8M", xapply |-> <<>>, levers |-> <<"K7">>],
   [wait |-> "HOT", xapply |-> <<<<"NCCL_CH", "8">>>>, levers |-> <<"K7">>],
   [wait |-> "LADDER-DONE", xapply |-> <<>>, levers |-> <<"SERVE1M">>]}

(* By hand: a win of the other line that may be applied already and a new  *)
(* setting are accepted; a setting of the profile is dropped.              *)
MCHandSettings == {<<<<"NCCL_CH", "8">>, <<"ASYNC", "1">>>>}
MCHandPrefixes == {{"MAXLEN"}}
====
