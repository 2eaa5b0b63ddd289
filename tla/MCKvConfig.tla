------------------------------ MODULE MCKvConfig ------------------------------
(***************************************************************************)
(* Models of every kind of group on two workers, in tensor or in pipeline  *)
(* parallel, with pages of 1 to 8 units; and the geometry of               *)
(* DeepSeek-V4.1, in units of 64 bytes, against the sizes that             *)
(* kvgroup/sim_kvgroup.py expects and kvgroup/README.md reports.           *)
(***************************************************************************)
EXTENDS KvConfig

Layer(kind, page, block, window) ==
  [kind |-> kind, page |-> page, block |-> block, window |-> window]
Times(n, specs) == FlattenSeq([k \in 1 .. n |-> specs])

Full == Layer("full", 2, 2, 0)
Window == Layer("window", 2, 2, 3)
Models ==
  {\* DeepSeek-V4.1 in small: pairs at two ratios, windows of one page
   Times(2, <<Layer("mla", 4, 4, 0), Layer("mla", 1, 4, 0), Layer("window_mla", 4, 2, 3)>>)
     \o <<Layer("mla", 4, 2, 0), Layer("mla", 1, 2, 0), Layer("window_mla", 4, 2, 5)>>,
   <<>>,
   <<Full, Full>>,
   <<Full, Layer("full", 1, 2, 0)>>,
   Times(2, <<Full, Window>>) \o <<Window>>,
   <<Full, Layer("window", 4, 2, 3), Window, Layer("hidden", 2, 2, 0)>>,
   <<Full, Layer("window", 3, 2, 3), Layer("full", 2, 2, 4)>>,
   <<Layer("mla", 3, 1, 0), Layer("window", 4, 2, 3)>>,
   <<Layer("mla", 3, 1, 0), Layer("window", 4, 2, 3), Layer("window_mla", 4, 2, 3)>>,
   Times(3, <<Layer("mamba", 3, 8, 0)>>) \o <<Layer("full", 6, 2, 0)>>,
   \* unequal pages among the windows: the split loses a layer
   <<Layer("full", 8, 2, 0), Window, Window, Window, Layer("window", 4, 2, 3),
     Layer("window", 4, 2, 3)>>}

Layouts == {[outermost |-> TRUE, block_compact |-> TRUE, layer_compact |-> FALSE],
            [outermost |-> FALSE, block_compact |-> TRUE, layer_compact |-> TRUE]}

(* Both workers hold all layers, or the first holds the front half or none.*)
Splits(n) ==
  {<<1 .. n, 1 .. n>>, <<1 .. n \div 2, n \div 2 + 1 .. n>>, <<{}, 1 .. n>>}

MCInputs ==
  UNION {{[specs |-> specs, owned |-> owned, memory |-> memory, override |-> o[1],
           len |-> 9, auto |-> o[2], hybrid_off |-> o[3], fine |-> fine,
           layout |-> layout, in_flight |-> 2]
            : owned \in Splits(Len(specs)), layout \in Layouts, fine \in BOOLEAN,
              o \in {<<0, TRUE, FALSE>>, <<0, FALSE, FALSE>>, <<0, TRUE, TRUE>>,
                     <<9, TRUE, FALSE>>},
              memory \in {<<45, 61>>, <<142, 97>>, <<0, 20>>}}
           : specs \in Models}

-----------------------------------------------------------------------------
(* The check of sim_kvgroup.py: 43 layers, of which 2, 8, 14 and 20 own    *)
(* compressed pages and an indexer, and three are the draft's.             *)

RatioOf(i) == IF i < 2 THEN 0 ELSE IF i < 20 THEN 2 ELSE IF i < 40 THEN 1 ELSE 0
Dsv41 ==
  FlattenSeq([n \in 1 .. 43 |->
    LET i == n - 1 IN
    (IF i \in {2, 8, 14, 20}
     THEN <<Layer("mla", 585, 64 * RatioOf(i), 0), Layer("mla", 135, 64 * RatioOf(i), 0)>>
     ELSE <<>>)
    \o <<Layer("window_mla", 585, 64, IF i < 40 THEN 128 ELSE 192)>>])

(* What the theorems on the grouping ask of a model holds of these.        *)
ASSUME ModelsRegister ==
  ModelOK(Dsv41) /\ \A x \in MCInputs : ModelOK(x.specs)

(* int(num_blocks / blocks of a request * len), len in thousands.          *)
Capacity(fine, klen, in_flight) ==
  LET gs == KvCacheGroups(Dsv41, FALSE, TRUE, fine)
      bytes == BytesPerBlock(gs)
      request == Sum(LAMBDA k : RequestBlocks(gs[k].spec[gs[k].layers[1]], klen * 1000, in_flight),
                     DOMAIN gs)
      scaled == (201326592 \div bytes) * klen
  IN (scaled \div request) * 1000 + ((scaled % request) * 1000) \div request

ASSUME LoggedCapacity ==
  /\ Capacity(FALSE, 300, 16384) = 2561073
  /\ Capacity(FALSE, 1000, 16384) = 3411140
  /\ Capacity(FALSE, 1000, 32768) = 2990822
  /\ Capacity(TRUE, 300, 32768) = 2476851
  /\ Capacity(TRUE, 1000, 16384) = 5569675
===============================================================================
