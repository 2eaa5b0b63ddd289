---------------------------- MODULE KvConfig_proofs ---------------------------
(***************************************************************************)
(* Proofs, for every input whose grouping keeps GroupingOK, that the       *)
(* search finds the largest length that fits all workers, that the pools   *)
(* agree and hold a request of that length, and that the pages of a pool   *)
(* lie apart; and, for every model, that the grouping of KvGroups keeps    *)
(* GroupingOK where every worker has a layer in some group.                *)
(***************************************************************************)
EXTENDS KvConfig, FiniteSetTheorems, WellFoundedInduction, TLAPS

Sized == ~Empty(input) /\ ~Starved(input) /\ AllGroups(input) # <<>>
Bytes(v) == BytesPerBlock(groups[v])
Request(v, len) == BlocksPerRequest(groups[v], len, input.in_flight)
Pool(v) == ConfigFromGroups(groups[v], Available(v))

LEMMA DivFacts ==
  ASSUME NEW a \in Nat, NEW b \in Nat \ {0}
  PROVE  /\ a \div b \in Nat /\ a % b \in 0 .. b - 1
         /\ a = b * (a \div b) + (a % b)
OBVIOUS

LEMMA Times ==
  ASSUME NEW b \in Nat, NEW x \in Nat, NEW y \in Nat, x <= y
  PROVE  b * x \in Nat /\ b * y \in Nat /\ b * x <= b * y
<1>1. PICK d \in Nat : y = x + d
  <2>1. y - x \in Nat /\ y = x + (y - x)
    OBVIOUS
  <2> QED BY <2>1
<1>2. b * y = b * x + b * d /\ b * x \in Nat /\ b * d \in Nat
  BY <1>1
<1> QED BY <1>2

LEMMA InputFacts ==
  ASSUME input \in Inputs
  PROVE  /\ Len(input.owned) \in Nat /\ Workers = 1 .. Len(input.owned)
         /\ input.len \in Nat \ {0} /\ input.override \in Nat
         /\ \A v \in Workers : input.memory[v] \in Nat
<1>1. /\ DOMAIN input.owned = 1 .. Len(input.owned) /\ DOMAIN input.memory = DOMAIN input.owned
      /\ input.override \in Nat /\ input.len \in Nat \ {0}
      /\ \A v \in DOMAIN input.memory : input.memory[v] \in Nat
  BY InputsOK
<1> QED BY <1>1 DEF Workers

(* What the contract of the grouping says of the groups at hand.           *)
LEMMA SizeFacts ==
  ASSUME input \in Inputs, Sized, groups = WorkerGroups(input)
  PROVE  \A v \in Workers :
           /\ groups[v] # <<>> /\ Bytes(v) \in Nat \ {0}
           /\ \A len \in 1 .. input.len :
                /\ Request(v, len) \in Nat /\ Request(v, len) = Request(1, len)
                /\ \A more \in len .. input.len : Request(v, len) <= Request(v, more)
<1>1. TAKE v \in Workers
<1>2. v \in DOMAIN input.owned
  BY DEF Workers
<1>3. /\ WorkerGroups(input)[v] # <<>> /\ BytesPerBlock(WorkerGroups(input)[v]) \in Nat \ {0}
      /\ \A len \in 1 .. input.len :
           /\ BlocksPerRequest(WorkerGroups(input)[v], len, input.in_flight) \in Nat
           /\ BlocksPerRequest(WorkerGroups(input)[v], len, input.in_flight)
                = BlocksPerRequest(WorkerGroups(input)[1], len, input.in_flight)
           /\ \A more \in len .. input.len :
                BlocksPerRequest(WorkerGroups(input)[v], len, input.in_flight)
                  <= BlocksPerRequest(WorkerGroups(input)[v], more, input.in_flight)
  BY <1>2, GroupingOK DEF Sized, SizesAgree
<1> QED BY <1>3 DEF Bytes, Request

(* The memory of a plan is a number, and a shorter request fits where a    *)
(* longer one does.                                                        *)
LEMMA FitFacts ==
  ASSUME input \in Inputs, Sized, groups = WorkerGroups(input), NEW v \in Workers
  PROVE  /\ Available(v) \in Nat
         /\ \A len \in 1 .. input.len :
              Fits(v, len) <=> Bytes(v) * Request(v, len) <= Available(v) - Bytes(v)
         /\ \A len \in 1 .. input.len : \A more \in len .. input.len :
              Fits(v, more) => Fits(v, len)
<1>1. /\ groups[v] # <<>> /\ Bytes(v) \in Nat \ {0}
      /\ \A len \in 1 .. input.len :
           /\ Request(v, len) \in Nat
           /\ \A more \in len .. input.len : Request(v, len) <= Request(v, more)
  BY SizeFacts
<1>2. Available(v) \in Nat
  <2>1. input.override \in Nat /\ input.memory[v] \in Nat
    BY InputFacts
  <2>2. input.override * Bytes(v) \in Nat
    BY <1>1, <2>1
  <2> QED BY <2>1, <2>2 DEF Available, Bytes
<1>3. \A len \in 1 .. input.len :
        Fits(v, len) <=> Bytes(v) * Request(v, len) <= Available(v) - Bytes(v)
  BY DEF Fits, MemoryNeeded, CheckMemory, Bytes, Request
<1>4. ASSUME NEW len \in 1 .. input.len, NEW more \in len .. input.len, Fits(v, more)
      PROVE  Fits(v, len)
  <2>1. input.len \in Nat
    BY InputFacts
  <2>2. more \in 1 .. input.len
    BY <2>1
  <2>3. Bytes(v) * Request(v, len) <= Bytes(v) * Request(v, more)
        /\ Bytes(v) * Request(v, len) \in Nat /\ Bytes(v) * Request(v, more) \in Nat
    BY <1>1, <2>2, Times
  <2>4. Bytes(v) * Request(v, more) <= Available(v) - Bytes(v)
    BY <1>3, <1>4, <2>2
  <2> QED BY <1>1, <1>2, <1>3, <2>3, <2>4
<1> QED BY <1>2, <1>3, <1>4

(* A pool laid out in a given memory: of the override's blocks or of those *)
(* the memory has room for.                                                *)
LEMMA LaidOut ==
  ASSUME input \in Inputs, Sized, groups = WorkerGroups(input), NEW v \in Workers,
         NEW memory \in Nat
  PROVE  LET pool == ConfigFromGroups(groups[v], memory) IN
         /\ pool.num_blocks = IF input.override # 0 THEN input.override
                              ELSE memory \div Bytes(v)
         /\ pool.num_blocks \in Nat /\ pool.size = Bytes(v) * pool.num_blocks
<1>1. groups[v] # <<>> /\ Bytes(v) \in Nat \ {0} /\ input.override \in Nat
  BY SizeFacts, InputFacts
<1>2. memory \div Bytes(v) \in Nat
  BY <1>1, DivFacts
<1> QED BY <1>1, <1>2 DEF ConfigFromGroups, Bytes

(* The pool planned for a worker: within its memory, and with a block to   *)
(* spare for a request that fits.                                          *)
LEMMA PoolFacts ==
  ASSUME input \in Inputs, Sized, groups = WorkerGroups(input), NEW v \in Workers
  PROVE  /\ Pool(v).num_blocks \in Nat
         /\ Pool(v).size = Bytes(v) * Pool(v).num_blocks
         /\ Pool(v).size <= Available(v)
         /\ input.override # 0 => Pool(v).num_blocks = input.override
         /\ \A len \in 1 .. input.len : Fits(v, len) => Request(v, len) < Pool(v).num_blocks
<1> DEFINE n == Pool(v).num_blocks
<1>1. /\ groups[v] # <<>> /\ Bytes(v) \in Nat \ {0} /\ input.override \in Nat
      /\ \A len \in 1 .. input.len : Request(v, len) \in Nat
  BY SizeFacts, InputFacts
<1>2. Available(v) \in Nat
  BY FitFacts
<1>3. /\ n = IF input.override # 0 THEN input.override ELSE Available(v) \div Bytes(v)
      /\ n \in Nat /\ Pool(v).size = Bytes(v) * n
  BY <1>2, LaidOut DEF Pool
<1>4. Bytes(v) * n <= Available(v) /\ Available(v) < Bytes(v) * n + Bytes(v)
  <2>1. CASE input.override # 0
    <3>1. Available(v) = input.override * Bytes(v)
      BY <1>1, <2>1 DEF Available, Bytes
    <3>2. n = input.override
      BY <1>3, <2>1
    <3>3. input.override * Bytes(v) = Bytes(v) * input.override
      BY <1>1
    <3> HIDE DEF n
    <3>4. Available(v) = Bytes(v) * n
      BY <3>1, <3>2, <3>3
    <3> QED BY <1>1, <1>2, <3>4
  <2>2. CASE input.override = 0
    <3>1. n = Available(v) \div Bytes(v)
      BY <1>3, <2>2
    <3>2. Available(v) % Bytes(v) \in 0 .. Bytes(v) - 1
          /\ Available(v) = Bytes(v) * (Available(v) \div Bytes(v)) + (Available(v) % Bytes(v))
      BY <1>1, <1>2, DivFacts
    <3>3. Available(v) = Bytes(v) * n + (Available(v) % Bytes(v))
      BY <3>1, <3>2
    <3> DEFINE rest == Available(v) % Bytes(v)
               used == Bytes(v) * n
    <3>4. used \in Nat
      <4>1. n \in Nat /\ Bytes(v) \in Nat
        BY <1>1, <1>3
      <4> HIDE DEF n
      <4> QED BY <4>1
    <3>5. rest \in 0 .. Bytes(v) - 1 /\ Available(v) = used + rest
      BY <3>2, <3>3
    <3> HIDE DEF n, rest, used
    <3>6. used <= Available(v) /\ Available(v) < used + Bytes(v)
      BY <1>1, <1>2, <3>4, <3>5
    <3> QED BY <3>6 DEF used
  <2> QED BY <2>1, <2>2
<1>5. ASSUME NEW len \in 1 .. input.len, Fits(v, len), ~(Request(v, len) < n)
      PROVE  FALSE
  <2>1. Bytes(v) * Request(v, len) <= Available(v) - Bytes(v)
    BY <1>5, FitFacts
  <2> HIDE DEF n
  <2>2. n \in Nat /\ Request(v, len) \in Nat /\ n <= Request(v, len)
    BY <1>1, <1>3, <1>5
  <2>3. Bytes(v) * n <= Bytes(v) * Request(v, len)
        /\ Bytes(v) * n \in Nat /\ Bytes(v) * Request(v, len) \in Nat
    BY <1>1, <2>2, Times
  <2> QED BY <1>1, <1>2, <1>4, <2>1, <2>3
<1> QED BY <1>3, <1>4, <1>5

-----------------------------------------------------------------------------
(* The inductive invariant.                                                *)

Typed ==
  /\ input \in Inputs
  /\ pc \in {"group", "fit", "fit_search", "check", "check_search", "plan", "done", "failed"}
  /\ max_model_len \in 1 .. input.len /\ auto_fit_max \in 0 .. input.len
  /\ w \in 1 .. Len(input.owned) + 1

(* Before the grouping nothing has moved; after it the groups are those of *)
(* the workers, and only with groups is a length fitted or checked.        *)
Grouped ==
  /\ pc = "group" => /\ max_model_len = input.len /\ auto_fit_max = input.len
                     /\ w = 1 /\ configs = <<>>
  /\ pc \notin {"group", "failed"} =>
       groups = WorkerGroups(input) /\ ~Empty(input) /\ ~Starved(input)
  /\ pc \in {"fit", "fit_search", "check", "check_search"} => Sized

(* The length fitted so far fits the workers searched, a longer one not.   *)
AutoFit ==
  /\ pc \in {"fit", "fit_search"} =>
       /\ input.auto
       /\ auto_fit_max > 0 => \A v \in 1 .. w - 1 : Fits(v, auto_fit_max)
       /\ auto_fit_max < input.len => \E v \in 1 .. w - 1 : ~Fits(v, auto_fit_max + 1)
  /\ pc = "fit" => max_model_len = input.len

(* The search: what it has found fits, and nothing beyond its right end.   *)
Searching ==
  pc \in {"fit_search", "check_search"} =>
    /\ w \in Workers
    /\ search \in [left : Nat, right : Nat, result : Nat, original : 1 .. input.len]
    /\ pc = "fit_search" => search.original = input.len
    /\ pc = "check_search" => search.original \in {input.len, auto_fit_max}
    /\ 1 <= search.left /\ search.left <= search.right + 1
    /\ search.right <= search.original /\ search.result <= search.right
    /\ search.result = search.left - 1 \/ (search.left = 1 /\ search.result = 1)
    /\ search.result > 0 => Fits(w, search.result)
    /\ search.right < search.original => ~Fits(w, search.right + 1)

(* The length chosen: the configured one, or the largest for all workers.  *)
Chosen ==
  /\ pc \notin {"fit_search", "check_search"} => max_model_len \in {input.len, auto_fit_max}
  /\ pc \in {"check", "plan", "done"} /\ Sized =>
       \/ max_model_len = input.len
       \/ input.auto /\ \E v \in Workers : ~Fits(v, max_model_len + 1)
  /\ pc = "check" => \A v \in 1 .. w - 1 : Fits(v, max_model_len)
  /\ pc \in {"plan", "done"} /\ Sized => \A v \in Workers : Fits(v, max_model_len)
  /\ pc \in {"plan", "done"} /\ ~Sized => max_model_len = input.len

(* The plans are made of the workers' own groups, in order.                *)
Planned ==
  /\ pc \in {"fit", "fit_search", "check", "check_search"} => configs = <<>>
  /\ pc = "plan" => /\ configs \in Seq({Pool(v) : v \in Workers})
                    /\ Len(configs) = w - 1
                    /\ \A v \in 1 .. w - 1 : configs[v] = Pool(v)

SearchInv == Typed /\ Grouped /\ AutoFit /\ Searching /\ Chosen
ConfigInv == SearchInv /\ Planned /\ PoolServesOneRequest

-----------------------------------------------------------------------------

(* What a step that leaves the groups alone leaves as it is.               *)
LEMMA Unmoved ==
  ASSUME UNCHANGED <<input, groups>>
  PROVE  /\ Workers' = Workers /\ (Sized' <=> Sized)
         /\ \A v, len : Fits(v, len)' <=> Fits(v, len)
         /\ \A v : Pool(v)' = Pool(v) /\ Available(v)' = Available(v)
         /\ \A v, len : Request(v, len)' = Request(v, len)
BY DEF Workers, Sized, Empty, Starved, AllGroups, Fits, MemoryNeeded, CheckMemory, Available,
       Pool, ConfigFromGroups, Request

LEMMA InitInv == Init => ConfigInv
<1> SUFFICES ASSUME Init PROVE ConfigInv
  OBVIOUS
<1>1. /\ input \in Inputs /\ pc = "group" /\ max_model_len = input.len /\ w = 1
      /\ auto_fit_max = input.len /\ configs = <<>>
  BY DEF Init
<1>2. Len(input.owned) \in Nat /\ input.len \in Nat \ {0}
  BY <1>1, InputFacts
<1>3. Typed
  BY <1>1, <1>2 DEF Typed
<1>4. Grouped /\ AutoFit /\ Searching /\ Chosen /\ Planned /\ PoolServesOneRequest
  BY <1>1 DEF Grouped, AutoFit, Searching, Chosen, Planned, PoolServesOneRequest
<1> QED BY <1>3, <1>4 DEF ConfigInv, SearchInv

LEMMA GroupStep ==
  ASSUME SearchInv, Group
  PROVE  SearchInv' /\ Planned'
<1>1. /\ input \in Inputs /\ pc = "group" /\ max_model_len = input.len
      /\ auto_fit_max = input.len /\ w = 1 /\ configs = <<>>
  BY DEF SearchInv, Typed, Grouped, Group
<1>2. Len(input.owned) \in Nat /\ input.len \in Nat \ {0} /\ Workers = 1 .. Len(input.owned)
  BY <1>1, InputFacts
<1>3. /\ input' = input /\ max_model_len' = max_model_len /\ w' = w
      /\ auto_fit_max' = auto_fit_max /\ configs' = configs
      /\ groups' = IF Empty(input) THEN <<>> ELSE WorkerGroups(input)
      /\ pc' = IF Empty(input) \/ Starved(input) THEN "failed"
               ELSE IF AllGroups(input) = <<>> THEN "plan"
               ELSE IF input.auto THEN "fit" ELSE "check"
  <2>1. AllGroups(input) = <<>> => ~Empty(input) /\ ~Starved(input)
    BY DEF Empty, Starved, Range
  <2>2. CASE Empty(input) \/ Starved(input)
    BY <2>1, <2>2 DEF Group
  <2>3. CASE ~(Empty(input) \/ Starved(input)) /\ AllGroups(input) = <<>>
    BY <2>3 DEF Group
  <2>4. CASE ~(Empty(input) \/ Starved(input)) /\ AllGroups(input) # <<>>
    BY <2>4 DEF Group
  <2> QED BY <2>2, <2>3, <2>4
<1>4. Sized' <=> Sized
  BY <1>3 DEF Sized, Empty, Starved, AllGroups
<1>5. Typed'
  BY <1>1, <1>2, <1>3 DEF Typed
<1>6. WorkerGroups(input)' = WorkerGroups(input) /\ (Empty(input)' <=> Empty(input))
      /\ (Starved(input)' <=> Starved(input)) /\ Workers' = Workers
  BY <1>3 DEF WorkerGroups, Empty, Starved, AllGroups, Workers
<1>7. Grouped'
  <2>1. pc' \in {"fit", "check"} => Sized
    BY <1>3 DEF Sized
  <2> QED BY <1>3, <1>4, <1>6, <2>1 DEF Grouped
<1>8. AutoFit'
  BY <1>1, <1>2, <1>3 DEF AutoFit
<1>9. Searching' /\ Planned'
  BY <1>1, <1>3 DEF Searching, Planned
<1>10. Chosen'
  <2>1. pc' = "plan" => ~Sized
    BY <1>3 DEF Sized
  <2> QED BY <1>1, <1>2, <1>3, <1>4, <2>1 DEF Chosen
<1> QED BY <1>5, <1>7, <1>8, <1>9, <1>10 DEF SearchInv

(* The facts a step of the searches and checks starts from.                *)
LEMMA SearchFacts ==
  ASSUME SearchInv, pc \in {"fit", "fit_search", "check", "check_search"}
  PROVE  /\ input \in Inputs /\ Sized /\ groups = WorkerGroups(input)
         /\ Len(input.owned) \in Nat /\ input.len \in Nat \ {0} /\ Workers = 1 .. Len(input.owned)
         /\ \A v \in Workers : \A len \in 1 .. input.len : \A more \in len .. input.len :
              Fits(v, more) => Fits(v, len)
<1>1. input \in Inputs /\ Sized /\ groups = WorkerGroups(input)
  BY DEF SearchInv, Typed, Grouped
<1>2. \A v \in Workers : \A len \in 1 .. input.len : \A more \in len .. input.len :
        Fits(v, more) => Fits(v, len)
  BY <1>1, FitFacts
<1> QED BY <1>1, <1>2, InputFacts

LEMMA ProbeFirstStep ==
  ASSUME SearchInv, ProbeFirst
  PROVE  SearchInv'
<1>1. /\ pc \in {"fit", "check"} /\ w \in Workers
      /\ pc = "check" => ~Fits(w, max_model_len)
      /\ max_model_len' = 1
      /\ search' = IF Fits(w, 1)
                   THEN [left |-> 1, right |-> max_model_len, result |-> 1, original |-> max_model_len]
                   ELSE [left |-> 1, right |-> 0, result |-> 0, original |-> max_model_len]
      /\ pc' = IF pc = "fit" THEN "fit_search" ELSE "check_search"
      /\ UNCHANGED <<input, groups, w, auto_fit_max, configs>>
  BY DEF ProbeFirst, SearchBegins
<1>2. /\ input \in Inputs /\ Sized /\ groups = WorkerGroups(input) /\ Len(input.owned) \in Nat
      /\ input.len \in Nat \ {0} /\ Workers = 1 .. Len(input.owned)
  BY <1>1, SearchFacts
<1>3. /\ Workers' = Workers /\ (Sized' <=> Sized)
      /\ \A v, len : Fits(v, len)' <=> Fits(v, len)
  BY <1>1, Unmoved
<1>4. /\ max_model_len \in 1 .. input.len /\ auto_fit_max \in 0 .. input.len
      /\ max_model_len \in {input.len, auto_fit_max}
      /\ pc = "fit" => max_model_len = input.len
  BY <1>1 DEF SearchInv, Typed, Chosen, AutoFit
<1>5. Typed'
  BY <1>1, <1>2 DEF SearchInv, Typed
<1>6. Grouped'
  <2>1. WorkerGroups(input)' = WorkerGroups(input) /\ (Empty(input)' <=> Empty(input))
        /\ (Starved(input)' <=> Starved(input))
    BY <1>1 DEF WorkerGroups, Empty, Starved, AllGroups
  <2> QED BY <1>1, <1>2, <1>3, <2>1 DEF Grouped, Sized
<1>7. AutoFit'
  BY <1>1, <1>3 DEF SearchInv, AutoFit
<1>8. Searching'
  <2>1. search'.original = max_model_len /\ search'.left = 1
        /\ search' \in [left : Nat, right : Nat, result : Nat, original : 1 .. input.len]
    BY <1>1, <1>2, <1>4
  <2>2. CASE Fits(w, 1)
    <3>1. search'.right = max_model_len /\ search'.result = 1
      BY <1>1, <2>2
    <3> QED BY <1>1, <1>2, <1>3, <1>4, <2>1, <2>2, <3>1 DEF Searching
  <2>3. CASE ~Fits(w, 1)
    <3>1. search'.right = 0 /\ search'.result = 0
      BY <1>1, <2>3
    <3> QED BY <1>1, <1>2, <1>3, <1>4, <2>1, <2>3, <3>1 DEF Searching
  <2> QED BY <2>2, <2>3
<1>9. Chosen'
  BY <1>1 DEF Chosen
<1> QED BY <1>5, <1>6, <1>7, <1>8, <1>9 DEF SearchInv

LEMMA ProbeStep ==
  ASSUME SearchInv, Probe
  PROVE  SearchInv'
<1> DEFINE mid == (search.left + search.right) \div 2
           l == search.left
           r == search.right
           good == search.result
           top == search.original
<1>1. /\ pc \in {"fit_search", "check_search"} /\ l <= r
      /\ max_model_len' = mid
      /\ search' = IF Fits(w, mid) THEN [search EXCEPT !.result = mid, !.left = mid + 1]
                   ELSE [search EXCEPT !.right = mid - 1]
      /\ UNCHANGED <<input, pc, groups, w, auto_fit_max, configs>>
  BY DEF Probe
<1>2. /\ input \in Inputs /\ Sized /\ groups = WorkerGroups(input) /\ Len(input.owned) \in Nat
      /\ input.len \in Nat \ {0} /\ Workers = 1 .. Len(input.owned)
      /\ \A v \in Workers : \A len \in 1 .. input.len : \A more \in len .. input.len :
           Fits(v, more) => Fits(v, len)
  BY <1>1, SearchFacts
<1>3. /\ Workers' = Workers /\ (Sized' <=> Sized)
      /\ \A v, len : Fits(v, len)' <=> Fits(v, len)
  BY <1>1, Unmoved
<1>4. /\ w \in Workers
      /\ search \in [left : Nat, right : Nat, result : Nat, original : 1 .. input.len]
      /\ pc = "fit_search" => top = input.len
      /\ pc = "check_search" => top \in {input.len, auto_fit_max}
      /\ 1 <= l /\ l <= r + 1 /\ r <= top /\ good <= r
      /\ good = l - 1 \/ (l = 1 /\ good = 1)
      /\ good > 0 => Fits(w, good)
      /\ r < top => ~Fits(w, r + 1)
  BY <1>1 DEF SearchInv, Searching
<1>5. /\ l \in Nat /\ r \in Nat /\ good \in Nat /\ top \in 1 .. input.len
      /\ mid \in Nat /\ l <= mid /\ mid <= r
  <2>1. l \in Nat /\ r \in Nat /\ good \in Nat /\ top \in 1 .. input.len
    BY <1>4
  <2> HIDE DEF l, r, good, top
  <2>2. (l + r) \div 2 \in Nat /\ l <= (l + r) \div 2 /\ (l + r) \div 2 <= r
    BY <1>1, <2>1
  <2> QED BY <2>1, <2>2 DEF l, r
<1>6. Typed'
  BY <1>1, <1>2, <1>4, <1>5 DEF SearchInv, Typed
<1>7. Grouped'
  <2>1. WorkerGroups(input)' = WorkerGroups(input) /\ (Empty(input)' <=> Empty(input))
        /\ (Starved(input)' <=> Starved(input))
    BY <1>1 DEF WorkerGroups, Empty, Starved, AllGroups
  <2> QED BY <1>1, <1>2, <1>3, <2>1 DEF Grouped, Sized
<1>8. AutoFit'
  BY <1>1, <1>3 DEF SearchInv, AutoFit
<1>9. Searching'
  <2>1. CASE Fits(w, mid)
    <3>1. /\ search'.left = mid + 1 /\ search'.right = r /\ search'.result = mid
          /\ search'.original = top
      BY <1>1, <1>4, <2>1
    <3>2. mid + 1 \in Nat
      BY <1>5
    <3>3. search' \in [left : Nat, right : Nat, result : Nat, original : 1 .. input.len]
      <4> HIDE DEF mid
      <4> QED BY <1>1, <1>4, <1>5, <2>1, <3>2
    <3> HIDE DEF mid, l, r, good, top
    <3>4. /\ Workers' = Workers /\ w' = w /\ pc' = pc /\ input' = input
          /\ auto_fit_max' = auto_fit_max
      BY <1>1, <1>3
    <3>5. 1 <= mid + 1 /\ mid + 1 <= r + 1 /\ mid = (mid + 1) - 1
      BY <1>5
    <3> QED BY <1>3, <1>4, <1>5, <2>1, <3>1, <3>3, <3>4, <3>5 DEF Searching
  <2>2. CASE ~Fits(w, mid)
    <3>1. /\ search'.left = l /\ search'.right = mid - 1 /\ search'.result = good
          /\ search'.original = top
      BY <1>1, <1>4, <1>5, <2>2
    <3>2. mid - 1 \in Nat
      BY <1>4, <1>5
    <3>3. search' \in [left : Nat, right : Nat, result : Nat, original : 1 .. input.len]
      BY <1>1, <1>4, <2>2, <3>2
    <3> HIDE DEF mid, l, r, good, top
    <3>4. good < mid
      <4>1. CASE good = l - 1
        BY <1>5, <4>1
      <4>2. CASE l = 1 /\ good = 1
        <5>1. good # mid
          BY <1>4, <2>2, <4>2
        <5> QED BY <1>5, <4>2, <5>1
      <4> QED BY <1>4, <4>1, <4>2
    <3>5. /\ Workers' = Workers /\ w' = w /\ pc' = pc /\ input' = input
          /\ auto_fit_max' = auto_fit_max
      BY <1>1, <1>3
    <3>6. (mid - 1) + 1 = mid
      BY <1>5
    <3>7. good <= mid - 1 /\ l <= mid /\ mid - 1 <= top
      BY <1>4, <1>5, <3>4
    <3> QED BY <1>3, <1>4, <2>2, <3>1, <3>3, <3>5, <3>6, <3>7 DEF Searching
  <2> QED BY <2>1, <2>2
<1>10. Chosen'
  BY <1>1 DEF Chosen
<1> QED BY <1>6, <1>7, <1>8, <1>9, <1>10 DEF SearchInv

LEMMA SearchEndsStep ==
  ASSUME SearchInv, SearchEnds
  PROVE  SearchInv'
<1> DEFINE result == search.result
           longest == auto_fit_max
<1>1. /\ pc \in {"fit_search", "check_search"} /\ search.left > search.right
      /\ pc = "fit_search" => /\ auto_fit_max' = Smaller(auto_fit_max, search.result)
                              /\ w' = w + 1 /\ pc' = "fit"
      /\ pc = "check_search" => UNCHANGED <<auto_fit_max, w>> /\ pc' = "failed"
      /\ max_model_len' = search.original
      /\ UNCHANGED <<input, groups, configs>>
  BY DEF SearchEnds
<1>2. /\ input \in Inputs /\ Sized /\ groups = WorkerGroups(input) /\ Len(input.owned) \in Nat
      /\ input.len \in Nat \ {0} /\ Workers = 1 .. Len(input.owned)
      /\ \A v \in Workers : \A len \in 1 .. input.len : \A more \in len .. input.len :
           Fits(v, more) => Fits(v, len)
  BY <1>1, SearchFacts
<1>3. /\ Workers' = Workers /\ (Sized' <=> Sized)
      /\ \A v, len : Fits(v, len)' <=> Fits(v, len)
  BY <1>1, Unmoved
<1>4. /\ w \in Workers
      /\ search \in [left : Nat, right : Nat, result : Nat, original : 1 .. input.len]
      /\ pc = "fit_search" => search.original = input.len
      /\ pc = "check_search" => search.original \in {input.len, auto_fit_max}
      /\ 1 <= search.left /\ search.left <= search.right + 1
      /\ search.right <= search.original /\ result <= search.right
      /\ result = search.left - 1 \/ (search.left = 1 /\ result = 1)
      /\ result > 0 => Fits(w, result)
      /\ search.right < search.original => ~Fits(w, search.right + 1)
  BY <1>1 DEF SearchInv, Searching
<1>5. /\ result \in Nat /\ search.right = result /\ search.original \in 1 .. input.len
      /\ result <= input.len
  <2>1. /\ search.left \in Nat /\ search.right \in Nat /\ result \in Nat
        /\ search.original \in 1 .. input.len
    BY <1>4
  <2>2. search.left = search.right + 1
    BY <1>1, <1>4, <2>1
  <2> QED BY <1>2, <1>4, <2>1, <2>2
<1>6. auto_fit_max \in 0 .. input.len /\ w \in 1 .. Len(input.owned)
  BY <1>2, <1>4 DEF SearchInv, Typed
<1>7. pc = "fit_search" => /\ auto_fit_max' \in {longest, result}
                            /\ auto_fit_max' <= longest /\ auto_fit_max' <= result
  BY <1>1, <1>5, <1>6 DEF Smaller
<1>8. Typed'
  BY <1>1, <1>2, <1>5, <1>6, <1>7 DEF SearchInv, Typed
<1>9. Grouped'
  <2>1. WorkerGroups(input)' = WorkerGroups(input) /\ (Empty(input)' <=> Empty(input))
        /\ (Starved(input)' <=> Starved(input))
    BY <1>1 DEF WorkerGroups, Empty, Starved, AllGroups
  <2> QED BY <1>1, <1>2, <1>3, <2>1 DEF Grouped, Sized
<1>10. AutoFit'
  <2> SUFFICES ASSUME pc = "fit_search" PROVE AutoFit'
    BY <1>1 DEF AutoFit
  <2>1. /\ input.auto
        /\ auto_fit_max > 0 => \A v \in 1 .. w - 1 : Fits(v, auto_fit_max)
        /\ auto_fit_max < input.len => \E v \in 1 .. w - 1 : ~Fits(v, auto_fit_max + 1)
    BY DEF SearchInv, AutoFit
  <2>2. /\ w' = w + 1 /\ pc' = "fit" /\ max_model_len' = input.len /\ input' = input
        /\ search.original = input.len
    BY <1>1, <1>4
  <2> DEFINE new == auto_fit_max'
  <2>3. new \in Nat /\ new <= longest /\ new <= result /\ new \in {longest, result}
        /\ longest <= input.len /\ longest \in Nat
    BY <1>5, <1>6, <1>7
  <2>4. ASSUME new > 0, NEW v \in 1 .. w PROVE Fits(v, new)
    <3>1. CASE v = w
      <4>1. Fits(w, result) /\ new \in 1 .. input.len /\ result \in new .. input.len
        BY <1>4, <1>5, <2>3, <2>4
      <4> QED BY <1>2, <1>4, <3>1, <4>1
    <3>2. CASE v # w
      <4>1. v \in 1 .. w - 1 /\ v \in Workers
        BY <1>2, <1>6, <2>4, <3>2
      <4>2. Fits(v, longest) /\ new \in 1 .. input.len /\ longest \in new .. input.len
        BY <1>5, <2>1, <2>3, <2>4, <4>1
      <4> QED BY <1>2, <4>1, <4>2
    <3> QED BY <3>1, <3>2
  <2>5. ASSUME new < input.len PROVE \E v \in 1 .. w : ~Fits(v, new + 1)
    <3>1. CASE new = longest
      <4>1. PICK v \in 1 .. w - 1 : ~Fits(v, longest + 1)
        BY <2>1, <2>5, <3>1
      <4> QED BY <1>6, <3>1, <4>1
    <3>2. CASE new = result
      <4>1. ~Fits(w, result + 1)
        BY <1>4, <1>5, <2>2, <2>5, <3>2
      <4> QED BY <1>6, <3>2, <4>1
    <3> QED BY <2>3, <3>1, <3>2
  <2>6. w' - 1 = w
    BY <1>6, <2>2
  <2>7. auto_fit_max' > 0 => \A v \in 1 .. w' - 1 : Fits(v, auto_fit_max)'
    BY <1>3, <2>4, <2>6
  <2>8. auto_fit_max' < input.len => \E v \in 1 .. w' - 1 : ~Fits(v, auto_fit_max + 1)'
    BY <1>3, <2>5, <2>6
  <2> QED BY <2>1, <2>2, <2>7, <2>8 DEF AutoFit
<1>11. Searching'
  BY <1>1 DEF Searching
<1>12. Chosen'
  BY <1>1, <1>4 DEF Chosen
<1> QED BY <1>8, <1>9, <1>10, <1>11, <1>12 DEF SearchInv

LEMMA FittedStep ==
  ASSUME SearchInv, Fitted
  PROVE  SearchInv'
<1>1. /\ pc = "fit" /\ w \notin Workers
      /\ max_model_len' = IF auto_fit_max > 0 THEN auto_fit_max ELSE max_model_len
      /\ pc' = IF auto_fit_max > 0 THEN "check" ELSE "failed"
      /\ w' = 1
      /\ UNCHANGED <<input, groups, search, auto_fit_max, configs>>
  BY DEF Fitted
<1>2. /\ input \in Inputs /\ Sized /\ groups = WorkerGroups(input) /\ Len(input.owned) \in Nat
      /\ input.len \in Nat \ {0} /\ Workers = 1 .. Len(input.owned)
  BY <1>1, SearchFacts
<1>3. /\ Workers' = Workers /\ (Sized' <=> Sized)
      /\ \A v, len : Fits(v, len)' <=> Fits(v, len)
  BY <1>1, Unmoved
<1>4. /\ max_model_len = input.len /\ auto_fit_max \in 0 .. input.len
      /\ w \in 1 .. Len(input.owned) + 1 /\ input.auto
      /\ auto_fit_max < input.len => \E v \in 1 .. w - 1 : ~Fits(v, auto_fit_max + 1)
  BY <1>1 DEF SearchInv, Typed, AutoFit
<1>5. 1 .. w - 1 = Workers
  BY <1>1, <1>2, <1>4
<1>6. Typed'
  BY <1>1, <1>2, <1>4 DEF SearchInv, Typed
<1>7. Grouped'
  <2>1. WorkerGroups(input)' = WorkerGroups(input) /\ (Empty(input)' <=> Empty(input))
        /\ (Starved(input)' <=> Starved(input))
    BY <1>1 DEF WorkerGroups, Empty, Starved, AllGroups
  <2> QED BY <1>1, <1>2, <1>3, <2>1 DEF Grouped, Sized
<1>8. AutoFit' /\ Searching'
  BY <1>1 DEF AutoFit, Searching
<1>9. Chosen'
  <2>1. CASE auto_fit_max > 0
    <3>1. max_model_len' = auto_fit_max /\ pc' = "check" /\ auto_fit_max' = auto_fit_max
          /\ input' = input /\ w' = 1
      BY <1>1, <2>1
    <3>2. auto_fit_max = input.len \/ \E v \in Workers : ~Fits(v, auto_fit_max + 1)
      BY <1>2, <1>4, <1>5
    <3> QED BY <1>3, <1>4, <3>1, <3>2 DEF Chosen
  <2>2. CASE ~(auto_fit_max > 0)
    BY <1>1, <1>4, <2>2 DEF Chosen
  <2> QED BY <2>1, <2>2
<1> QED BY <1>6, <1>7, <1>8, <1>9 DEF SearchInv

LEMMA CheckStep ==
  ASSUME SearchInv, Check
  PROVE  SearchInv' /\ (Planned => Planned')
<1>1. /\ pc = "check"
      /\ w \in Workers =>
           \/ pc' = "failed" /\ w' = w
           \/ Fits(w, max_model_len) /\ w' = w + 1 /\ pc' = pc
      /\ w \notin Workers => pc' = "plan" /\ w' = 1
      /\ UNCHANGED <<input, max_model_len, groups, search, auto_fit_max, configs>>
  BY DEF Check
<1>2. /\ input \in Inputs /\ Sized /\ groups = WorkerGroups(input) /\ Len(input.owned) \in Nat
      /\ input.len \in Nat \ {0} /\ Workers = 1 .. Len(input.owned)
  BY <1>1, SearchFacts
<1>3. /\ Workers' = Workers /\ (Sized' <=> Sized)
      /\ \A v, len : Fits(v, len)' <=> Fits(v, len)
  BY <1>1, Unmoved
<1>4. /\ max_model_len \in {input.len, auto_fit_max} /\ w \in 1 .. Len(input.owned) + 1
      /\ \/ max_model_len = input.len
         \/ input.auto /\ \E v \in Workers : ~Fits(v, max_model_len + 1)
      /\ \A v \in 1 .. w - 1 : Fits(v, max_model_len)
  BY <1>1, <1>2 DEF SearchInv, Typed, Chosen
<1>5. Typed'
  BY <1>1, <1>2 DEF SearchInv, Typed
<1>6. Grouped'
  <2>1. WorkerGroups(input)' = WorkerGroups(input) /\ (Empty(input)' <=> Empty(input))
        /\ (Starved(input)' <=> Starved(input))
    BY <1>1 DEF WorkerGroups, Empty, Starved, AllGroups
  <2> QED BY <1>1, <1>2, <1>3, <2>1 DEF Grouped, Sized
<1>7. AutoFit' /\ Searching'
  BY <1>1 DEF AutoFit, Searching
<1>8. Chosen'
  <2>1. CASE w \in Workers
    <3>1. CASE pc' = "failed"
      BY <1>1, <1>4, <3>1 DEF Chosen
    <3>2. CASE Fits(w, max_model_len) /\ w' = w + 1 /\ pc' = pc
      <4>1. w' - 1 = w
        BY <1>4, <3>2
      <4>2. \A v \in 1 .. w : Fits(v, max_model_len)
        BY <1>4, <3>2
      <4> QED BY <1>1, <1>3, <1>4, <3>2, <4>1, <4>2 DEF Chosen
    <3> QED BY <1>1, <2>1, <3>1, <3>2
  <2>2. CASE w \notin Workers
    <3>1. 1 .. w - 1 = Workers
      BY <1>2, <1>4, <2>2
    <3> QED BY <1>1, <1>2, <1>3, <1>4, <2>2, <3>1 DEF Chosen
  <2> QED BY <2>1, <2>2
<1>9. Planned => Planned'
  <2> SUFFICES ASSUME Planned PROVE Planned'
    OBVIOUS
  <2>1. configs' = <<>>
    BY <1>1 DEF Planned
  <2>2. pc' = "plan" => w' = 1
    BY <1>1
  <2> QED BY <2>1, <2>2 DEF Planned
<1> QED BY <1>5, <1>6, <1>7, <1>8, <1>9 DEF SearchInv

(* A step that plans, and any other that changes no length.                *)
LEMMA PlanStep ==
  ASSUME SearchInv, pc = "plan" \/ pc' = pc,
         pc' \in {pc, "done", "failed"}, pc \notin {"group", "fit", "fit_search", "check", "check_search"},
         UNCHANGED <<input, max_model_len, groups, auto_fit_max>>,
         w' \in 1 .. Len(input.owned) + 1
  PROVE  SearchInv'
<1>1. /\ Workers' = Workers /\ (Sized' <=> Sized)
      /\ \A v, len : Fits(v, len)' <=> Fits(v, len)
  BY Unmoved
<1>2. Typed'
  BY DEF SearchInv, Typed
<1>3. Grouped'
  <2>1. WorkerGroups(input)' = WorkerGroups(input) /\ (Empty(input)' <=> Empty(input))
        /\ (Starved(input)' <=> Starved(input))
    BY DEF WorkerGroups, Empty, Starved, AllGroups
  <2> QED BY <2>1 DEF SearchInv, Grouped
<1>4. AutoFit' /\ Searching'
  BY DEF AutoFit, Searching
<1>5. Chosen'
  BY <1>1 DEF SearchInv, Chosen
<1> QED BY <1>2, <1>3, <1>4, <1>5 DEF SearchInv

LEMMA LeastFacts ==
  ASSUME NEW S \in SUBSET Nat, S # {}
  PROVE  Min(S) \in S /\ \A x \in S : Min(S) <= x
<1>1. PICK k \in S : \A j \in S : <<j, k>> \notin OpToRel(<, Nat)
  BY NatLessThanWellFounded, WFMin
<1>2. \A j \in S : k <= j
  <2>1. \A j \in S : ~(j < k)
    BY <1>1 DEF OpToRel
  <2>2. k \in Nat /\ \A j \in S : j \in Nat
    OBVIOUS
  <2> QED BY <2>1, <2>2
<1>3. \E x \in S : \A y \in S : x <= y
  BY <1>2
<1> QED BY <1>3 DEF Min

(* A worker without groups has the null block alone.                       *)
LEMMA NoGroups ==
  ASSUME input \in Inputs, ~Empty(input), ~Starved(input), ~Sized,
         groups = WorkerGroups(input), NEW v \in Workers
  PROVE  groups[v] = <<>> /\ Pool(v).num_blocks = 1
<1>1. AllGroups(input) = <<>>
  BY DEF Sized
<1>2. groups[v] = [k \in DOMAIN AllGroups(input) |-> Project(AllGroups(input)[k], input.owned[v])]
  BY DEF WorkerGroups, Workers
<1>3. groups[v] = <<>>
  BY <1>1, <1>2
<1> QED BY <1>3 DEF Pool, ConfigFromGroups

(* All pools cut to the least, and each laid out for it.                   *)
TensorsOf(gs, bytes, n, outermost) ==
  UNION {GroupTensors(gs[k], bytes, n, outermost) : k \in DOMAIN gs}
Even(v, n) ==
  IF groups[v] = <<>> THEN [num_blocks |-> 1, size |-> 0, tensors |-> {}]
  ELSE [num_blocks |-> n, size |-> Bytes(v) * n,
        tensors |-> TensorsOf(groups[v], Bytes(v), n, input.layout.outermost)]
Evened(n) ==
  \A v \in Workers :
    /\ configs'[v] = Even(v, n) /\ (groups[v] = <<>> => n = 1)
    /\ n <= Pool(v).num_blocks /\ \E u \in Workers : Pool(u).num_blocks = n

(* A pool planned has a block, and one to spare for the request.           *)
LEMMA PoolPositive ==
  ASSUME SearchInv, pc = "plan", NEW v \in Workers
  PROVE  Pool(v).num_blocks \in Nat \ {0} /\ Pool(v).size \in Nat
<1>1. /\ input \in Inputs /\ groups = WorkerGroups(input) /\ ~Empty(input) /\ ~Starved(input)
      /\ max_model_len \in 1 .. input.len
  BY DEF SearchInv, Typed, Grouped
<1>2. CASE ~Sized
  <2>1. groups[v] = <<>>
    BY <1>1, <1>2, NoGroups
  <2> QED BY <2>1 DEF Pool, ConfigFromGroups
<1>3. CASE Sized
  <2>1. /\ Pool(v).num_blocks \in Nat /\ Pool(v).size = Bytes(v) * Pool(v).num_blocks
        /\ \A len \in 1 .. input.len : Fits(v, len) => Request(v, len) < Pool(v).num_blocks
    BY <1>1, <1>3, PoolFacts
  <2>2. Fits(v, max_model_len)
    BY <1>3 DEF SearchInv, Chosen
  <2>3. Bytes(v) \in Nat /\ Request(v, max_model_len) \in Nat
    BY <1>1, <1>3, SizeFacts
  <2>4. Request(v, max_model_len) < Pool(v).num_blocks
    BY <1>1, <2>1, <2>2
  <2> DEFINE n == Pool(v).num_blocks
  <2>5. n \in Nat /\ Pool(v).size = Bytes(v) * n /\ Request(v, max_model_len) < n
    BY <2>1, <2>4
  <2> HIDE DEF n
  <2>6. n \in Nat \ {0} /\ Bytes(v) * n \in Nat
    BY <2>3, <2>5
  <2> QED BY <2>5, <2>6 DEF n
<1> QED BY <1>2, <1>3

(* Whatever the pools were, shrinking gives all the least number of blocks.*)
LEMMA ShrinkEvens ==
  ASSUME SearchInv, Planned, Shrink
  PROVE  \E n \in Nat \ {0} : DOMAIN configs' = Workers /\ Evened(n)
<1> DEFINE S == {Pool(v).num_blocks : v \in Workers}
           least == Min(S)
<1>1. /\ pc = "plan" /\ w \notin Workers
      /\ configs' = [v \in Workers |->
                       IF configs[v].num_blocks = Min({configs[u].num_blocks : u \in Workers})
                       THEN configs[v]
                       ELSE ConfigFromGroups(groups[v],
                              Min({configs[u].num_blocks : u \in Workers}) * BytesPerBlock(groups[v]))]
  BY DEF Shrink
<1>2. /\ input \in Inputs /\ groups = WorkerGroups(input) /\ ~Empty(input) /\ ~Starved(input)
      /\ w \in 1 .. Len(input.owned) + 1
  BY <1>1 DEF SearchInv, Typed, Grouped
<1>3. Len(input.owned) \in Nat /\ Workers = 1 .. Len(input.owned) /\ input.override \in Nat
  BY <1>2, InputFacts
<1>4. \A v \in Workers : configs[v] = Pool(v)
  <2>1. w - 1 = Len(input.owned)
    BY <1>1, <1>2, <1>3
  <2> QED BY <1>1, <1>3, <2>1 DEF Planned
<1>5. {configs[v].num_blocks : v \in Workers} = S
  BY <1>4
<1>6. configs' = [v \in Workers |->
                    IF Pool(v).num_blocks = least THEN Pool(v)
                    ELSE ConfigFromGroups(groups[v], least * BytesPerBlock(groups[v]))]
  BY <1>1, <1>4, <1>5
<1>7. \A v \in Workers : Pool(v).num_blocks \in Nat \ {0}
  BY <1>1, PoolPositive
<1>8. ASSUME Workers # {}
      PROVE  /\ \E u \in Workers : Pool(u).num_blocks = least
             /\ \A v \in Workers : least <= Pool(v).num_blocks
             /\ least \in Nat \ {0}
  <2>1. S \in SUBSET Nat /\ S # {}
    BY <1>7, <1>8
  <2>2. least \in S /\ \A x \in S : least <= x
    <3> HIDE DEF S
    <3> QED BY <2>1, LeastFacts
  <2> HIDE DEF least
  <2> QED BY <1>7, <2>2
<1> HIDE DEF least
<1>9. ASSUME NEW v \in Workers PROVE configs'[v] = Even(v, least) /\ (groups[v] = <<>> => least = 1)
  <2>1. configs'[v] = IF Pool(v).num_blocks = least THEN Pool(v)
                      ELSE ConfigFromGroups(groups[v], least * BytesPerBlock(groups[v]))
    BY <1>6
  <2>2. PICK u \in Workers : Pool(u).num_blocks = least
    BY <1>8
  <2>3. CASE ~Sized
    <3>1. Pool(u).num_blocks = 1 /\ Pool(v).num_blocks = 1 /\ groups[v] = <<>>
      BY <1>2, <2>3, NoGroups
    <3>2. configs'[v] = Pool(v) /\ least = 1
      BY <2>1, <2>2, <3>1
    <3> QED BY <3>1, <3>2 DEF Even, Pool, ConfigFromGroups
  <2>4. CASE Sized
    <3>1. groups[v] # <<>> /\ Bytes(v) \in Nat \ {0}
      BY <1>2, <2>4, SizeFacts
    <3>2. ASSUME NEW memory \in Nat, ConfigFromGroups(groups[v], memory).num_blocks = least
          PROVE  ConfigFromGroups(groups[v], memory) = Even(v, least)
      <4> DEFINE c == ConfigFromGroups(groups[v], memory)
                 m == IF input.override # 0 THEN input.override ELSE memory \div Bytes(v)
      <4>1. c = [num_blocks |-> m, size |-> Bytes(v) * m,
                 tensors |-> TensorsOf(groups[v], Bytes(v), m, input.layout.outermost)]
        BY <3>1 DEF ConfigFromGroups, TensorsOf, Bytes
      <4> HIDE DEF m
      <4>2. m = least
        BY <3>2, <4>1
      <4> QED BY <3>1, <4>1, <4>2 DEF Even
    <3>3. Available(v) \in Nat
      BY <1>2, <2>4, FitFacts
    <3>4. CASE Pool(v).num_blocks = least
      <4>1. Pool(v) = Even(v, least)
        BY <3>2, <3>3, <3>4 DEF Pool
      <4> QED BY <2>1, <3>1, <3>4, <4>1
    <3>5. CASE Pool(v).num_blocks # least
      <4>1. input.override = 0
        <5>1. /\ input.override # 0 => Pool(v).num_blocks = input.override
              /\ input.override # 0 => Pool(u).num_blocks = input.override
          BY <1>2, <2>4, PoolFacts
        <5> QED BY <2>2, <3>5, <5>1
      <4>2. least * Bytes(v) \in Nat /\ (least * Bytes(v)) \div Bytes(v) = least
        BY <1>8, <3>1
      <4>3. ConfigFromGroups(groups[v], least * Bytes(v)).num_blocks = least
        BY <1>2, <2>4, <4>1, <4>2, LaidOut
      <4>4. ConfigFromGroups(groups[v], least * Bytes(v)) = Even(v, least)
        BY <3>2, <4>2, <4>3
      <4> QED BY <2>1, <3>1, <3>5, <4>4 DEF Bytes
    <3> QED BY <3>4, <3>5
  <2> QED BY <2>3, <2>4
<1>10. DOMAIN configs' = Workers
  BY <1>6
<1>11. CASE Workers = {}
  <2>1. Evened(1)
    BY <1>11 DEF Evened
  <2> QED BY <1>10, <2>1
<1>12. CASE Workers # {}
  <2>1. Evened(least) /\ least \in Nat \ {0}
    BY <1>8, <1>9, <1>12 DEF Evened
  <2> QED BY <1>10, <2>1
<1> QED BY <1>11, <1>12

(* The pools that agree on the least number of blocks serve a request.     *)
LEMMA ShrinkServes ==
  ASSUME SearchInv, Planned, Shrink
  PROVE  PoolServesOneRequest'
<1>1. pc = "plan" /\ UNCHANGED <<input, max_model_len, groups>>
  BY DEF Shrink
<1>2. /\ input \in Inputs /\ groups = WorkerGroups(input) /\ ~Empty(input) /\ ~Starved(input)
      /\ max_model_len \in 1 .. input.len
  BY <1>1 DEF SearchInv, Typed, Grouped
<1>3. Workers = 1 .. Len(input.owned) /\ Len(input.owned) \in Nat
  BY <1>2, InputFacts
<1>4. PICK n \in Nat \ {0} : DOMAIN configs' = Workers /\ Evened(n)
  BY ShrinkEvens
<1>5. ASSUME NEW v \in Workers
      PROVE  /\ configs'[v].num_blocks = n
             /\ groups[v] # <<>> => /\ configs'[v].size <= Available(v)
                                    /\ Request(v, max_model_len) < n
  <2>1. /\ configs'[v] = Even(v, n) /\ (groups[v] = <<>> => n = 1)
        /\ n <= Pool(v).num_blocks
    BY <1>4 DEF Evened
  <2>2. CASE groups[v] = <<>>
    BY <2>1, <2>2 DEF Even
  <2>3. CASE groups[v] # <<>>
    <3>1. PICK u \in Workers : Pool(u).num_blocks = n
      BY <1>4 DEF Evened
    <3>2. Sized
      BY <1>2, <2>3, NoGroups
    <3>3. /\ Pool(v).num_blocks \in Nat /\ Pool(v).size = Bytes(v) * Pool(v).num_blocks
          /\ Pool(v).size <= Available(v)
          /\ \A len \in 1 .. input.len : Fits(u, len) => Request(u, len) < Pool(u).num_blocks
      BY <1>2, <3>2, PoolFacts
    <3>4. Bytes(v) \in Nat /\ Available(v) \in Nat
      BY <1>2, <3>2, SizeFacts, FitFacts
    <3>5. Request(v, max_model_len) = Request(u, max_model_len)
      <4>1. \A x \in Workers : Request(x, max_model_len) = Request(1, max_model_len)
        BY <1>2, <3>2, SizeFacts
      <4> QED BY <4>1
    <3>6. Fits(u, max_model_len)
      BY <1>1, <3>2 DEF SearchInv, Chosen
    <3>7. Request(v, max_model_len) < n
      BY <1>2, <3>1, <3>3, <3>5, <3>6
    <3> DEFINE p == Pool(v).num_blocks
    <3>8. p \in Nat /\ n <= p /\ Pool(v).size = Bytes(v) * p
      BY <2>1, <3>3
    <3> HIDE DEF p
    <3>9. Bytes(v) * n <= Bytes(v) * p /\ Bytes(v) * n \in Nat /\ Bytes(v) * p \in Nat
      BY <3>4, <3>8, Times
    <3>10. configs'[v].num_blocks = n /\ configs'[v].size = Bytes(v) * n
      BY <2>1, <2>3 DEF Even
    <3>11. Bytes(v) * n <= Available(v)
      BY <3>3, <3>4, <3>8, <3>9
    <3> QED BY <3>7, <3>10, <3>11
  <2> QED BY <2>2, <2>3
<1>6. ASSUME NEW v \in Workers
      PROVE  /\ configs'[v].num_blocks = configs'[1].num_blocks
             /\ groups'[v] # <<>> =>
                  /\ configs'[v].size <= Available(v)'
                  /\ Request(v, max_model_len)' < configs'[v].num_blocks
  <2>1. 1 \in Workers
    BY <1>3
  <2>2. Available(v)' = Available(v) /\ Request(v, max_model_len)' = Request(v, max_model_len)
        /\ groups' = groups
    BY <1>1, Unmoved
  <2> QED BY <1>5, <2>1, <2>2
<1>7. Workers' = Workers
  BY <1>1, Unmoved
<1> QED BY <1>6, <1>7 DEF PoolServesOneRequest, Request

(* Planning appends the pool of the worker at hand.                        *)
LEMMA PlanPlans ==
  ASSUME SearchInv, Planned, Plan
  PROVE  Planned'
<1>1. /\ pc = "plan" /\ w \in Workers
      /\ \/ configs' = Append(configs, Pool(w)) /\ w' = w + 1 /\ pc' = pc
         \/ pc' = "failed"
      /\ UNCHANGED <<input, max_model_len, groups, search, auto_fit_max>>
  BY DEF Plan, Pool
<1>2. w \in 1 .. Len(input.owned) + 1 /\ Len(input.owned) \in Nat
  BY InputFacts DEF SearchInv, Typed
<1>3. CASE pc' = "failed"
  BY <1>3 DEF Planned
<1>4. CASE configs' = Append(configs, Pool(w)) /\ w' = w + 1 /\ pc' = pc
  <2> DEFINE Pools == {Pool(v) : v \in Workers}
  <2>1. configs \in Seq(Pools) /\ Len(configs) = w - 1 /\ \A v \in 1 .. w - 1 : configs[v] = Pool(v)
    BY <1>1 DEF Planned
  <2>2. Pool(w) \in Pools
    BY <1>1
  <2>3. Workers' = Workers /\ \A v : Pool(v)' = Pool(v)
    BY <1>1, Unmoved
  <2>4. Pools' = Pools
    BY <2>3
  <2> HIDE DEF Pools
  <2>5. configs' \in Seq(Pools) /\ Len(configs') = w
        /\ \A v \in 1 .. w : configs'[v] = Pool(v)
    BY <1>2, <1>4, <2>1, <2>2
  <2>6. w' - 1 = w
    BY <1>2, <1>4
  <2>7. configs' \in Seq(Pools')
    BY <2>4, <2>5
  <2> QED BY <1>1, <1>4, <2>3, <2>5, <2>6, <2>7 DEF Planned, Pools
<1> QED BY <1>1, <1>3, <1>4

LEMMA NextInv == ConfigInv /\ [Next]_vars => ConfigInv'
<1> SUFFICES ASSUME ConfigInv, [Next]_vars PROVE ConfigInv'
  OBVIOUS
<1>1. SearchInv /\ Planned /\ PoolServesOneRequest
  BY DEF ConfigInv
<1>2. CASE Group
  BY <1>1, <1>2, GroupStep DEF ConfigInv, Group, PoolServesOneRequest
<1>3. CASE ProbeFirst
  <2>1. pc' \in {"fit_search", "check_search"} /\ configs' = configs /\ pc \in {"fit", "check"}
    BY <1>3 DEF ProbeFirst, SearchBegins
  <2> QED BY <1>1, <1>3, <2>1, ProbeFirstStep DEF ConfigInv, Planned, PoolServesOneRequest
<1>4. CASE Probe
  <2>1. pc \in {"fit_search", "check_search"} /\ configs' = configs /\ pc' = pc
    BY <1>4 DEF Probe
  <2> QED BY <1>1, <1>4, <2>1, ProbeStep DEF ConfigInv, Planned, PoolServesOneRequest
<1>5. CASE SearchEnds
  <2>1. pc \in {"fit_search", "check_search"} /\ configs' = configs /\ pc' \in {"fit", "failed"}
    BY <1>5 DEF SearchEnds
  <2> QED BY <1>1, <1>5, <2>1, SearchEndsStep DEF ConfigInv, Planned, PoolServesOneRequest
<1>6. CASE Fitted
  <2>1. pc = "fit" /\ configs' = configs /\ pc' \in {"check", "failed"}
    BY <1>6 DEF Fitted
  <2> QED BY <1>1, <1>6, <2>1, FittedStep DEF ConfigInv, Planned, PoolServesOneRequest
<1>7. CASE Check
  <2>1. pc' # "done"
    BY <1>7 DEF Check
  <2> QED BY <1>1, <1>7, <2>1, CheckStep DEF ConfigInv, PoolServesOneRequest
<1>8. CASE Plan
  <2>1. /\ pc = "plan" /\ w \in Workers /\ pc' \in {"plan", "failed"}
        /\ w' = w + 1 \/ w' = w
        /\ UNCHANGED <<input, max_model_len, groups, auto_fit_max>>
    BY <1>8 DEF Plan
  <2>2. w' \in 1 .. Len(input.owned) + 1
    <3>1. Len(input.owned) \in Nat /\ Workers = 1 .. Len(input.owned)
      BY <1>1, InputFacts DEF SearchInv, Typed
    <3> QED BY <2>1, <3>1
  <2>3. SearchInv'
    BY <1>1, <2>1, <2>2, PlanStep
  <2> QED BY <1>1, <1>8, <2>1, <2>3, PlanPlans DEF ConfigInv, PoolServesOneRequest
<1>9. CASE Shrink
  <2>1. /\ pc = "plan" /\ pc' = "done" /\ w' = w
        /\ UNCHANGED <<input, max_model_len, groups, auto_fit_max>>
    BY <1>9 DEF Shrink
  <2>2. w' \in 1 .. Len(input.owned) + 1
    BY <1>1, <2>1 DEF SearchInv, Typed
  <2>3. SearchInv'
    BY <1>1, <2>1, <2>2, PlanStep
  <2> QED BY <1>1, <1>9, <2>1, <2>3, ShrinkServes DEF ConfigInv, Planned
<1>10. CASE UNCHANGED vars
  <2>1. UNCHANGED <<input, pc, max_model_len, groups, w, search, auto_fit_max, configs>>
    BY <1>10 DEF vars
  <2>2. Typed' /\ Grouped' /\ AutoFit' /\ Searching' /\ Chosen' /\ Planned' /\ PoolServesOneRequest'
    <3>1. /\ Workers' = Workers /\ (Sized' <=> Sized)
          /\ \A v, len : Fits(v, len)' <=> Fits(v, len)
          /\ \A v : Pool(v)' = Pool(v) /\ Available(v)' = Available(v)
          /\ \A v, len : Request(v, len)' = Request(v, len)
      BY <2>1, Unmoved
    <3>2. WorkerGroups(input)' = WorkerGroups(input) /\ (Empty(input)' <=> Empty(input))
          /\ (Starved(input)' <=> Starved(input))
      BY <2>1 DEF WorkerGroups, Empty, Starved, AllGroups
    <3>3. Typed' /\ Grouped'
      BY <1>1, <2>1, <3>1, <3>2 DEF SearchInv, Typed, Grouped
    <3>4. AutoFit' /\ Searching'
      BY <1>1, <2>1, <3>1 DEF SearchInv, AutoFit, Searching
    <3>5. Chosen'
      BY <1>1, <2>1, <3>1 DEF SearchInv, Chosen
    <3>6. Planned'
      BY <1>1, <2>1, <3>1 DEF Planned
    <3>7. PoolServesOneRequest'
      BY <1>1, <2>1, <3>1 DEF PoolServesOneRequest, Request
    <3> QED BY <3>3, <3>4, <3>5, <3>6, <3>7
  <2> QED BY <2>2 DEF ConfigInv, SearchInv
<1> QED BY <1>2, <1>3, <1>4, <1>5, <1>6, <1>7, <1>8, <1>9, <1>10 DEF Next

LEMMA Invariant == Spec => []ConfigInv
<1>1. Init => ConfigInv
  BY InitInv
<1>2. ConfigInv /\ [Next]_vars => ConfigInv'
  BY NextInv
<1> QED BY <1>1, <1>2, PTL DEF Spec

-----------------------------------------------------------------------------
(* Sums over a finite set.  An induction is over the set of what has been  *)
(* shown, so that a lemma can state it.                                    *)

LEMMA NatInduct ==
  ASSUME NEW G \in SUBSET Nat,
         \A n \in Nat : (\A m \in Nat : m < n => m \in G) => n \in G
  PROVE  \A n \in Nat : n \in G
<1> SUFFICES ASSUME Nat \ G # {} PROVE FALSE
  OBVIOUS
<1>1. PICK n \in Nat \ G : \A m \in Nat \ G : <<m, n>> \notin OpToRel(<, Nat)
  BY NatLessThanWellFounded, WFMin
<1>2. \A m \in Nat : m < n => m \in G
  BY <1>1 DEF OpToRel
<1> QED BY <1>1, <1>2

LEMMA SetInduct ==
  ASSUME NEW S, IsFiniteSet(S), NEW G,
         \A s \in SUBSET S :
           (\A r \in SUBSET S : Cardinality(r) < Cardinality(s) => r \in G) => s \in G
  PROVE  \A s \in SUBSET S : s \in G
<1> DEFINE N == {n \in Nat : \A s \in SUBSET S : Cardinality(s) = n => s \in G}
<1>1. \A s \in SUBSET S : Cardinality(s) \in Nat
  BY FS_Subset, FS_CardinalityType
<1>2. ASSUME NEW n \in Nat, \A m \in Nat : m < n => m \in N
      PROVE  n \in N
  <2> SUFFICES ASSUME NEW s \in SUBSET S, Cardinality(s) = n PROVE s \in G
    OBVIOUS
  <2>1. \A r \in SUBSET S : Cardinality(r) < Cardinality(s) => r \in G
    BY <1>1, <1>2
  <2> QED BY <2>1
<1>3. N \in SUBSET Nat
  OBVIOUS
<1> HIDE DEF N
<1>4. \A n \in Nat : n \in N
  BY <1>2, <1>3, NatInduct
<1> QED BY <1>1, <1>4 DEF N

Choice(s) == CHOOSE x \in s : TRUE
Adds(f, g, s) == IF s = {} THEN 0 ELSE f[Choice(s)] + g[s \ {Choice(s)}]
Total(f, S) == (CHOOSE g : g = [s \in SUBSET S |-> Adds(f, g, s)])[S]

LEMMA Chosen1 ==
  ASSUME NEW S, IsFiniteSet(S), NEW s \in SUBSET S, s # {}
  PROVE  /\ Choice(s) \in s /\ s \ {Choice(s)} \in SUBSET S
         /\ Cardinality(s) \in Nat /\ Cardinality(s \ {Choice(s)}) \in Nat
         /\ Cardinality(s \ {Choice(s)}) = Cardinality(s) - 1
<1>1. Choice(s) \in s
  BY DEF Choice
<1>2. IsFiniteSet(s)
  BY FS_Subset
<1> QED BY <1>1, <1>2, FS_RemoveElement, FS_CardinalityType

LEMMA ChosenLess ==
  ASSUME NEW S, IsFiniteSet(S), NEW s \in SUBSET S, s # {}
  PROVE  /\ Choice(s) \in s /\ s \ {Choice(s)} \in SUBSET S
         /\ Cardinality(s \ {Choice(s)}) < Cardinality(s)
<1> DEFINE r == s \ {Choice(s)}
<1>1. /\ Choice(s) \in s /\ r \in SUBSET S /\ Cardinality(s) \in Nat
      /\ Cardinality(r) = Cardinality(s) - 1
  BY Chosen1
<1>2. Cardinality(r) < Cardinality(s)
  BY <1>1
<1> QED BY <1>1, <1>2

Adding(f, g, S) == g = [s \in SUBSET S |-> Adds(f, g, s)]

LEMMA Recursion ==
  ASSUME NEW S, IsFiniteSet(S), NEW f
  PROVE  \E g : Adding(f, g, S)
<1> DEFINE D(n) == {s \in SUBSET S : Cardinality(s) <= n}
           N == {n \in Nat : \E g : g = [s \in D(n) |-> Adds(f, g, s)]}
<1>1. \A s \in SUBSET S : IsFiniteSet(s) /\ Cardinality(s) \in Nat
  BY FS_Subset, FS_CardinalityType
<1>2. ASSUME NEW n \in Nat, \A m \in Nat : m < n => m \in N
      PROVE  n \in N
  <2>1. CASE n = 0
    <3> DEFINE g == [s \in D(n) |-> 0]
    <3>1. \A s \in D(n) : s = {}
      BY <1>1, <2>1, FS_EmptySet
    <3>2. g = [s \in D(n) |-> Adds(f, g, s)]
      BY <3>1 DEF Adds
    <3> QED BY <3>2
  <2>2. CASE n # 0
    <3>1. n - 1 \in Nat /\ n - 1 < n
      BY <2>2
    <3>2. PICK g : g = [s \in D(n - 1) |-> Adds(f, g, s)]
      BY <1>2, <3>1
    <3> DEFINE h == [s \in D(n) |-> Adds(f, g, s)]
    <3>3. ASSUME NEW s \in D(n)
          PROVE  Adds(f, g, s) = Adds(f, h, s)
      <4>1. CASE s = {}
        BY <4>1 DEF Adds
      <4>2. CASE s # {}
        <5> DEFINE r == s \ {Choice(s)}
        <5>1. r \in SUBSET S /\ Cardinality(r) = Cardinality(s) - 1 /\ Cardinality(s) \in Nat
          BY <4>2, Chosen1
        <5>2. r \in D(n - 1) /\ r \in D(n)
          BY <5>1
        <5>3. g[r] = h[r]
          BY <3>2, <5>2
        <5> QED BY <4>2, <5>3 DEF Adds
      <4> QED BY <4>1, <4>2
    <3>4. h = [s \in D(n) |-> Adds(f, h, s)]
      BY <3>3
    <3> QED BY <3>4
  <2> QED BY <2>1, <2>2
<1>3. N \in SUBSET Nat
  OBVIOUS
<1>4. Cardinality(S) \in N
  <2> HIDE DEF N
  <2>1. \A n \in Nat : n \in N
    BY <1>2, <1>3, NatInduct
  <2> QED BY <1>1, <2>1
<1>5. D(Cardinality(S)) = SUBSET S
  <2>1. \A s \in SUBSET S : Cardinality(s) <= Cardinality(S)
    BY FS_Subset
  <2> QED BY <2>1
<1> QED BY <1>4, <1>5 DEF Adding

Unrolls(f, g, S) == Total(f, S) = g[S] /\ \A s \in SUBSET S : g[s] = Adds(f, g, s)

LEMMA Unrolled ==
  ASSUME NEW S, IsFiniteSet(S), NEW f
  PROVE  \E g : Unrolls(f, g, S)
<1> DEFINE g == CHOOSE h : h = [s \in SUBSET S |-> Adds(f, h, s)]
<1>1. g = [s \in SUBSET S |-> Adds(f, g, s)]
  BY Recursion DEF Adding
<1>2. Total(f, S) = g[S]
  BY DEF Total
<1> HIDE DEF g
<1>3. \A s \in SUBSET S : g[s] = Adds(f, g, s)
  BY <1>1
<1> QED BY <1>2, <1>3 DEF Unrolls

(* Two sums that take the same terms are the same.                         *)
LEMMA SameSum ==
  ASSUME NEW S, IsFiniteSet(S), NEW e, NEW f, NEW g, NEW h,
         \A s \in SUBSET S : g[s] = Adds(e, g, s),
         \A s \in SUBSET S : h[s] = Adds(f, h, s),
         \A x \in S : e[x] = f[x]
  PROVE  \A s \in SUBSET S : g[s] = h[s]
<1> DEFINE G == {s \in SUBSET S : g[s] = h[s]}
<1>1. ASSUME NEW s \in SUBSET S,
             \A r \in SUBSET S : Cardinality(r) < Cardinality(s) => r \in G
      PROVE  s \in G
  <2>1. CASE s = {}
    BY <2>1 DEF Adds
  <2>2. CASE s # {}
    <3> DEFINE r == s \ {Choice(s)}
    <3>1. Choice(s) \in S /\ r \in SUBSET S /\ Cardinality(r) < Cardinality(s)
      BY <2>2, ChosenLess
    <3>2. g[r] = h[r]
      BY <1>1, <3>1
    <3>3. e[Choice(s)] = f[Choice(s)]
      BY <3>1
    <3>4. Adds(e, g, s) = Adds(f, h, s)
      BY <2>2, <3>2, <3>3 DEF Adds
    <3> QED BY <3>4
  <2> QED BY <2>1, <2>2
<1> HIDE DEF G
<1>2. \A s \in SUBSET S : s \in G
  BY <1>1, SetInduct
<1> QED BY <1>2 DEF G

LEMMA TotalOf ==
  ASSUME NEW S, IsFiniteSet(S), NEW f, NEW g,
         \A s \in SUBSET S : g[s] = Adds(f, g, s)
  PROVE  \A s \in SUBSET S : g[s] = Total(f, s)
<1> TAKE s \in SUBSET S
<1>1. IsFiniteSet(s)
  BY FS_Subset
<1>2. PICK h : Unrolls(f, h, s)
  BY <1>1, Unrolled
<1>3. \A r \in SUBSET s : g[r] = Adds(f, g, r)
  OBVIOUS
<1>4. Total(f, s) = h[s] /\ \A r \in SUBSET s : h[r] = Adds(f, h, r)
  BY <1>2 DEF Unrolls
<1>5. \A r \in SUBSET s : g[r] = h[r]
  BY <1>1, <1>3, <1>4, SameSum
<1> QED BY <1>4, <1>5

(* What is left of a sum when a term is taken out.                         *)
LEMMA TotalFacts ==
  ASSUME NEW S, IsFiniteSet(S), NEW f, \A x \in S : f[x] \in Nat
  PROVE  /\ Total(f, {}) = 0
         /\ \A s \in SUBSET S : Total(f, s) \in Nat
         /\ \A s \in SUBSET S : \A x \in s : Total(f, s) = f[x] + Total(f, s \ {x})
<1>0. PICK g : Unrolls(f, g, S)
  BY Unrolled
<1>1. \A s \in SUBSET S : g[s] = Adds(f, g, s)
  BY <1>0 DEF Unrolls
<1>2. \A s \in SUBSET S : g[s] = Total(f, s)
  BY <1>1, TotalOf
<1>3. Total(f, {}) = 0
  BY <1>1, <1>2 DEF Adds
<1> DEFINE T(s) == Total(f, s)
<1>4. ASSUME NEW s \in SUBSET S, s # {}
      PROVE  T(s) = f[Choice(s)] + T(s \ {Choice(s)})
  <2>1. s \ {Choice(s)} \in SUBSET S
    OBVIOUS
  <2> QED BY <1>1, <1>2, <1>4, <2>1 DEF Adds
<1> DEFINE Numbers == {s \in SUBSET S : T(s) \in Nat}
<1>5. ASSUME NEW s \in SUBSET S,
             \A r \in SUBSET S : Cardinality(r) < Cardinality(s) => r \in Numbers
      PROVE  s \in Numbers
  <2>1. CASE s = {}
    BY <1>3, <2>1
  <2>2. CASE s # {}
    <3> DEFINE r == s \ {Choice(s)}
    <3>1. Choice(s) \in S /\ r \in SUBSET S /\ Cardinality(r) < Cardinality(s)
      BY <2>2, ChosenLess
    <3>2. T(r) \in Nat /\ f[Choice(s)] \in Nat
      BY <1>5, <3>1
    <3>3. T(s) = f[Choice(s)] + T(r)
      BY <1>4, <2>2
    <3> HIDE DEF T, r
    <3>4. T(s) \in Nat
      BY <3>2, <3>3
    <3> QED BY <3>4
  <2> QED BY <2>1, <2>2
<1>6. \A s \in SUBSET S : T(s) \in Nat
  <2> HIDE DEF Numbers
  <2>1. \A s \in SUBSET S : s \in Numbers
    BY <1>5, SetInduct
  <2> QED BY <2>1 DEF Numbers
<1> DEFINE Free == {s \in SUBSET S : \A x \in s : T(s) = f[x] + T(s \ {x})}
<1>7. ASSUME NEW s \in SUBSET S,
             \A r \in SUBSET S : Cardinality(r) < Cardinality(s) => r \in Free
      PROVE  s \in Free
  <2> SUFFICES ASSUME NEW x \in s PROVE T(s) = f[x] + T(s \ {x})
    OBVIOUS
  <2> DEFINE c == Choice(s)
             r == s \ {c}
  <2>1. c \in s /\ r \in SUBSET S /\ T(s) = f[c] + T(r) /\ IsFiniteSet(s)
        /\ Cardinality(r) < Cardinality(s)
    BY <1>4, Chosen1, FS_Subset
  <2>2. CASE x = c
    BY <2>1, <2>2
  <2>3. CASE x # c
    <3> DEFINE q == s \ {x}
               both == s \ {x, c}
    <3>1. q \in SUBSET S /\ Cardinality(q) < Cardinality(s) /\ c \in q /\ x \in r
          /\ q \ {c} = both /\ r \ {x} = both /\ both \in SUBSET S
      <4>1. Cardinality(s) \in Nat /\ Cardinality(q) = Cardinality(s) - 1
        BY <2>1, FS_RemoveElement, FS_CardinalityType
      <4> QED BY <2>1, <2>3, <4>1
    <3>2. T(r) = f[x] + T(both)
      BY <1>7, <2>1, <3>1
    <3>3. T(q) = f[c] + T(both)
      BY <1>7, <3>1
    <3>4. T(both) \in Nat /\ f[x] \in Nat /\ f[c] \in Nat
      BY <1>6, <2>1, <3>1
    <3> HIDE DEF T, c, r, q, both
    <3>5. T(s) = f[x] + T(q)
      BY <2>1, <3>2, <3>3, <3>4
    <3> QED BY <3>5 DEF q
  <2> QED BY <2>2, <2>3
<1>8. \A s \in SUBSET S : \A x \in s : T(s) = f[x] + T(s \ {x})
  <2> HIDE DEF Free
  <2>1. \A s \in SUBSET S : s \in Free
    BY <1>7, SetInduct
  <2> QED BY <2>1 DEF Free
<1> QED BY <1>3, <1>6, <1>8

(* A sum over two sets without a common element.                           *)
LEMMA TotalUnion ==
  ASSUME NEW S, IsFiniteSet(S), NEW f, \A x \in S : f[x] \in Nat,
         NEW s \in SUBSET S, NEW t \in SUBSET S, s \cap t = {}
  PROVE  Total(f, s \cup t) = Total(f, s) + Total(f, t)
<1> DEFINE T(r) == Total(f, r)
<1>1. /\ T({}) = 0
      /\ \A r \in SUBSET S : T(r) \in Nat
      /\ \A r \in SUBSET S : \A x \in r : T(r) = f[x] + T(r \ {x})
  BY TotalFacts
<1> DEFINE G == {r \in SUBSET S : s \cap r = {} => T(s \cup r) = T(s) + T(r)}
<1>2. ASSUME NEW r \in SUBSET S,
             \A q \in SUBSET S : Cardinality(q) < Cardinality(r) => q \in G
      PROVE  r \in G
  <2> HIDE DEF T
  <2> SUFFICES ASSUME s \cap r = {} PROVE T(s \cup r) = T(s) + T(r)
    OBVIOUS
  <2>1. CASE r = {}
    <3>1. s \cup r = s /\ T(s) \in Nat /\ T(r) = 0
      BY <1>1, <2>1
    <3> QED BY <3>1
  <2>2. CASE r # {}
    <3> DEFINE c == Choice(r)
               q == r \ {c}
    <3>1. c \in r /\ q \in SUBSET S /\ Cardinality(q) < Cardinality(r)
      BY <2>2, ChosenLess
    <3>2. T(s \cup q) = T(s) + T(q)
      BY <1>2, <3>1
    <3>3. T(r) = f[c] + T(q)
      BY <1>1, <3>1
    <3>4. s \cup r \in SUBSET S /\ c \in s \cup r /\ (s \cup r) \ {c} = s \cup q
      BY <3>1
    <3>5. T(s \cup r) = f[c] + T(s \cup q)
      BY <1>1, <3>4
    <3>6. f[c] \in Nat /\ T(s) \in Nat /\ T(q) \in Nat
      BY <1>1, <3>1
    <3> HIDE DEF c, q
    <3> QED BY <3>2, <3>3, <3>5, <3>6
  <2> QED BY <2>1, <2>2
<1>3. t \in G
  <2> HIDE DEF G
  <2> QED BY <1>2, SetInduct
<1> QED BY <1>3

LEMMA TotalGrows ==
  ASSUME NEW S, IsFiniteSet(S), NEW f, \A x \in S : f[x] \in Nat,
         NEW t \in SUBSET S, NEW s \in SUBSET t
  PROVE  Total(f, s) <= Total(f, t)
<1>1. s \cup (t \ s) = t /\ s \cap (t \ s) = {} /\ s \in SUBSET S /\ t \ s \in SUBSET S
  OBVIOUS
<1>2. Total(f, t) = Total(f, s) + Total(f, t \ s)
  BY <1>1, TotalUnion
<1>3. Total(f, s) \in Nat /\ Total(f, t \ s) \in Nat
  BY <1>1, TotalFacts
<1> QED BY <1>2, <1>3

LEMMA TotalAlike ==
  ASSUME NEW S, IsFiniteSet(S), NEW f, NEW p \in Nat, \A x \in S : f[x] = p
  PROVE  Total(f, S) = p * Cardinality(S)
<1> DEFINE T(r) == Total(f, r)
<1>1. /\ T({}) = 0
      /\ \A r \in SUBSET S : T(r) \in Nat
      /\ \A r \in SUBSET S : \A x \in r : T(r) = f[x] + T(r \ {x})
  BY TotalFacts
<1> DEFINE G == {r \in SUBSET S : T(r) = p * Cardinality(r)}
<1>2. ASSUME NEW r \in SUBSET S,
             \A q \in SUBSET S : Cardinality(q) < Cardinality(r) => q \in G
      PROVE  r \in G
  <2> HIDE DEF T
  <2>1. CASE r = {}
    <3>1. Cardinality(r) = 0 /\ T(r) = 0
      BY <1>1, <2>1, FS_EmptySet
    <3> QED BY <3>1
  <2>2. CASE r # {}
    <3> DEFINE c == Choice(r)
               q == r \ {c}
    <3>1. c \in r /\ q \in SUBSET S /\ Cardinality(r) \in Nat /\ Cardinality(q) \in Nat
          /\ Cardinality(q) = Cardinality(r) - 1
      BY <2>2, Chosen1
    <3>2. T(q) = p * Cardinality(q)
      BY <1>2, <3>1
    <3>3. T(r) = f[c] + T(q) /\ f[c] = p
      BY <1>1, <3>1
    <3> HIDE DEF c, q
    <3>4. p * Cardinality(r) = p + p * Cardinality(q)
      <4>1. Cardinality(r) = Cardinality(q) + 1
        BY <3>1
      <4> QED BY <3>1, <4>1
    <3>5. p * Cardinality(q) \in Nat
      BY <3>1
    <3> QED BY <3>2, <3>3, <3>4, <3>5
  <2> QED BY <2>1, <2>2
<1>3. S \in G
  <2> HIDE DEF G
  <2> QED BY <1>2, SetInduct
<1> QED BY <1>3

(* The sums of the model.                                                  *)
AddsPages(spec, g, s) ==
  IF s = {} THEN 0 ELSE spec[CHOOSE x \in s : TRUE].page + g[s \ {CHOOSE x \in s : TRUE}]

LEMMA PagesTotal ==
  ASSUME NEW S, IsFiniteSet(S), NEW spec, NEW f, \A x \in S : f[x] = spec[x].page
  PROVE  Pages(spec, S) = Total(f, S)
<1> DEFINE h == CHOOSE g : g = [s \in SUBSET S |-> AddsPages(spec, g, s)]
<1>1. Pages(spec, S) = h[S]
  BY DEF Pages, Sum, MapThenSumSet, MapThenFoldSet, AddsPages
<1>2. ASSUME NEW g, NEW s \in SUBSET S
      PROVE  AddsPages(spec, g, s) = Adds(f, g, s)
  <2>1. CASE s = {}
    BY <2>1 DEF Adds, AddsPages
  <2>2. CASE s # {}
    <3>1. (CHOOSE x \in s : TRUE) \in S
      BY <2>2
    <3> QED BY <2>2, <3>1 DEF Adds, AddsPages, Choice
  <2> QED BY <2>1, <2>2
<1>3. PICK g : Adding(f, g, S)
  BY Recursion
<1>4. g = [s \in SUBSET S |-> AddsPages(spec, g, s)]
  BY <1>2, <1>3 DEF Adding
<1>5. h = [s \in SUBSET S |-> AddsPages(spec, h, s)]
  BY <1>4
<1> HIDE DEF h
<1>6. \A s \in SUBSET S : h[s] = Adds(f, h, s)
  BY <1>2, <1>5
<1>7. \A s \in SUBSET S : h[s] = Total(f, s)
  <2>1. IsFiniteSet(S)
    OBVIOUS
  <2> QED BY ONLY <1>6, <2>1, TotalOf
<1> QED BY <1>1, <1>7

AddsLengths(gs, g, s) ==
  IF s = {} THEN 0
  ELSE Len(gs[CHOOSE x \in s : TRUE].layers) + g[s \ {CHOOSE x \in s : TRUE}]

LEMMA LengthsTotal ==
  ASSUME NEW S, IsFiniteSet(S), NEW gs, NEW f, \A x \in S : f[x] = Len(gs[x].layers)
  PROVE  Sum(LAMBDA k : Len(gs[k].layers), S) = Total(f, S)
<1> DEFINE h == CHOOSE g : g = [s \in SUBSET S |-> AddsLengths(gs, g, s)]
<1>1. Sum(LAMBDA k : Len(gs[k].layers), S) = h[S]
  BY DEF Sum, MapThenSumSet, MapThenFoldSet, AddsLengths
<1>2. ASSUME NEW g, NEW s \in SUBSET S
      PROVE  AddsLengths(gs, g, s) = Adds(f, g, s)
  <2>1. CASE s = {}
    BY <2>1 DEF Adds, AddsLengths
  <2>2. CASE s # {}
    <3>1. (CHOOSE x \in s : TRUE) \in S
      BY <2>2
    <3> QED BY <2>2, <3>1 DEF Adds, AddsLengths, Choice
  <2> QED BY <2>1, <2>2
<1>3. PICK g : Adding(f, g, S)
  BY Recursion
<1>4. g = [s \in SUBSET S |-> AddsLengths(gs, g, s)]
  BY <1>2, <1>3 DEF Adding
<1>5. h = [s \in SUBSET S |-> AddsLengths(gs, h, s)]
  BY <1>4
<1> HIDE DEF h
<1>6. \A s \in SUBSET S : h[s] = Adds(f, h, s)
  BY <1>2, <1>5
<1>7. \A s \in SUBSET S : h[s] = Total(f, s)
  BY <1>6, TotalOf
<1> QED BY <1>1, <1>7

LEMMA PagesFacts ==
  ASSUME NEW U, IsFiniteSet(U), NEW spec, \A x \in U : spec[x].page \in Nat
  PROVE  /\ Pages(spec, {}) = 0
         /\ \A s \in SUBSET U : Pages(spec, s) \in Nat
         /\ \A s \in SUBSET U, t \in SUBSET U : s \subseteq t => Pages(spec, s) <= Pages(spec, t)
         /\ \A s \in SUBSET U, t \in SUBSET U :
              s \cap t = {} => Pages(spec, s \cup t) = Pages(spec, s) + Pages(spec, t)
         /\ \A s \in SUBSET U, p \in Nat :
              (\A x \in s : spec[x].page = p) => Pages(spec, s) = p * Cardinality(s)
<1> DEFINE f == [x \in U |-> spec[x].page]
<1>1. \A s \in SUBSET U : Pages(spec, s) = Total(f, s)
  <2> TAKE s \in SUBSET U
  <2>1. IsFiniteSet(s) /\ \A x \in s : f[x] = spec[x].page
    BY FS_Subset
  <2> HIDE DEF f
  <2> QED BY <2>1, PagesTotal
<1>2. \A x \in U : f[x] \in Nat /\ f[x] = spec[x].page
  OBVIOUS
<1> HIDE DEF f
<1>3. Pages(spec, {}) = 0
  BY <1>1, <1>2, TotalFacts
<1>4. \A s \in SUBSET U : Pages(spec, s) \in Nat
  BY <1>1, <1>2, TotalFacts
<1>5. ASSUME NEW s \in SUBSET U, NEW t \in SUBSET U, s \subseteq t
      PROVE  Pages(spec, s) <= Pages(spec, t)
  <2>1. Total(f, s) <= Total(f, t)
    BY <1>2, <1>5, TotalGrows
  <2> QED BY <1>1, <2>1
<1>6. ASSUME NEW s \in SUBSET U, NEW t \in SUBSET U, s \cap t = {}
      PROVE  Pages(spec, s \cup t) = Pages(spec, s) + Pages(spec, t)
  <2>1. Total(f, s \cup t) = Total(f, s) + Total(f, t)
    BY <1>2, <1>6, TotalUnion
  <2>2. s \cup t \in SUBSET U
    OBVIOUS
  <2> QED BY <1>1, <2>1, <2>2
<1>7. ASSUME NEW s \in SUBSET U, NEW p \in Nat, \A x \in s : spec[x].page = p
      PROVE  Pages(spec, s) = p * Cardinality(s)
  <2>1. IsFiniteSet(s) /\ \A x \in s : f[x] = p
    BY <1>2, <1>7, FS_Subset
  <2>2. Total(f, s) = p * Cardinality(s)
    BY <2>1, TotalAlike
  <2> QED BY <1>1, <2>2
<1> QED BY <1>3, <1>4, <1>5, <1>6, <1>7

-----------------------------------------------------------------------------
(* What of a list is in a set.                                             *)

Keep(list, S, g, n) ==
  IF n = 0 THEN <<>>
  ELSE IF list[n] \in S THEN Append(g[n - 1], list[n]) ELSE g[n - 1]
Keeping(list, S, g, n) == g = [i \in 0 .. n |-> Keep(list, S, g, i)]

LEMMA KeepRecursion ==
  ASSUME NEW list, NEW S
  PROVE  \A n \in Nat : \E g : Keeping(list, S, g, n)
<1> DEFINE N == {n \in Nat : \E g : Keeping(list, S, g, n)}
<1>1. ASSUME NEW n \in Nat, \A m \in Nat : m < n => m \in N
      PROVE  n \in N
  <2>1. CASE n = 0
    <3> DEFINE g == [i \in 0 .. n |-> <<>>]
    <3>1. g = [i \in 0 .. n |-> Keep(list, S, g, i)]
      BY <2>1 DEF Keep
    <3> HIDE DEF g
    <3>2. Keeping(list, S, g, n)
      BY <3>1 DEF Keeping
    <3> QED BY <3>2
  <2>2. CASE n # 0
    <3>1. n - 1 \in Nat /\ n - 1 < n
      BY <2>2
    <3>2. PICK g : Keeping(list, S, g, n - 1)
      BY <1>1, <3>1
    <3>3. g = [i \in 0 .. n - 1 |-> Keep(list, S, g, i)]
      BY <3>2 DEF Keeping
    <3> DEFINE h == [i \in 0 .. n |-> Keep(list, S, g, i)]
    <3>4. \A i \in 0 .. n - 1 : h[i] = g[i]
      BY <3>3
    <3>5. ASSUME NEW i \in 0 .. n
          PROVE  Keep(list, S, g, i) = Keep(list, S, h, i)
      <4>1. CASE i = 0
        BY <4>1 DEF Keep
      <4>2. CASE i # 0
        <5>1. i - 1 \in 0 .. n - 1
          BY <4>2
        <5>2. h[i - 1] = g[i - 1]
          BY <3>4, <5>1
        <5> HIDE DEF h
        <5> QED BY <5>2 DEF Keep
      <4> QED BY <4>1, <4>2
    <3>6. h = [i \in 0 .. n |-> Keep(list, S, h, i)]
      BY <3>5
    <3> HIDE DEF h
    <3>7. Keeping(list, S, h, n)
      BY <3>6 DEF Keeping
    <3> QED BY <3>7
  <2> QED BY <2>1, <2>2
<1>2. N \in SUBSET Nat
  OBVIOUS
<1> HIDE DEF N
<1>3. \A n \in Nat : n \in N
  BY <1>1, <1>2, NatInduct
<1> QED BY <1>3 DEF N

LEMMA OnlyUnrolled ==
  ASSUME NEW list, NEW S, Len(list) \in Nat
  PROVE  \E g : Only(list, S) = g[Len(list)] /\ Keeping(list, S, g, Len(list))
<1> DEFINE g == CHOOSE h : h = [i \in 0 .. Len(list) |-> Keep(list, S, h, i)]
<1>1. Only(list, S) = g[Len(list)]
  BY DEF Only, Keep
<1>2. g = [i \in 0 .. Len(list) |-> Keep(list, S, g, i)]
  BY KeepRecursion DEF Keeping
<1> HIDE DEF g
<1>3. Keeping(list, S, g, Len(list))
  BY <1>2 DEF Keeping
<1> QED BY <1>1, <1>3

(* The list kept has what the list has in the set, each once if the list   *)
(* has each once.                                                          *)
LEMMA OnlyFacts ==
  ASSUME NEW T, NEW list \in Seq(T), NEW S
  PROVE  /\ Only(list, S) \in Seq(T)
         /\ ToSet(Only(list, S)) = ToSet(list) \cap S
         /\ IsInjective(list) => IsInjective(Only(list, S))
<1> DEFINE L == Len(list)
<1>0. L \in Nat /\ \A i \in 1 .. L : list[i] \in T
  OBVIOUS
<1>1. PICK g : Only(list, S) = g[L] /\ Keeping(list, S, g, L)
  BY <1>0, OnlyUnrolled
<1>2. g[0] = <<>> /\ \A i \in 1 .. L : g[i] = IF list[i] \in S THEN Append(g[i - 1], list[i])
                                             ELSE g[i - 1]
  <2>1. \A i \in 0 .. L : g[i] = Keep(list, S, g, i)
    BY <1>1 DEF Keeping
  <2>2. 0 \in 0 .. L /\ \A i \in 1 .. L : i \in 0 .. L /\ i # 0
    BY <1>0
  <2> QED BY <2>1, <2>2 DEF Keep
<1> DEFINE Begin(n) == {list[i] : i \in 1 .. n}
           Once(q) == \A i \in 1 .. Len(q), j \in 1 .. Len(q) : q[i] = q[j] => i = j
           Good(n) == /\ g[n] \in Seq(T)
                      /\ {g[n][i] : i \in 1 .. Len(g[n])} = Begin(n) \cap S
                      /\ Once(list) => Once(g[n])
           N == {n \in Nat : n <= L => Good(n)}
<1>3. Good(0)
  BY <1>2
<1>4. ASSUME NEW n \in 1 .. L, Good(n - 1) PROVE Good(n)
  <2>1. /\ g[n - 1] \in Seq(T) /\ {g[n - 1][i] : i \in 1 .. Len(g[n - 1])} = Begin(n - 1) \cap S
        /\ Once(list) => Once(g[n - 1])
    BY <1>4
  <2>2. list[n] \in T /\ Begin(n) = Begin(n - 1) \cup {list[n]}
    <3>1. 1 .. n = (1 .. n - 1) \cup {n}
      OBVIOUS
    <3> QED BY <1>0, <3>1
  <2>3. CASE list[n] \notin S
    <3>1. g[n] = g[n - 1] /\ Begin(n) \cap S = Begin(n - 1) \cap S
      BY <1>2, <2>2, <2>3
    <3> HIDE DEF Begin, Once
    <3> QED BY <2>1, <3>1
  <2>4. CASE list[n] \in S
    <3> DEFINE q == g[n - 1]
    <3>1. g[n] = Append(q, list[n]) /\ Begin(n) \cap S = (Begin(n - 1) \cap S) \cup {list[n]}
      BY <1>2, <2>2, <2>4
    <3> HIDE DEF q
    <3>2. q \in Seq(T) /\ Len(q) \in Nat
      BY <2>1 DEF q
    <3>3. /\ g[n] \in Seq(T) /\ Len(g[n]) = Len(q) + 1 /\ g[n][Len(q) + 1] = list[n]
          /\ \A i \in 1 .. Len(q) : g[n][i] = q[i]
      BY <2>2, <3>1, <3>2
    <3>4. {g[n][i] : i \in 1 .. Len(g[n])} = {q[i] : i \in 1 .. Len(q)} \cup {list[n]}
      <4>1. 1 .. Len(g[n]) = (1 .. Len(q)) \cup {Len(q) + 1}
        BY <3>2, <3>3
      <4> QED BY <3>3, <4>1
    <3>5. ASSUME Once(list) PROVE Once(g[n])
      <4>1. \A i \in 1 .. Len(q) : q[i] # list[n]
        <5> SUFFICES ASSUME NEW i \in 1 .. Len(q), q[i] = list[n] PROVE FALSE
          OBVIOUS
        <5>1. list[n] \in Begin(n - 1)
          BY <2>1 DEF q
        <5>2. PICK j \in 1 .. n - 1 : list[j] = list[n]
          BY <5>1
        <5>3. j \in 1 .. L /\ n \in 1 .. L /\ j # n
          BY <1>0
        <5> QED BY <3>5, <5>2, <5>3
      <4>2. \A i \in 1 .. Len(q), j \in 1 .. Len(q) : q[i] = q[j] => i = j
        BY <2>1, <3>5 DEF q
      <4>3. \A i \in 1 .. Len(g[n]) : i \in 1 .. Len(q) \/ i = Len(q) + 1
        BY <3>2, <3>3
      <4> QED BY <3>3, <4>1, <4>2, <4>3
    <3> HIDE DEF Begin, Once
    <3>6. {g[n][i] : i \in 1 .. Len(g[n])} = Begin(n) \cap S
      BY <2>1, <3>1, <3>4 DEF q
    <3> QED BY <3>3, <3>5, <3>6
  <2> QED BY <2>3, <2>4
<1> HIDE DEF Good
<1>5. ASSUME NEW n \in Nat, \A m \in Nat : m < n => m \in N
      PROVE  n \in N
  <2> SUFFICES ASSUME n <= L, n # 0 PROVE Good(n)
    BY <1>3
  <2>1. n - 1 \in Nat /\ n - 1 < n /\ n - 1 <= L /\ n \in 1 .. L
    BY <1>0
  <2>2. Good(n - 1)
    BY <1>5, <2>1
  <2> QED BY <1>4, <2>1, <2>2
<1>6. N \in SUBSET Nat
  OBVIOUS
<1>7. Good(L)
  <2> HIDE DEF N
  <2>1. L \in N
    BY <1>0, <1>5, <1>6, NatInduct
  <2> QED BY <1>0, <2>1 DEF N
<1> DEFINE kept == Only(list, S)
<1>8. kept \in Seq(T) /\ {kept[i] : i \in 1 .. Len(kept)} = Begin(L) \cap S
      /\ (Once(list) => Once(kept))
  <2> HIDE DEF Begin, Once
  <2> QED BY <1>1, <1>7 DEF Good
<1>9. DOMAIN list = 1 .. L /\ DOMAIN kept = 1 .. Len(kept)
  BY <1>8
<1> HIDE DEF kept
<1>10. ToSet(kept) = ToSet(list) \cap S
  BY <1>8, <1>9 DEF ToSet
<1>11. IsInjective(list) => IsInjective(kept)
  BY <1>8, <1>9 DEF IsInjective
<1> QED BY <1>8, <1>10, <1>11 DEF kept

-----------------------------------------------------------------------------
(* The places of a group's layers in a block.                              *)

LEMMA LargestOf ==
  ASSUME NEW S, IsFiniteSet(S), NEW f, \A x \in S : f[x] \in Nat, S # {}
  PROVE  \E x \in S : \A y \in S : f[y] <= f[x]
<1> DEFINE G == {r \in SUBSET S : r # {} => \E x \in r : \A y \in r : f[y] <= f[x]}
<1>1. ASSUME NEW r \in SUBSET S,
             \A q \in SUBSET S : Cardinality(q) < Cardinality(r) => q \in G
      PROVE  r \in G
  <2> SUFFICES ASSUME r # {} PROVE \E x \in r : \A y \in r : f[y] <= f[x]
    OBVIOUS
  <2> DEFINE c == Choice(r)
             q == r \ {c}
  <2>1. c \in r /\ q \in SUBSET S /\ Cardinality(r) \in Nat /\ Cardinality(q) = Cardinality(r) - 1
    BY Chosen1
  <2>2. q # {} => \E x \in q : \A y \in q : f[y] <= f[x]
    <3>1. Cardinality(q) < Cardinality(r)
      BY <2>1
    <3> QED BY <1>1, <2>1, <3>1
  <2>3. r = q \cup {c}
    BY <2>1
  <2> HIDE DEF c, q
  <2>4. f[c] \in Nat /\ f[c] <= f[c]
    BY <2>1
  <2>5. CASE q = {}
    BY <2>1, <2>3, <2>4, <2>5
  <2>6. CASE q # {}
    <3>1. PICK x \in q : \A y \in q : f[y] <= f[x]
      BY <2>2, <2>6
    <3>2. f[x] \in Nat /\ x \in r
      BY <2>1, <2>3, <3>1
    <3>3. CASE f[c] <= f[x]
      BY <2>3, <3>1, <3>2, <3>3
    <3>4. CASE ~(f[c] <= f[x])
      <4>1. \A y \in q : f[y] <= f[c]
        <5> TAKE y \in q
        <5>1. f[y] \in Nat /\ f[y] <= f[x]
          BY <2>1, <3>1
        <5> QED BY <2>4, <3>2, <3>4, <5>1
      <4> QED BY <2>1, <2>3, <2>4, <4>1
    <3> QED BY <3>3, <3>4
  <2> QED BY <2>5, <2>6
<1>2. S \in G
  <2> HIDE DEF G
  <2> QED BY <1>1, SetInduct
<1> QED BY <1>2

(* A group of which the worker has layers.                                 *)
Whole(g) ==
  /\ g.layers \in Seq(Nat) /\ g.layers # <<>> /\ IsInjective(g.layers)
  /\ \A i \in ToSet(g.layers) : g.spec[i].page \in Nat \ {0}

Spot(list, i) == CHOOSE k \in DOMAIN list : list[k] = i
Alike(g, s) == Only(g.layers, OfSpec(g, s))
Place(g, i) ==
  ByteOffset(g, g.spec[i]) + (Spot(Alike(g, g.spec[i]), i) - 1) * g.spec[i].page

LEMMA ListFacts ==
  ASSUME NEW T, NEW list \in Seq(T)
  PROVE  /\ Len(list) \in Nat /\ DOMAIN list = 1 .. Len(list)
         /\ ToSet(list) = {list[k] : k \in 1 .. Len(list)} /\ ToSet(list) \in SUBSET T
         /\ IsFiniteSet(ToSet(list))
         /\ IsInjective(list) => Cardinality(ToSet(list)) = Len(list)
<1>1. Len(list) \in Nat /\ DOMAIN list = 1 .. Len(list) /\ \A k \in 1 .. Len(list) : list[k] \in T
  OBVIOUS
<1>2. ToSet(list) = {list[k] : k \in 1 .. Len(list)}
  BY <1>1 DEF ToSet
<1>3. ToSet(list) \in SUBSET T
  BY <1>1, <1>2
<1>4. IsFiniteSet(1 .. Len(list)) /\ Cardinality(1 .. Len(list)) = Len(list)
  <2> DEFINE n == Len(list)
  <2>1. n \in Nat /\ 1 \in Int /\ n \in Int
    BY <1>1
  <2> HIDE DEF n
  <2>2. IsFiniteSet(1 .. n) /\ Cardinality(1 .. n) = IF 1 > n THEN 0 ELSE n - 1 + 1
    BY <2>1, FS_Interval
  <2>3. Cardinality(1 .. n) = n
    BY <2>1, <2>2
  <2> QED BY <2>2, <2>3 DEF n
<1>5. list \in Surjection(1 .. Len(list), ToSet(list))
  <2>1. list \in [1 .. Len(list) -> ToSet(list)]
    BY <1>1, <1>2
  <2> QED BY <1>2, <2>1 DEF Surjection
<1>6. /\ IsFiniteSet(ToSet(list))
      /\ Cardinality(ToSet(list)) = Cardinality(1 .. Len(list))
           <=> list \in Injection(1 .. Len(list), ToSet(list))
  BY <1>4, <1>5, FS_Surjection
<1>7. IsInjective(list) => list \in Injection(1 .. Len(list), ToSet(list))
  BY <1>1, <1>5 DEF IsInjective, Injection, Surjection
<1> QED BY <1>1, <1>2, <1>3, <1>4, <1>6, <1>7

LEMMA GroupFacts ==
  ASSUME NEW g, Whole(g)
  PROVE  /\ Names(g) = g.layers /\ IsFiniteSet(ToSet(g.layers))
         /\ \A i \in ToSet(g.layers) :
              /\ First(g, g.spec[i]) \in DOMAIN g.layers
              /\ g.spec[g.layers[First(g, g.spec[i])]] = g.spec[i]
              /\ i \in OfSpec(g, g.spec[i])
              /\ Alike(g, g.spec[i]) \in Seq(Nat)
              /\ IsInjective(Alike(g, g.spec[i]))
              /\ ToSet(Alike(g, g.spec[i])) = OfSpec(g, g.spec[i])
              /\ Len(Alike(g, g.spec[i])) = Cardinality(OfSpec(g, g.spec[i]))
              /\ Spot(Alike(g, g.spec[i]), i) \in 1 .. Len(Alike(g, g.spec[i]))
              /\ Alike(g, g.spec[i])[Spot(Alike(g, g.spec[i]), i)] = i
<1>1. Names(g) = g.layers
  BY DEF Names, Whole
<1>2. /\ Len(g.layers) \in Nat /\ DOMAIN g.layers = 1 .. Len(g.layers)
      /\ ToSet(g.layers) = {g.layers[k] : k \in 1 .. Len(g.layers)}
      /\ IsFiniteSet(ToSet(g.layers))
  BY ListFacts DEF Whole
<1>3. ASSUME NEW i \in ToSet(g.layers)
      PROVE  /\ First(g, g.spec[i]) \in DOMAIN g.layers
             /\ g.spec[g.layers[First(g, g.spec[i])]] = g.spec[i]
  <2> DEFINE at == {k \in DOMAIN g.layers : g.spec[g.layers[k]] = g.spec[i]}
  <2>1. at # {} /\ at \in SUBSET Nat
    BY <1>2
  <2>2. First(g, g.spec[i]) = Min(at)
    BY <1>1 DEF First
  <2> HIDE DEF at
  <2>3. Min(at) \in at
    BY <2>1, LeastFacts
  <2> QED BY <2>2, <2>3 DEF at
<1>4. ASSUME NEW i \in ToSet(g.layers)
      PROVE  /\ i \in OfSpec(g, g.spec[i])
             /\ Alike(g, g.spec[i]) \in Seq(Nat)
             /\ IsInjective(Alike(g, g.spec[i]))
             /\ ToSet(Alike(g, g.spec[i])) = OfSpec(g, g.spec[i])
             /\ Len(Alike(g, g.spec[i])) = Cardinality(OfSpec(g, g.spec[i]))
             /\ Spot(Alike(g, g.spec[i]), i) \in 1 .. Len(Alike(g, g.spec[i]))
             /\ Alike(g, g.spec[i])[Spot(Alike(g, g.spec[i]), i)] = i
  <2> DEFINE S == OfSpec(g, g.spec[i])
             list == Alike(g, g.spec[i])
  <2>1. S \in SUBSET ToSet(g.layers) /\ i \in S
    BY <1>1 DEF OfSpec
  <2>2. list \in Seq(Nat) /\ ToSet(list) = ToSet(g.layers) \cap S /\ IsInjective(list)
    BY OnlyFacts DEF Whole, Alike
  <2>3. ToSet(list) = S
    BY <2>1, <2>2
  <2> HIDE DEF S, list
  <2>4. /\ DOMAIN list = 1 .. Len(list) /\ ToSet(list) = {list[k] : k \in 1 .. Len(list)}
        /\ Cardinality(S) = Len(list)
    BY <2>2, <2>3, ListFacts
  <2>5. \E k \in DOMAIN list : list[k] = i
    BY <2>1, <2>3, <2>4
  <2>6. Spot(list, i) \in 1 .. Len(list) /\ list[Spot(list, i)] = i
    BY <2>4, <2>5 DEF Spot
  <2> QED BY <2>1, <2>2, <2>3, <2>4, <2>6 DEF S, list
<1> QED BY <1>1, <1>2, <1>3, <1>4

(* The layers before one are those whose spec comes first earlier and the  *)
(* ones of its spec that come earlier.                                     *)
Before(g, s) == {i \in ToSet(g.layers) : First(g, g.spec[i]) < First(g, s)}

LEMMA PlaceFacts ==
  ASSUME NEW g, Whole(g)
  PROVE  /\ \A i \in ToSet(g.layers) :
              /\ ByteOffset(g, g.spec[i]) \in Nat /\ Place(g, i) \in Nat
              /\ ByteOffset(g, g.spec[i])
                   + g.spec[i].page * Cardinality(OfSpec(g, g.spec[i])) \in Nat
              /\ Place(g, i) + g.spec[i].page
                   <= ByteOffset(g, g.spec[i])
                        + g.spec[i].page * Cardinality(OfSpec(g, g.spec[i]))
              /\ ByteOffset(g, g.spec[i]) <= Place(g, i)
              /\ ByteOffset(g, g.spec[i])
                   + g.spec[i].page * Cardinality(OfSpec(g, g.spec[i]))
                   = Pages(g.spec, Before(g, g.spec[i]) \cup OfSpec(g, g.spec[i]))
         /\ Pages(g.spec, ToSet(g.layers)) \in Nat
<1> DEFINE U == ToSet(g.layers)
<1>1. IsFiniteSet(U) /\ \A i \in U : g.spec[i].page \in Nat \ {0}
  BY GroupFacts DEF Whole
<1>2. Names(g) = g.layers
  BY GroupFacts
<1>3. /\ \A s \in SUBSET U : Pages(g.spec, s) \in Nat
      /\ \A s \in SUBSET U, t \in SUBSET U :
              s \cap t = {} => Pages(g.spec, s \cup t) = Pages(g.spec, s) + Pages(g.spec, t)
      /\ \A s \in SUBSET U, p \in Nat :
              (\A x \in s : g.spec[x].page = p) => Pages(g.spec, s) = p * Cardinality(s)
  <2>1. \A i \in U : g.spec[i].page \in Nat
    BY <1>1
  <2> HIDE DEF U
  <2> QED BY <1>1, <2>1, PagesFacts
<1>4. ASSUME NEW i \in U
      PROVE  /\ ByteOffset(g, g.spec[i]) \in Nat /\ Place(g, i) \in Nat
             /\ ByteOffset(g, g.spec[i])
                  + g.spec[i].page * Cardinality(OfSpec(g, g.spec[i])) \in Nat
             /\ Place(g, i) + g.spec[i].page
                  <= ByteOffset(g, g.spec[i])
                       + g.spec[i].page * Cardinality(OfSpec(g, g.spec[i]))
             /\ ByteOffset(g, g.spec[i]) <= Place(g, i)
             /\ ByteOffset(g, g.spec[i])
                  + g.spec[i].page * Cardinality(OfSpec(g, g.spec[i]))
                  = Pages(g.spec, Before(g, g.spec[i]) \cup OfSpec(g, g.spec[i]))
  <2> DEFINE s == g.spec[i]
             B == Before(g, s)
             O == OfSpec(g, s)
             p == s.page
             c == Cardinality(O)
             at == ByteOffset(g, s)
             k == Spot(Alike(g, s), i)
  <2>1. B \in SUBSET U /\ O \in SUBSET U
    BY <1>2 DEF Before, OfSpec
  <2>2. B \cap O = {}
    <3> SUFFICES ASSUME NEW j \in B \cap O PROVE FALSE
      OBVIOUS
    <3>1. g.spec[j] = s /\ First(g, g.spec[j]) < First(g, s)
      BY DEF Before, OfSpec
    <3>2. First(g, s) \in DOMAIN g.layers
      BY GroupFacts
    <3>3. First(g, s) \in Nat
      BY <3>2, ListFacts DEF Whole
    <3> QED BY <3>1, <3>3
  <2>3. p \in Nat \ {0} /\ \A x \in O : g.spec[x].page = p
    BY <1>1 DEF OfSpec
  <2>4. IsFiniteSet(O) /\ c \in Nat
    BY <1>1, <2>1, FS_Subset, FS_CardinalityType
  <2>5. at = Pages(g.spec, B)
    BY <1>2 DEF ByteOffset, Before
  <2>6. k \in 1 .. c
    BY GroupFacts
  <2>7. Place(g, i) = at + (k - 1) * p
    BY DEF Place
  <2> HIDE DEF U, s, B, O, p, at, k
  <2>8. Pages(g.spec, O) = p * c /\ at \in Nat /\ Pages(g.spec, B \cup O) = at + p * c
    BY <1>3, <2>1, <2>2, <2>3, <2>5
  <2> HIDE DEF c
  <2>9. (k - 1) * p \in Nat /\ p * c \in Nat /\ (k - 1) * p + p <= p * c
    <3>1. k - 1 \in Nat /\ k \in Nat /\ k <= c
      BY <2>4, <2>6
    <3>2. p * (k - 1) \in Nat /\ p * k <= p * c /\ p * c \in Nat
      BY <2>3, <2>4, <3>1, Times
    <3>3. (k - 1) * p + p = p * k /\ (k - 1) * p = p * (k - 1)
      BY <2>3, <3>1
    <3> QED BY <3>2, <3>3
  <2>10. /\ at + (k - 1) * p \in Nat /\ at + p * c \in Nat
         /\ at + (k - 1) * p + p <= at + p * c /\ at <= at + (k - 1) * p
    BY <2>3, <2>8, <2>9
  <2> QED BY <2>7, <2>8, <2>10 DEF s, B, O, p, c, at
<1>5. Pages(g.spec, U) \in Nat
  BY <1>3
<1> QED BY <1>4, <1>5

(* A page ends within the pages of all layers of the group.                *)
LEMMA PlaceInside ==
  ASSUME NEW g, Whole(g), NEW i \in ToSet(g.layers)
  PROVE  Place(g, i) + g.spec[i].page <= Pages(g.spec, ToSet(g.layers))
<1> DEFINE U == ToSet(g.layers)
           S == Before(g, g.spec[i]) \cup OfSpec(g, g.spec[i])
           top == ByteOffset(g, g.spec[i]) + g.spec[i].page * Cardinality(OfSpec(g, g.spec[i]))
<1>1. IsFiniteSet(U) /\ Names(g) = g.layers
  BY GroupFacts
<1>2. S \in SUBSET U /\ U \in SUBSET U /\ S \subseteq U
  BY <1>1 DEF Before, OfSpec
<1>3. \A j \in U : g.spec[j].page \in Nat
  BY DEF Whole
<1>4. /\ Place(g, i) \in Nat /\ top \in Nat /\ Place(g, i) + g.spec[i].page <= top
      /\ top = Pages(g.spec, S)
  BY PlaceFacts
<1> HIDE DEF S, top
<1>5. Pages(g.spec, S) <= Pages(g.spec, U) /\ Pages(g.spec, U) \in Nat
  <2> HIDE DEF U
  <2> QED BY <1>1, <1>2, <1>3, PagesFacts
<1>6. g.spec[i].page \in Nat
  BY <1>3
<1> QED BY <1>4, <1>5, <1>6

(* The pages of two layers of a group share nothing.                       *)
LEMMA PlacesOrdered ==
  ASSUME NEW g, Whole(g), NEW i \in ToSet(g.layers), NEW j \in ToSet(g.layers),
         First(g, g.spec[i]) < First(g, g.spec[j])
  PROVE  Place(g, i) + g.spec[i].page <= Place(g, j)
<1> DEFINE U == ToSet(g.layers)
           S == Before(g, g.spec[i]) \cup OfSpec(g, g.spec[i])
           top == ByteOffset(g, g.spec[i]) + g.spec[i].page * Cardinality(OfSpec(g, g.spec[i]))
<1>1. IsFiniteSet(U) /\ Names(g) = g.layers
  BY GroupFacts
<1>2. \A l \in U : First(g, g.spec[l]) \in Nat
  <2>1. \A l \in U : First(g, g.spec[l]) \in DOMAIN g.layers
    BY GroupFacts
  <2>2. DOMAIN g.layers \subseteq Nat
    <3>1. Len(g.layers) \in Nat /\ DOMAIN g.layers = 1 .. Len(g.layers)
      BY ListFacts DEF Whole
    <3> QED BY <3>1
  <2> QED BY <2>1, <2>2
<1>3. S \in SUBSET U /\ Before(g, g.spec[j]) \in SUBSET U
  BY <1>1 DEF Before, OfSpec
<1>4. S \subseteq Before(g, g.spec[j])
  <2>1. \A l \in S : l \in U /\ First(g, g.spec[l]) <= First(g, g.spec[i])
    <3> TAKE l \in S
    <3>1. l \in U
      BY <1>3
    <3>2. CASE l \in Before(g, g.spec[i])
      <4>1. First(g, g.spec[l]) < First(g, g.spec[i])
        BY <3>2 DEF Before
      <4> QED BY <1>2, <3>1, <4>1
    <3>3. CASE l \in OfSpec(g, g.spec[i])
      <4>1. g.spec[l] = g.spec[i]
        BY <3>3 DEF OfSpec
      <4> QED BY <1>2, <3>1, <4>1
    <3> QED BY <3>2, <3>3
  <2>2. \A l \in S : First(g, g.spec[l]) < First(g, g.spec[j])
    <3> TAKE l \in S
    <3>1. First(g, g.spec[l]) \in Nat /\ First(g, g.spec[i]) \in Nat /\ First(g, g.spec[j]) \in Nat
      BY <1>2, <1>3
    <3>2. First(g, g.spec[l]) <= First(g, g.spec[i])
      BY <2>1
    <3> QED BY <3>1, <3>2
  <2> QED BY <2>1, <2>2 DEF Before
<1>5. /\ Place(g, i) \in Nat /\ top \in Nat /\ Place(g, i) + g.spec[i].page <= top
      /\ top = Pages(g.spec, S)
  BY PlaceFacts
<1>6. \A l \in U : g.spec[l].page \in Nat
  BY DEF Whole
<1>7. Pages(g.spec, S) <= Pages(g.spec, Before(g, g.spec[j]))
  <2> HIDE DEF U, S
  <2> QED BY <1>1, <1>3, <1>4, <1>6, PagesFacts
<1>8. /\ Pages(g.spec, Before(g, g.spec[j])) = ByteOffset(g, g.spec[j])
      /\ ByteOffset(g, g.spec[j]) \in Nat /\ Place(g, j) \in Nat
      /\ ByteOffset(g, g.spec[j]) <= Place(g, j)
  <2>1. Pages(g.spec, Before(g, g.spec[j])) = ByteOffset(g, g.spec[j])
    BY <1>1 DEF ByteOffset, Before
  <2> QED BY <2>1, PlaceFacts
<1>9. g.spec[i].page \in Nat
  BY <1>6
<1> HIDE DEF S, top
<1> QED BY <1>5, <1>7, <1>8, <1>9

LEMMA PlacesApart ==
  ASSUME NEW g, Whole(g), NEW i \in ToSet(g.layers), NEW j \in ToSet(g.layers), i # j
  PROVE  \/ Place(g, i) + g.spec[i].page <= Place(g, j)
         \/ Place(g, j) + g.spec[j].page <= Place(g, i)
<1>1. First(g, g.spec[i]) \in Nat /\ First(g, g.spec[j]) \in Nat
  <2>1. First(g, g.spec[i]) \in DOMAIN g.layers /\ First(g, g.spec[j]) \in DOMAIN g.layers
    BY GroupFacts
  <2>2. Len(g.layers) \in Nat /\ DOMAIN g.layers = 1 .. Len(g.layers)
    BY ListFacts DEF Whole
  <2> QED BY <2>1, <2>2
<1>2. CASE First(g, g.spec[i]) < First(g, g.spec[j])
  BY <1>2, PlacesOrdered
<1>3. CASE First(g, g.spec[j]) < First(g, g.spec[i])
  BY <1>3, PlacesOrdered
<1>4. CASE First(g, g.spec[i]) = First(g, g.spec[j])
  <2> DEFINE s == g.spec[i]
             list == Alike(g, s)
             p == s.page
             a == Spot(list, i)
             b == Spot(list, j)
             at == ByteOffset(g, s)
  <2>1. g.spec[j] = s
    <3>1. g.spec[g.layers[First(g, g.spec[i])]] = g.spec[i]
      BY GroupFacts
    <3>2. g.spec[g.layers[First(g, g.spec[j])]] = g.spec[j]
      BY GroupFacts
    <3> QED BY <1>4, <3>1, <3>2
  <2>2. a \in 1 .. Len(list) /\ list[a] = i /\ list \in Seq(Nat)
    BY GroupFacts
  <2>3. b \in 1 .. Len(list) /\ list[b] = j
    <3>1. LET t == g.spec[j] IN
            Spot(Alike(g, t), j) \in 1 .. Len(Alike(g, t)) /\ Alike(g, t)[Spot(Alike(g, t), j)] = j
      BY GroupFacts
    <3> QED BY <2>1, <3>1
  <2>4. p \in Nat \ {0} /\ at \in Nat /\ Len(list) \in Nat
    <3>1. p \in Nat \ {0}
      BY DEF Whole
    <3>2. at \in Nat
      BY PlaceFacts
    <3>3. Len(list) \in Nat
      <4> HIDE DEF list
      <4> QED BY <2>2
    <3> QED BY <3>1, <3>2, <3>3
  <2>5. Place(g, i) = at + (a - 1) * p /\ Place(g, j) = at + (b - 1) * p
    BY <2>1 DEF Place
  <2> HIDE DEF s, list, p, a, b, at
  <2>6. a # b /\ a - 1 \in Nat /\ b - 1 \in Nat
    BY <2>2, <2>3, <2>4
  <2>7. ASSUME NEW x \in Nat, NEW y \in Nat, x < y PROVE at + x * p + p <= at + y * p
    <3>1. p * (x + 1) <= p * y /\ p * y \in Nat /\ p * (x + 1) \in Nat
      <4>1. x + 1 \in Nat /\ x + 1 <= y
        BY <2>7
      <4> QED BY <2>4, <4>1, Times
    <3>2. p * (x + 1) = x * p + p /\ p * y = y * p /\ x * p \in Nat
      BY <2>4
    <3> QED BY <2>4, <3>1, <3>2
  <2>8. a - 1 < b - 1 \/ b - 1 < a - 1
    BY <2>2, <2>3, <2>4, <2>6
  <2>9. at + (a - 1) * p + p <= at + (b - 1) * p \/ at + (b - 1) * p + p <= at + (a - 1) * p
    BY <2>6, <2>7, <2>8
  <2> QED BY <2>1, <2>5, <2>9 DEF s, p
<1> QED BY <1>1, <1>2, <1>3, <1>4

(* With pages of one size, the places are multiples of it.                 *)
Multiple(a, p) == \E m \in Nat : a = p * m

LEMMA PlaceMultiple ==
  ASSUME NEW g, Whole(g), NEW p \in Nat, \A i \in ToSet(g.layers) : g.spec[i].page = p,
         NEW i \in ToSet(g.layers)
  PROVE  Multiple(Place(g, i), p)
<1> DEFINE U == ToSet(g.layers)
           B == Before(g, g.spec[i])
           c == Cardinality(B)
           k == Spot(Alike(g, g.spec[i]), i)
<1>1. IsFiniteSet(U) /\ Names(g) = g.layers
  BY GroupFacts
<1>2. B \in SUBSET U
  BY DEF Before
<1>3. c \in Nat
  BY <1>1, <1>2, FS_Subset, FS_CardinalityType
<1>4. ByteOffset(g, g.spec[i]) = Pages(g.spec, B)
  BY <1>1 DEF ByteOffset, Before
<1>5. Pages(g.spec, B) = p * c
  <2>1. (\A j \in U : g.spec[j].page \in Nat) /\ \A j \in B : g.spec[j].page = p
    BY <1>2
  <2> HIDE DEF U, B
  <2> QED BY <1>1, <1>2, <2>1, PagesFacts
<1>6. k - 1 \in Nat
  <2>1. k \in 1 .. Len(Alike(g, g.spec[i])) /\ Alike(g, g.spec[i]) \in Seq(Nat)
    BY GroupFacts
  <2> QED BY <2>1
<1>7. Place(g, i) = p * c + (k - 1) * p
  BY <1>4, <1>5 DEF Place
<1> HIDE DEF c, k
<1>8. c + (k - 1) \in Nat /\ p * (c + (k - 1)) = p * c + (k - 1) * p
  BY <1>3, <1>6
<1> QED BY <1>7, <1>8 DEF Multiple

-----------------------------------------------------------------------------
(* The groups of a worker, and the pages of its configuration.             *)

Laid(gs, owned) ==
  /\ Len(gs) \in Nat /\ DOMAIN gs = 1 .. Len(gs)
  /\ \A k \in DOMAIN gs :
       /\ gs[k].layers \in Seq(Nat) /\ IsInjective(gs[k].layers)
       /\ ToSet(gs[k].layers) = DOMAIN gs[k].spec \cap owned
       /\ DOMAIN gs[k].spec \in SUBSET Nat /\ IsFiniteSet(DOMAIN gs[k].spec)
       /\ \A i \in DOMAIN gs[k].spec : gs[k].spec[i].page \in Nat \ {0}
       /\ \A i \in ToSet(gs[k].layers), l \in DOMAIN gs : i \in ToSet(gs[l].layers) => l = k

At(g, i, b, bytes, n, outermost) ==
  IF outermost THEN Place(g, i) + b * bytes ELSE Place(g, i) * n + b * g.spec[i].page
PageOf(g, i, b, bytes, n, outermost) ==
  [layer |-> i, block |-> b, page |-> g.spec[i].page, at |-> At(g, i, b, bytes, n, outermost)]

LEMMA OrderedFacts ==
  ASSUME NEW S \in SUBSET Nat, IsFiniteSet(S)
  PROVE  Ordered(S) \in Seq(Nat) /\ ToSet(Ordered(S)) \subseteq S
<1> DEFINE Z == S \cup {0}
           list == [k \in 1 .. Max(Z) |-> k]
<1>1. IsFiniteSet(Z)
  BY FS_AddElement
<1>2. Max(Z) \in Nat
  <2> DEFINE id == [x \in Z |-> x]
  <2>1. \A x \in Z : id[x] \in Nat /\ id[x] = x
    OBVIOUS
  <2> HIDE DEF id
  <2>2. Z # {} /\ Z \in SUBSET Nat
    OBVIOUS
  <2> HIDE DEF Z
  <2>3. \E x \in Z : \A y \in Z : id[y] <= id[x]
    BY <1>1, <2>1, <2>2, LargestOf
  <2>4. \E x \in Z : \A y \in Z : x >= y
    BY <2>1, <2>2, <2>3
  <2>5. Max(Z) \in Z
    BY <2>4 DEF Max
  <2> QED BY <2>2, <2>5
<1>3. list \in Seq(Nat)
  <2> HIDE DEF Z
  <2> QED BY <1>2
<1>4. Ordered(S) = Only(list, S)
  BY DEF Ordered, MaxOr0
<1> HIDE DEF list
<1> QED BY <1>3, <1>4, OnlyFacts

LEMMA NameFacts ==
  ASSUME NEW gs, NEW owned, Laid(gs, owned), NEW k \in DOMAIN gs
  PROVE  /\ Names(gs[k]) \in Seq(Nat) /\ ToSet(Names(gs[k])) \subseteq DOMAIN gs[k].spec
         /\ gs[k].layers # <<>> => Whole(gs[k])
         /\ ToSet(gs[k].layers) # {} => gs[k].layers # <<>>
<1>1. /\ gs[k].layers \in Seq(Nat) /\ IsInjective(gs[k].layers)
      /\ ToSet(gs[k].layers) \subseteq DOMAIN gs[k].spec
      /\ DOMAIN gs[k].spec \in SUBSET Nat /\ IsFiniteSet(DOMAIN gs[k].spec)
      /\ \A i \in DOMAIN gs[k].spec : gs[k].spec[i].page \in Nat \ {0}
  BY DEF Laid
<1>2. Names(gs[k]) \in Seq(Nat) /\ ToSet(Names(gs[k])) \subseteq DOMAIN gs[k].spec
  BY <1>1, OrderedFacts DEF Names
<1>3. gs[k].layers # <<>> => Whole(gs[k])
  BY <1>1 DEF Whole
<1>4. ToSet(gs[k].layers) # {} => gs[k].layers # <<>>
  BY DEF ToSet
<1> QED BY <1>2, <1>3, <1>4

(* A layer of the worker in a tensor is of the group, at its place.        *)
LEMMA TensorFacts ==
  ASSUME NEW gs, NEW owned, Laid(gs, owned), NEW k \in DOMAIN gs,
         NEW bytes \in Nat, NEW n \in Nat, NEW outermost,
         NEW t \in GroupTensors(gs[k], bytes, n, outermost), NEW j \in DOMAIN t.layers,
         t.layers[j] \in owned, NEW b \in Nat
  PROVE  /\ t.layers[j] \in ToSet(gs[k].layers)
         /\ t.page = gs[k].spec[t.layers[j]].page
         /\ t.offset + (j - 1) * t.layer_stride + b * t.block_stride
              = At(gs[k], t.layers[j], b, bytes, n, outermost)
<1> DEFINE g == gs[k]
           i == t.layers[j]
<1>1. Names(g) \in Seq(Nat) /\ ToSet(Names(g)) \subseteq DOMAIN g.spec
  BY NameFacts
<1>2. PICK s \in {g.spec[l] : l \in ToSet(Names(g))} :
        t = [layers |-> Only(Names(g), OfSpec(g, s)), page |-> s.page,
             layer_stride |-> IF outermost THEN s.page ELSE s.page * n,
             block_stride |-> IF outermost THEN bytes ELSE s.page,
             offset |-> ByteOffset(g, s) * (IF outermost THEN 1 ELSE n)]
  BY DEF GroupTensors
<1>3. /\ t.layers \in Seq(Nat) /\ i \in ToSet(Names(g)) \cap OfSpec(g, s)
  <2> DEFINE list == Only(Names(g), OfSpec(g, s))
  <2>1. list \in Seq(Nat) /\ ToSet(list) = ToSet(Names(g)) \cap OfSpec(g, s)
    BY <1>1, OnlyFacts
  <2>2. t.layers = list
    BY <1>2
  <2> HIDE DEF list
  <2>3. t.layers[j] \in ToSet(t.layers)
    BY DEF ToSet
  <2> QED BY <2>1, <2>2, <2>3
<1>4. i \in ToSet(g.layers) /\ g.spec[i] = s
  <2>1. ToSet(g.layers) = DOMAIN g.spec \cap owned
    BY DEF Laid
  <2> QED BY <1>1, <1>3, <2>1 DEF OfSpec
<1>5. Whole(g) /\ Names(g) = g.layers
  <2>1. Whole(g)
    BY <1>4, NameFacts
  <2> QED BY <2>1, GroupFacts
<1>6. t.layers = Alike(g, g.spec[i])
  BY <1>2, <1>4, <1>5 DEF Alike
<1> DEFINE q == Spot(Alike(g, g.spec[i]), i)
<1>7. j = q
  <2>1. /\ q \in 1 .. Len(Alike(g, g.spec[i])) /\ Alike(g, g.spec[i])[q] = i
        /\ IsInjective(Alike(g, g.spec[i])) /\ Alike(g, g.spec[i]) \in Seq(Nat)
    BY <1>4, <1>5, GroupFacts
  <2>2. DOMAIN Alike(g, g.spec[i]) = 1 .. Len(Alike(g, g.spec[i]))
    BY <2>1
  <2> HIDE DEF q
  <2>3. q \in DOMAIN t.layers /\ t.layers[q] = t.layers[j] /\ IsInjective(t.layers)
    BY <1>6, <2>1, <2>2
  <2> QED BY <2>3 DEF IsInjective
<1> DEFINE p == g.spec[i].page
           at == ByteOffset(g, g.spec[i])
<1>8. /\ t.page = p /\ t.layer_stride = (IF outermost THEN p ELSE p * n)
      /\ t.block_stride = (IF outermost THEN bytes ELSE p)
      /\ t.offset = at * (IF outermost THEN 1 ELSE n)
  BY <1>2, <1>4
<1>9. Place(g, i) = at + (q - 1) * p
  BY DEF Place
<1>10. p \in Nat /\ at \in Nat /\ q - 1 \in Nat
  <2>1. p \in Nat
    BY <1>4, <1>5 DEF Whole
  <2>2. at \in Nat
    BY <1>4, <1>5, PlaceFacts
  <2>3. q \in 1 .. Len(Alike(g, g.spec[i])) /\ Alike(g, g.spec[i]) \in Seq(Nat)
    BY <1>4, <1>5, GroupFacts
  <2> HIDE DEF p, at
  <2>4. q - 1 \in Nat
    <3> HIDE DEF q
    <3> QED BY <2>3
  <2> QED BY <2>1, <2>2, <2>4
<1> HIDE DEF p, at, q
<1>11. t.offset + (j - 1) * t.layer_stride + b * t.block_stride
         = At(g, i, b, bytes, n, outermost)
  <2>1. CASE outermost
    <3>1. t.layer_stride = p /\ t.block_stride = bytes /\ t.offset = at
      BY <1>8, <1>10, <2>1
    <3>2. At(g, i, b, bytes, n, outermost) = at + (q - 1) * p + b * bytes
      BY <1>9, <2>1 DEF At
    <3> QED BY <1>7, <3>1, <3>2
  <2>2. CASE ~outermost
    <3>1. t.layer_stride = p * n /\ t.block_stride = p /\ t.offset = at * n
      BY <1>8, <2>2
    <3>2. At(g, i, b, bytes, n, outermost) = (at + (q - 1) * p) * n + b * p
      BY <1>9, <2>2 DEF At, p
    <3>3. (at + (q - 1) * p) * n = at * n + (q - 1) * (p * n)
      BY <1>10
    <3>4. at * n + (q - 1) * (p * n) + b * p = (at + (q - 1) * p) * n + b * p
      BY <3>3
    <3> QED BY <1>7, <3>1, <3>2, <3>4
  <2> QED BY <2>1, <2>2
<1> QED BY <1>4, <1>8, <1>11 DEF p

LEMMA TensorExists ==
  ASSUME NEW gs, NEW owned, Laid(gs, owned), NEW k \in DOMAIN gs,
         NEW bytes, NEW n, NEW outermost, NEW i \in ToSet(gs[k].layers)
  PROVE  \E t \in GroupTensors(gs[k], bytes, n, outermost) : \E j \in DOMAIN t.layers :
           t.layers[j] = i
<1> DEFINE g == gs[k]
           s == g.spec[i]
           q == Spot(Alike(g, s), i)
           t == [layers |-> Only(Names(g), OfSpec(g, s)), page |-> s.page,
                 layer_stride |-> IF outermost THEN s.page ELSE s.page * n,
                 block_stride |-> IF outermost THEN bytes ELSE s.page,
                 offset |-> ByteOffset(g, s) * (IF outermost THEN 1 ELSE n)]
<1>1. Whole(g)
  BY NameFacts
<1>2. Names(g) = g.layers
  BY <1>1, GroupFacts
<1>3. t \in GroupTensors(g, bytes, n, outermost)
  BY <1>2 DEF GroupTensors
<1>4. t.layers = Alike(g, s)
  BY <1>2 DEF Alike
<1>5. q \in 1 .. Len(Alike(g, s)) /\ Alike(g, s)[q] = i /\ Alike(g, s) \in Seq(Nat)
  BY <1>1, GroupFacts
<1> HIDE DEF t, q
<1>6. q \in DOMAIN t.layers /\ t.layers[q] = i
  BY <1>4, <1>5
<1> QED BY <1>3, <1>6

LEMMA PagesAre ==
  ASSUME NEW gs, NEW owned, Laid(gs, owned), NEW bytes \in Nat, NEW n \in Nat,
         NEW outermost, NEW config, config.num_blocks = n,
         config.tensors = TensorsOf(gs, bytes, n, outermost)
  PROVE  /\ \A x \in PagesOfConfig(config, owned) :
              \E k \in DOMAIN gs : \E i \in ToSet(gs[k].layers) : \E b \in 0 .. n - 1 :
                x = PageOf(gs[k], i, b, bytes, n, outermost)
         /\ \A k \in DOMAIN gs : \A i \in ToSet(gs[k].layers) : \A b \in 0 .. n - 1 :
              PageOf(gs[k], i, b, bytes, n, outermost) \in PagesOfConfig(config, owned)
<1> DEFINE page(t, j, b) ==
             [layer |-> t.layers[j], block |-> b, page |-> t.page,
              at |-> t.offset + (j - 1) * t.layer_stride + b * t.block_stride]
<1>1. ASSUME NEW k \in DOMAIN gs, NEW t \in GroupTensors(gs[k], bytes, n, outermost),
             NEW j \in DOMAIN t.layers, t.layers[j] \in owned, NEW b \in 0 .. n - 1
      PROVE  /\ t.layers[j] \in ToSet(gs[k].layers)
             /\ page(t, j, b) = PageOf(gs[k], t.layers[j], b, bytes, n, outermost)
  <2>1. b \in Nat
    OBVIOUS
  <2>2. /\ t.layers[j] \in ToSet(gs[k].layers)
        /\ t.page = gs[k].spec[t.layers[j]].page
        /\ t.offset + (j - 1) * t.layer_stride + b * t.block_stride
              = At(gs[k], t.layers[j], b, bytes, n, outermost)
    BY <1>1, <2>1, TensorFacts
  <2> QED BY <2>2 DEF PageOf
<1>2. \A x : x \in PagesOfConfig(config, owned) <=>
        \E t \in config.tensors : \E j \in DOMAIN t.layers, b \in 0 .. n - 1 :
          t.layers[j] \in owned /\ x = page(t, j, b)
  BY DEF PagesOfConfig
<1>3. ASSUME NEW x \in PagesOfConfig(config, owned)
      PROVE  \E k \in DOMAIN gs : \E i \in ToSet(gs[k].layers) : \E b \in 0 .. n - 1 :
                x = PageOf(gs[k], i, b, bytes, n, outermost)
  <2>1. PICK t \in config.tensors : \E j \in DOMAIN t.layers, b \in 0 .. n - 1 :
          t.layers[j] \in owned /\ x = page(t, j, b)
    BY <1>2
  <2>2. PICK j \in DOMAIN t.layers, b \in 0 .. n - 1 : t.layers[j] \in owned /\ x = page(t, j, b)
    BY <2>1
  <2>3. PICK k \in DOMAIN gs : t \in GroupTensors(gs[k], bytes, n, outermost)
    BY <2>1 DEF TensorsOf
  <2> HIDE DEF page
  <2>4. /\ t.layers[j] \in ToSet(gs[k].layers)
        /\ page(t, j, b) = PageOf(gs[k], t.layers[j], b, bytes, n, outermost)
    BY <1>1, <2>2, <2>3
  <2> QED BY <2>2, <2>4
<1>4. ASSUME NEW k \in DOMAIN gs, NEW i \in ToSet(gs[k].layers), NEW b \in 0 .. n - 1
      PROVE  PageOf(gs[k], i, b, bytes, n, outermost) \in PagesOfConfig(config, owned)
  <2>1. PICK t \in GroupTensors(gs[k], bytes, n, outermost) : \E j \in DOMAIN t.layers :
           t.layers[j] = i
    BY TensorExists
  <2>2. PICK j \in DOMAIN t.layers : t.layers[j] = i
    BY <2>1
  <2>3. t \in config.tensors
    BY DEF TensorsOf
  <2>4. i \in owned
    BY DEF Laid
  <2> HIDE DEF page
  <2>5. page(t, j, b) = PageOf(gs[k], i, b, bytes, n, outermost)
    BY <1>1, <2>2, <2>4
  <2> QED BY <1>2, <2>2, <2>3, <2>4, <2>5
<1> QED BY <1>3, <1>4

-----------------------------------------------------------------------------
(* A worker's pages cover its layers, end in the allocation and are apart. *)

LayersOf(gs, K) == UNION {ToSet(gs[k].layers) : k \in K}

LEMMA Counted ==
  ASSUME NEW gs, NEW owned, Laid(gs, owned)
  PROVE  /\ IsFiniteSet(LayersOf(gs, DOMAIN gs)) /\ LayersOf(gs, DOMAIN gs) \subseteq owned
         /\ LayerCount(gs) = Cardinality(LayersOf(gs, DOMAIN gs))
<1> DEFINE D == DOMAIN gs
           f == [k \in D |-> Len(gs[k].layers)]
           T(r) == Total(f, r)
           G == {r \in SUBSET D : /\ IsFiniteSet(LayersOf(gs, r))
                                  /\ T(r) = Cardinality(LayersOf(gs, r))}
<1>1. IsFiniteSet(D)
  <2>1. Len(gs) \in Nat /\ D = 1 .. Len(gs)
    BY DEF Laid
  <2> QED BY <2>1, FS_Interval
<1>2. \A k \in D : gs[k].layers \in Seq(Nat) /\ IsInjective(gs[k].layers)
  BY DEF Laid
<1>3. \A k \in D : /\ IsFiniteSet(ToSet(gs[k].layers)) /\ f[k] \in Nat
                   /\ Cardinality(ToSet(gs[k].layers)) = f[k]
  BY <1>2, ListFacts
<1>4. /\ T({}) = 0
      /\ \A r \in SUBSET D : T(r) \in Nat
      /\ \A r \in SUBSET D : \A x \in r : T(r) = f[x] + T(r \ {x})
  <2> HIDE DEF D, f
  <2> QED BY <1>1, <1>3, TotalFacts
<1>5. \A k \in D, l \in D : k # l => ToSet(gs[k].layers) \cap ToSet(gs[l].layers) = {}
  BY DEF Laid
<1>6. ASSUME NEW r \in SUBSET D,
             \A q \in SUBSET D : Cardinality(q) < Cardinality(r) => q \in G
      PROVE  r \in G
  <2> HIDE DEF T, D, f
  <2>1. CASE r = {}
    <3>1. LayersOf(gs, r) = {}
      BY <2>1 DEF LayersOf
    <3> QED BY <1>4, <2>1, <3>1, FS_EmptySet
  <2>2. CASE r # {}
    <3> DEFINE c == Choice(r)
               q == r \ {c}
    <3>1. c \in r /\ q \in SUBSET D /\ Cardinality(q) < Cardinality(r)
      BY <1>1, <2>2, ChosenLess
    <3>2. IsFiniteSet(LayersOf(gs, q)) /\ T(q) = Cardinality(LayersOf(gs, q))
      BY <1>6, <3>1
    <3>3. T(r) = f[c] + T(q) /\ T(q) \in Nat
      BY <1>4, <3>1
    <3>4. c \in D /\ r = q \cup {c} /\ c \notin q
      BY <3>1
    <3> HIDE DEF c, q
    <3>5. LayersOf(gs, r) = LayersOf(gs, q) \cup ToSet(gs[c].layers)
      BY <3>4 DEF LayersOf
    <3>6. LayersOf(gs, q) \cap ToSet(gs[c].layers) = {}
      BY <1>5, <3>1, <3>4 DEF LayersOf
    <3>7. IsFiniteSet(ToSet(gs[c].layers)) /\ Cardinality(ToSet(gs[c].layers)) = f[c]
          /\ f[c] \in Nat
      BY <1>3, <3>4
    <3> DEFINE A == LayersOf(gs, q)
               C == ToSet(gs[c].layers)
    <3>8. /\ IsFiniteSet(A \cup C)
          /\ Cardinality(A \cup C) = Cardinality(A) + Cardinality(C) - Cardinality(A \cap C)
      BY <3>2, <3>7, FS_Union
    <3>9. Cardinality(A \cap C) = 0
      BY <3>6, FS_EmptySet
    <3>10. Cardinality(A \cup C) = T(r)
      BY <3>2, <3>3, <3>7, <3>8, <3>9
    <3> QED BY <3>5, <3>8, <3>10
  <2> QED BY <2>1, <2>2
<1>7. D \in G
  <2> HIDE DEF G, D
  <2> QED BY <1>1, <1>6, SetInduct
<1>8. LayerCount(gs) = T(D)
  <2>1. \A k \in D : f[k] = Len(gs[k].layers)
    OBVIOUS
  <2> HIDE DEF D, f
  <2>2. Sum(LAMBDA k : Len(gs[k].layers), D) = Total(f, D)
    BY <1>1, <2>1, LengthsTotal
  <2> QED BY <2>2 DEF LayerCount, D
<1>9. LayersOf(gs, D) \subseteq owned
  BY DEF Laid, LayersOf
<1> QED BY <1>7, <1>8, <1>9

LEMMA WidestFacts ==
  ASSUME NEW gs, NEW owned, Laid(gs, owned), NEW k \in DOMAIN gs
  PROVE  /\ BytesPerBlock(gs) \in Nat
         /\ Pages(gs[k].spec, ToSet(gs[k].layers)) <= BytesPerBlock(gs)
<1> DEFINE D == DOMAIN gs
           f == [l \in D |-> Pages(gs[l].spec, ToSet(gs[l].layers))]
           S == {Pages(g.spec, ToSet(g.layers)) : g \in ToSet(gs)}
<1>1. IsFiniteSet(D)
  <2>1. Len(gs) \in Nat /\ D = 1 .. Len(gs)
    BY DEF Laid
  <2> QED BY <2>1, FS_Interval
<1>2. ASSUME NEW l \in D PROVE f[l] \in Nat
  <2> DEFINE U == ToSet(gs[l].layers)
  <2>1. IsFiniteSet(U)
    BY ListFacts DEF Laid
  <2>2. \A i \in U : gs[l].spec[i].page \in Nat
    BY DEF Laid
  <2>3. U \in SUBSET U
    OBVIOUS
  <2> HIDE DEF U
  <2>4. Pages(gs[l].spec, U) \in Nat
    BY <2>1, <2>2, <2>3, PagesFacts
  <2> QED BY <2>4 DEF U
<1>3. S = {f[l] : l \in D}
  BY DEF ToSet
<1>4. BytesPerBlock(gs) = Max(S)
  BY DEF BytesPerBlock
<1>5. f[k] = Pages(gs[k].spec, ToSet(gs[k].layers))
  OBVIOUS
<1> HIDE DEF f, S
<1>6. \E l \in D : \A m \in D : f[m] <= f[l]
  <2>1. D # {}
    OBVIOUS
  <2> HIDE DEF D
  <2> QED BY <1>1, <1>2, <2>1, LargestOf
<1>7. \E x \in S : \A y \in S : x >= y
  <2>1. PICK l \in D : \A m \in D : f[m] <= f[l]
    BY <1>6
  <2>2. \A m \in D : f[l] >= f[m]
    BY <1>2, <2>1
  <2> QED BY <1>3, <2>1, <2>2
<1>8. Max(S) \in S /\ \A y \in S : Max(S) >= y
  BY <1>7 DEF Max
<1>9. f[k] \in S /\ S \subseteq Nat
  BY <1>2, <1>3
<1>10. Max(S) \in Nat /\ f[k] <= Max(S)
  BY <1>8, <1>9
<1> QED BY <1>4, <1>5, <1>10

(* The pages of one block and of different blocks.                         *)
LEMMA AtFacts ==
  ASSUME NEW gs, NEW owned, Laid(gs, owned), NEW k \in DOMAIN gs,
         NEW i \in ToSet(gs[k].layers), NEW n \in Nat, NEW b \in 0 .. n - 1, NEW outermost
  PROVE  LET p == gs[k].spec[i].page
             bytes == BytesPerBlock(gs)
             at == At(gs[k], i, b, bytes, n, outermost) IN
         /\ p \in Nat \ {0} /\ bytes \in Nat /\ Place(gs[k], i) \in Nat
         /\ Place(gs[k], i) + p <= bytes
         /\ at \in Nat /\ at + p <= bytes * n
<1> DEFINE g == gs[k]
           p == g.spec[i].page
           bytes == BytesPerBlock(gs)
           m == Place(g, i)
<1>1. Whole(g)
  BY NameFacts
<1>2. p \in Nat \ {0}
  BY <1>1 DEF Whole
<1>3. m \in Nat
  BY <1>1, PlaceFacts
<1>4. m + p <= bytes /\ bytes \in Nat
  <2> DEFINE all == Pages(g.spec, ToSet(g.layers))
  <2>1. m + p <= all
    BY <1>1, PlaceInside
  <2>2. all <= bytes /\ bytes \in Nat
    BY WidestFacts
  <2>3. all \in Nat
    BY <1>1, PlaceFacts
  <2> HIDE DEF m, p, all, bytes
  <2> QED BY <1>2, <1>3, <2>1, <2>2, <2>3
<1>5. At(g, i, b, bytes, n, outermost) = IF outermost THEN m + b * bytes ELSE m * n + b * p
  BY DEF At
<1>6. b \in Nat /\ n \in Nat /\ b + 1 <= n
  OBVIOUS
<1> HIDE DEF m, p, bytes, g
<1>7. m + b * bytes \in Nat /\ m + b * bytes + p <= bytes * n
  <2>1. bytes * (b + 1) <= bytes * n /\ bytes * n \in Nat
    BY <1>4, <1>6, Times
  <2>2. bytes * (b + 1) = b * bytes + bytes /\ b * bytes \in Nat
    BY <1>4, <1>6
  <2> QED BY <1>2, <1>3, <1>4, <2>1, <2>2
<1>8. m * n + b * p \in Nat /\ m * n + b * p + p <= bytes * n
  <2>1. p * (b + 1) <= p * n /\ p * n \in Nat
    BY <1>2, <1>6, Times
  <2>2. p * (b + 1) = b * p + p /\ b * p \in Nat
    BY <1>2, <1>6
  <2>3. n * (m + p) <= n * bytes /\ n * bytes \in Nat
    BY <1>2, <1>3, <1>4, Times
  <2>4. n * (m + p) = m * n + p * n /\ n * bytes = bytes * n /\ m * n \in Nat
    BY <1>2, <1>3, <1>4
  <2> QED BY <1>2, <2>1, <2>2, <2>3, <2>4
<1>9. /\ At(g, i, b, bytes, n, outermost) \in Nat
      /\ At(g, i, b, bytes, n, outermost) + p <= bytes * n
  <2>1. CASE outermost
    BY <1>5, <1>7, <2>1
  <2>2. CASE ~outermost
    BY <1>5, <1>8, <2>2
  <2> QED BY <2>1, <2>2
<1> QED BY <1>2, <1>3, <1>4, <1>9 DEF m, p, bytes, g

(* Layers next to each other: a page in an earlier place is before all of  *)
(* a later one's; pages of one place are a page apart.                     *)
LEMMA SideBySide ==
  ASSUME NEW m \in Nat, NEW p \in Nat, NEW m2 \in Nat, NEW p2 \in Nat, NEW n \in Nat,
         NEW b \in 0 .. n - 1, NEW c \in 0 .. n - 1, m + p <= m2
  PROVE  m * n + b * p + p <= m2 * n + c * p2
<1>1. b \in Nat /\ c \in Nat /\ b + 1 <= n
  OBVIOUS
<1>2. p * (b + 1) <= p * n /\ p * n \in Nat
  BY <1>1, Times
<1>3. p * (b + 1) = b * p + p /\ b * p \in Nat
  BY <1>1
<1>4. n * (m + p) <= n * m2 /\ n * m2 \in Nat
  BY Times
<1>5. n * (m + p) = m * n + p * n /\ n * m2 = m2 * n /\ m * n \in Nat
  OBVIOUS
<1>6. c * p2 \in Nat
  BY <1>1
<1> QED BY <1>2, <1>3, <1>4, <1>5, <1>6

LEMMA StepApart ==
  ASSUME NEW a \in Nat, NEW p \in Nat, NEW q \in Nat, q <= p,
         NEW b \in Nat, NEW c \in Nat, b < c
  PROVE  a + b * p + q <= a + c * p
<1>1. p * (b + 1) <= p * c /\ p * c \in Nat
  <2>1. b + 1 \in Nat /\ b + 1 <= c
    OBVIOUS
  <2> QED BY <2>1, Times
<1>2. p * (b + 1) = b * p + p /\ p * c = c * p /\ b * p \in Nat
  OBVIOUS
<1> QED BY <1>1, <1>2

(* Without the blocks outermost, groups in one pool have pages of one size.*)
LEMMA OnePage ==
  ASSUME NEW gs, NEW owned, Laid(gs, owned), NEW layout, LayoutExpresses(layout, gs),
         layout.layer_compact, NEW k \in DOMAIN gs, NEW l \in DOMAIN gs, k # l,
         NEW i \in ToSet(gs[k].layers), NEW j \in ToSet(gs[l].layers)
  PROVE  \E p \in Nat : /\ \A h \in ToSet(gs[k].layers) : gs[k].spec[h].page = p
                        /\ \A h \in ToSet(gs[l].layers) : gs[l].spec[h].page = p
<1> DEFINE D == DOMAIN gs
           P == UNION {{g.spec[h].page : h \in ToSet(g.layers)} : g \in ToSet(gs)}
           bytes == BytesPerBlock(gs)
<1>1. Len(gs) > 1
  <2>1. Len(gs) \in Nat /\ DOMAIN gs = 1 .. Len(gs)
    BY DEF Laid
  <2> QED BY <2>1
<1>2. Cardinality(P) = 1
  BY <1>1 DEF LayoutExpresses
<1>3. \A d \in D : \A h \in ToSet(gs[d].layers) :
        gs[d].spec[h].page \in P /\ gs[d].spec[h].page \in Nat
  <2> TAKE d \in D
  <2> TAKE h \in ToSet(gs[d].layers)
  <2>1. gs[d].spec[h].page \in Nat
    BY DEF Laid
  <2>2. gs[d] \in ToSet(gs)
    BY DEF ToSet
  <2> QED BY <2>1, <2>2
<1>4. \A x \in P : x \in Nat /\ x <= bytes
  <2> TAKE x \in P
  <2>1. PICK g \in ToSet(gs) : x \in {g.spec[h].page : h \in ToSet(g.layers)}
    OBVIOUS
  <2>2. PICK d \in D : g = gs[d]
    BY <2>1 DEF ToSet
  <2>3. PICK h \in ToSet(gs[d].layers) : x = gs[d].spec[h].page
    BY <2>1, <2>2
  <2>4. 1 \in Nat /\ 0 \in 0 .. 1 - 1
    OBVIOUS
  <2>5. /\ x \in Nat /\ bytes \in Nat /\ Place(gs[d], h) \in Nat
        /\ Place(gs[d], h) + x <= bytes
    BY <2>3, <2>4, AtFacts
  <2> HIDE DEF bytes
  <2> QED BY <2>5
<1>5. IsFiniteSet(P)
  <2>1. bytes \in Nat
    BY WidestFacts
  <2>2. P \in SUBSET Nat
    BY <1>4
  <2> HIDE DEF P, bytes
  <2> QED BY <1>4, <2>1, <2>2, FS_BoundedSetOfNaturals
<1> HIDE DEF P
<1>6. PICK p : P = {p}
  BY <1>2, <1>5, FS_Singleton
<1>7. p \in Nat
  BY <1>3, <1>6
<1> QED BY <1>3, <1>6, <1>7

Clear(gs, x, y) ==
  x = y \/ Apart(x, y) \/ (x.block = y.block /\ ~SameGroup(gs, x.layer, y.layer))

LEMMA PairApart ==
  ASSUME NEW gs, NEW owned, Laid(gs, owned), NEW layout, LayoutExpresses(layout, gs),
         layout.outermost \/ layout.layer_compact, NEW n \in Nat,
         NEW k \in DOMAIN gs, NEW i \in ToSet(gs[k].layers), NEW b \in 0 .. n - 1,
         NEW l \in DOMAIN gs, NEW j \in ToSet(gs[l].layers), NEW c \in 0 .. n - 1
  PROVE  Clear(gs, PageOf(gs[k], i, b, BytesPerBlock(gs), n, layout.outermost),
                   PageOf(gs[l], j, c, BytesPerBlock(gs), n, layout.outermost))
<1> DEFINE bytes == BytesPerBlock(gs)
           x == PageOf(gs[k], i, b, bytes, n, layout.outermost)
           y == PageOf(gs[l], j, c, bytes, n, layout.outermost)
<1> SUFFICES Clear(gs, x, y)
  OBVIOUS
<1> DEFINE m == Place(gs[k], i)
           m2 == Place(gs[l], j)
           p == gs[k].spec[i].page
           p2 == gs[l].spec[j].page
<1>1. /\ p \in Nat /\ bytes \in Nat /\ m \in Nat /\ m + p <= bytes
      /\ p2 \in Nat /\ m2 \in Nat /\ m2 + p2 <= bytes
  BY AtFacts
<1>2. b \in Nat /\ c \in Nat
  OBVIOUS
<1>3. /\ x.page = p /\ x.block = b /\ x.layer = i
      /\ x.at = IF layout.outermost THEN m + b * bytes ELSE m * n + b * p
      /\ y.page = p2 /\ y.block = c /\ y.layer = j
      /\ y.at = IF layout.outermost THEN m2 + c * bytes ELSE m2 * n + c * p2
  BY DEF PageOf, At
<1>4. ASSUME b = c, k # l PROVE ~SameGroup(gs, i, j)
  <2> SUFFICES ASSUME NEW h \in DOMAIN gs, {i, j} \subseteq ToSet(gs[h].layers) PROVE FALSE
    BY DEF SameGroup
  <2>1. h = k /\ h = l
    BY DEF Laid
  <2> QED BY <1>4, <2>1
<1>5. ASSUME k = l, i # j PROVE m + p <= m2 \/ m2 + p2 <= m
  <2>1. Whole(gs[k])
    BY NameFacts
  <2> QED BY <1>5, <2>1, PlacesApart
<1>6. ASSUME k = l, i = j PROVE m = m2 /\ p = p2
  BY <1>6
<1>7. ASSUME k # l, layout.layer_compact
      PROVE  p = p2 /\ (m = m2 \/ m + p <= m2 \/ m2 + p2 <= m)
  <2>1. PICK q \in Nat : /\ \A h \in ToSet(gs[k].layers) : gs[k].spec[h].page = q
                         /\ \A h \in ToSet(gs[l].layers) : gs[l].spec[h].page = q
    BY <1>7, OnePage
  <2>2. Whole(gs[k]) /\ Whole(gs[l])
    BY NameFacts
  <2>3. p = q /\ p2 = q
    BY <2>1
  <2>4. Multiple(m, q) /\ Multiple(m2, q)
    BY <2>1, <2>2, PlaceMultiple
  <2> HIDE DEF m, m2, p, p2
  <2>5. PICK u \in Nat : m = q * u
    BY <2>4 DEF Multiple
  <2>6. PICK v \in Nat : m2 = q * v
    BY <2>4 DEF Multiple
  <2>7. ASSUME NEW s \in Nat, NEW t \in Nat, s < t PROVE q * s + q <= q * t
    <3>1. s + 1 \in Nat /\ s + 1 <= t
      BY <2>7
    <3>2. q * (s + 1) <= q * t
      BY <3>1, Times
    <3>3. q * (s + 1) = q * s + q
      OBVIOUS
    <3> QED BY <3>2, <3>3
  <2>8. u = v \/ u < v \/ v < u
    OBVIOUS
  <2> QED BY <2>3, <2>5, <2>6, <2>7, <2>8
<1>8. ASSUME k = l, i = j, b = c PROVE x = y
  BY <1>8
<1> HIDE DEF bytes, m, m2, p, p2, x, y
<1>9. CASE b = c /\ k # l
  BY <1>3, <1>4, <1>9 DEF Clear
<1>10. CASE k = l /\ i = j /\ b = c
  BY <1>8, <1>10 DEF Clear
<1>11. CASE layout.outermost /\ b = c /\ k = l /\ i # j
  <2>1. x.at = m + b * bytes /\ y.at = m2 + b * bytes /\ b * bytes \in Nat
    BY <1>1, <1>2, <1>3, <1>11
  <2>2. m + p <= m2 \/ m2 + p2 <= m
    BY <1>5, <1>11
  <2>3. x.at + x.page <= y.at \/ y.at + y.page <= x.at
    BY <1>1, <1>3, <2>1, <2>2
  <2> QED BY <2>3 DEF Apart, Clear
<1>12. CASE layout.outermost /\ b # c
  <2>1. x.at = m + b * bytes /\ y.at = m2 + c * bytes /\ b * bytes \in Nat /\ c * bytes \in Nat
    BY <1>1, <1>2, <1>3, <1>12
  <2>2. b < c => 0 + b * bytes + bytes <= 0 + c * bytes
    BY <1>1, <1>2, StepApart
  <2>3. c < b => 0 + c * bytes + bytes <= 0 + b * bytes
    BY <1>1, <1>2, StepApart
  <2>4. b < c \/ c < b
    BY <1>2, <1>12
  <2>5. x.at + x.page <= y.at \/ y.at + y.page <= x.at
    BY <1>1, <1>3, <2>1, <2>2, <2>3, <2>4
  <2> QED BY <2>5 DEF Apart, Clear
<1>13. CASE ~layout.outermost /\ ~(b = c /\ k # l) /\ ~(k = l /\ i = j /\ b = c)
  <2>1. x.at = m * n + b * p /\ y.at = m2 * n + c * p2
    BY <1>3, <1>13
  <2>2. m + p <= m2 \/ m2 + p2 <= m \/ (m = m2 /\ p = p2 /\ b # c)
    BY <1>5, <1>6, <1>7, <1>13
  <2>3. CASE m + p <= m2
    <3>1. m * n + b * p + p <= m2 * n + c * p2
      BY <1>1, <2>3, SideBySide
    <3>2. x.at + x.page <= y.at
      BY <1>3, <2>1, <3>1
    <3> QED BY <3>2 DEF Apart, Clear
  <2>4. CASE m2 + p2 <= m
    <3>1. m2 * n + c * p2 + p2 <= m * n + b * p
      BY <1>1, <2>4, SideBySide
    <3>2. y.at + y.page <= x.at
      BY <1>3, <2>1, <3>1
    <3> QED BY <3>2 DEF Apart, Clear
  <2>5. CASE m = m2 /\ p = p2 /\ b # c
    <3>1. m * n \in Nat /\ p <= p
      BY <1>1
    <3>2. b < c => m * n + b * p + p <= m * n + c * p
      BY <1>1, <1>2, <3>1, StepApart
    <3>3. c < b => m * n + c * p + p <= m * n + b * p
      BY <1>1, <1>2, <3>1, StepApart
    <3>4. b < c \/ c < b
      BY <1>2, <2>5
    <3>5. x.at + x.page <= y.at \/ y.at + y.page <= x.at
      BY <1>3, <2>1, <2>5, <3>2, <3>3, <3>4
    <3> QED BY <3>5 DEF Apart, Clear
  <2> QED BY <2>2, <2>3, <2>4, <2>5
<1> QED BY <1>9, <1>10, <1>11, <1>12, <1>13

(* What PagesApart says of a worker.                                       *)
WorkerApart(config, gs, owned) ==
  LET pages == PagesOfConfig(config, owned) IN
  /\ {<<x.layer, x.block>> : x \in pages} = owned \X (0 .. config.num_blocks - 1)
  /\ \A x \in pages : x.at >= 0 /\ x.at + x.page <= config.size
  /\ \A x, y \in pages :
       \/ x = y \/ Apart(x, y)
       \/ x.block = y.block /\ ~SameGroup(gs, x.layer, y.layer)

LEMMA ConfigApart ==
  ASSUME NEW gs, NEW owned, Laid(gs, owned), LayersOf(gs, DOMAIN gs) = owned,
         NEW layout, LayoutExpresses(layout, gs), layout.outermost \/ layout.layer_compact,
         NEW n \in Nat, NEW config, config.num_blocks = n,
         config.size = BytesPerBlock(gs) * n, BytesPerBlock(gs) \in Nat,
         config.tensors = TensorsOf(gs, BytesPerBlock(gs), n, layout.outermost)
  PROVE  WorkerApart(config, gs, owned)
<1> DEFINE bytes == BytesPerBlock(gs)
           pages == PagesOfConfig(config, owned)
           page(k, i, b) == PageOf(gs[k], i, b, bytes, n, layout.outermost)
<1>1. /\ \A x \in pages : \E k \in DOMAIN gs : \E i \in ToSet(gs[k].layers) :
           \E b \in 0 .. n - 1 : x = page(k, i, b)
      /\ \A k \in DOMAIN gs : \A i \in ToSet(gs[k].layers) : \A b \in 0 .. n - 1 :
           page(k, i, b) \in pages
  BY PagesAre
<1>2. \A k \in DOMAIN gs : \A i, b :
        /\ page(k, i, b).layer = i /\ page(k, i, b).block = b
        /\ page(k, i, b).page = gs[k].spec[i].page
        /\ page(k, i, b).at = At(gs[k], i, b, bytes, n, layout.outermost)
  BY DEF PageOf
<1>3. \A i : i \in owned <=> \E k \in DOMAIN gs : i \in ToSet(gs[k].layers)
  BY DEF LayersOf
<1>4. {<<x.layer, x.block>> : x \in pages} = owned \X (0 .. n - 1)
  <2> HIDE DEF pages, page
  <2>1. ASSUME NEW x \in pages PROVE <<x.layer, x.block>> \in owned \X (0 .. n - 1)
    <3>1. PICK k \in DOMAIN gs : \E i \in ToSet(gs[k].layers) :
            \E b \in 0 .. n - 1 : x = page(k, i, b)
      BY <1>1
    <3>2. PICK i \in ToSet(gs[k].layers) : \E b \in 0 .. n - 1 : x = page(k, i, b)
      BY <3>1
    <3>3. PICK b \in 0 .. n - 1 : x = page(k, i, b)
      BY <3>2
    <3> QED BY <1>2, <1>3, <3>3
  <2>2. ASSUME NEW i \in owned, NEW b \in 0 .. n - 1
        PROVE  \E x \in pages : x.layer = i /\ x.block = b
    <3>1. PICK k \in DOMAIN gs : i \in ToSet(gs[k].layers)
      BY <1>3
    <3>2. page(k, i, b) \in pages /\ page(k, i, b).layer = i /\ page(k, i, b).block = b
      BY <1>1, <1>2, <3>1
    <3> QED BY <3>2
  <2> QED BY <2>1, <2>2
<1>5. ASSUME NEW x \in pages PROVE x.at >= 0 /\ x.at + x.page <= config.size
  <2>1. PICK k \in DOMAIN gs : \E i \in ToSet(gs[k].layers) :
          \E b \in 0 .. n - 1 : x = page(k, i, b)
    BY <1>1
  <2>2. PICK i \in ToSet(gs[k].layers) : \E b \in 0 .. n - 1 : x = page(k, i, b)
    BY <2>1
  <2>3. PICK b \in 0 .. n - 1 : x = page(k, i, b)
    BY <2>2
  <2>4. /\ At(gs[k], i, b, bytes, n, layout.outermost) \in Nat
        /\ At(gs[k], i, b, bytes, n, layout.outermost) + gs[k].spec[i].page <= bytes * n
    BY AtFacts
  <2> HIDE DEF page, bytes
  <2>5. x.at \in Nat /\ x.at + x.page <= bytes * n
    BY <1>2, <2>3, <2>4
  <2> QED BY <2>5 DEF bytes
<1>6. ASSUME NEW x \in pages, NEW y \in pages
      PROVE  \/ x = y \/ Apart(x, y)
             \/ x.block = y.block /\ ~SameGroup(gs, x.layer, y.layer)
  <2>1. PICK k \in DOMAIN gs : \E i \in ToSet(gs[k].layers) :
          \E b \in 0 .. n - 1 : x = page(k, i, b)
    BY <1>1
  <2>2. PICK i \in ToSet(gs[k].layers) : \E b \in 0 .. n - 1 : x = page(k, i, b)
    BY <2>1
  <2>3. PICK b \in 0 .. n - 1 : x = page(k, i, b)
    BY <2>2
  <2>4. PICK l \in DOMAIN gs : \E j \in ToSet(gs[l].layers) :
          \E c \in 0 .. n - 1 : y = page(l, j, c)
    BY <1>1
  <2>5. PICK j \in ToSet(gs[l].layers) : \E c \in 0 .. n - 1 : y = page(l, j, c)
    BY <2>4
  <2>6. PICK c \in 0 .. n - 1 : y = page(l, j, c)
    BY <2>5
  <2>7. Clear(gs, page(k, i, b), page(l, j, c))
    BY PairApart
  <2> HIDE DEF page, pages, bytes
  <2> QED BY <2>3, <2>6, <2>7 DEF Clear
<1> QED BY <1>4, <1>5, <1>6 DEF WorkerApart

-----------------------------------------------------------------------------
(* The groups of a worker are laid as the contract of the grouping says.   *)

LEMMA OwnedFacts ==
  ASSUME input \in Inputs, NEW v \in Workers
  PROVE  IsFiniteSet(input.owned[v]) /\ input.owned[v] \subseteq DOMAIN input.specs
         /\ DOMAIN input.specs \in SUBSET Nat
<1>1. /\ UNION Range(input.owned) = DOMAIN input.specs
      /\ DOMAIN input.specs = 1 .. Len(input.specs) /\ Len(input.specs) \in Nat
  BY InputsOK
<1>2. input.owned[v] \in Range(input.owned)
  BY DEF Workers, Range
<1>3. input.owned[v] \subseteq DOMAIN input.specs
  BY <1>1, <1>2
<1>4. IsFiniteSet(1 .. Len(input.specs))
  BY <1>1, FS_Interval
<1>5. IsFiniteSet(input.owned[v])
  BY <1>1, <1>3, <1>4, FS_Subset
<1> QED BY <1>1, <1>3, <1>5

LEMMA ProjectFacts ==
  ASSUME NEW D \in SUBSET Nat, NEW g, NEW owned,
         g.layers \in Seq(D), IsInjective(g.layers), DOMAIN g.spec = ToSet(g.layers),
         \A i \in ToSet(g.layers) : g.spec[i].page \in Nat \ {0}
  PROVE  LET q == Project(g, owned) IN
         /\ q.layers \in Seq(Nat) /\ IsInjective(q.layers)
         /\ ToSet(q.layers) = ToSet(g.layers) \cap owned
         /\ ToSet(q.layers) = DOMAIN q.spec \cap owned
         /\ DOMAIN q.spec \in SUBSET Nat /\ IsFiniteSet(DOMAIN q.spec)
         /\ \A i \in DOMAIN q.spec : q.spec[i].page \in Nat \ {0}
<1> DEFINE mine == Only(g.layers, owned)
           q == Project(g, owned)
<1>1. g.layers \in Seq(Nat) /\ IsFiniteSet(ToSet(g.layers)) /\ ToSet(g.layers) \in SUBSET Nat
  <2>1. IsFiniteSet(ToSet(g.layers)) /\ ToSet(g.layers) \in SUBSET D
    BY ListFacts
  <2>2. g.layers \in Seq(Nat)
    <3>1. /\ Len(g.layers) \in Nat
          /\ g.layers \in [1 .. Len(g.layers) -> D]
      OBVIOUS
    <3>2. g.layers \in [1 .. Len(g.layers) -> Nat]
      BY <3>1
    <3> QED BY <3>1, <3>2
  <2> QED BY <2>1, <2>2
<1>2. mine \in Seq(Nat) /\ ToSet(mine) = ToSet(g.layers) \cap owned /\ IsInjective(mine)
  BY <1>1, OnlyFacts
<1>3. q.layers = mine /\ q.spec = IF mine # <<>> THEN Restrict(g.spec, ToSet(mine)) ELSE g.spec
  BY DEF Project
<1> HIDE DEF mine, q
<1>4. CASE mine # <<>>
  <2>1. q.spec = [i \in ToSet(mine) |-> g.spec[i]]
    BY <1>3, <1>4 DEF Restrict
  <2>2. DOMAIN q.spec = ToSet(mine) /\ \A i \in ToSet(mine) : q.spec[i] = g.spec[i]
    BY <2>1
  <2>3. IsFiniteSet(ToSet(mine))
    BY <1>1, <1>2, FS_Subset
  <2> QED BY <1>1, <1>2, <1>3, <2>2, <2>3 DEF q
<1>5. CASE mine = <<>>
  <2>1. q.spec = g.spec
    BY <1>3, <1>5
  <2>2. ToSet(mine) = {}
    BY <1>5 DEF ToSet
  <2> QED BY <1>1, <1>2, <1>3, <2>1, <2>2 DEF q
<1> QED BY <1>4, <1>5

(* A worker's part of groups that have no layer in common.                 *)
LEMMA LaidParts ==
  ASSUME NEW x, GroupsDisjoint(x), DOMAIN x.specs \in SUBSET Nat, NEW owned
  PROVE  Laid([k \in DOMAIN AllGroups(x) |-> Project(AllGroups(x)[k], owned)], owned)
<1> DEFINE all == AllGroups(x)
           gs == [k \in DOMAIN all |-> Project(all[k], owned)]
<1>1. /\ DOMAIN all = 1 .. Len(all) /\ Len(all) \in Nat
      /\ \A k \in DOMAIN all :
           /\ all[k].layers \in Seq(DOMAIN x.specs) /\ IsInjective(all[k].layers)
           /\ DOMAIN all[k].spec = ToSet(all[k].layers)
           /\ \A i \in ToSet(all[k].layers) :
                /\ all[k].spec[i].page \in Nat \ {0}
                /\ \A l \in DOMAIN all : i \in ToSet(all[l].layers) => l = k
  BY DEF GroupsDisjoint
<1> HIDE DEF all
<1>2. \A k \in DOMAIN gs : gs[k] = Project(all[k], owned)
  OBVIOUS
<1>3. DOMAIN gs = DOMAIN all
  OBVIOUS
<1>4. Len(gs) = Len(all) /\ DOMAIN gs = 1 .. Len(gs) /\ Len(gs) \in Nat
  BY <1>1
<1> HIDE DEF gs
<1>5. ASSUME NEW k \in DOMAIN gs
      PROVE  /\ gs[k].layers \in Seq(Nat) /\ IsInjective(gs[k].layers)
             /\ ToSet(gs[k].layers) = ToSet(all[k].layers) \cap owned
             /\ ToSet(gs[k].layers) = DOMAIN gs[k].spec \cap owned
             /\ DOMAIN gs[k].spec \in SUBSET Nat /\ IsFiniteSet(DOMAIN gs[k].spec)
             /\ \A i \in DOMAIN gs[k].spec : gs[k].spec[i].page \in Nat \ {0}
  <2>1. /\ all[k].layers \in Seq(DOMAIN x.specs) /\ IsInjective(all[k].layers)
        /\ DOMAIN all[k].spec = ToSet(all[k].layers)
        /\ \A i \in ToSet(all[k].layers) : all[k].spec[i].page \in Nat \ {0}
    BY <1>1, <1>3
  <2> QED BY <1>2, <2>1, ProjectFacts
<1>6. ASSUME NEW k \in DOMAIN gs, NEW i \in ToSet(gs[k].layers), NEW l \in DOMAIN gs,
             i \in ToSet(gs[l].layers)
      PROVE  l = k
  <2>1. i \in ToSet(all[k].layers) /\ i \in ToSet(all[l].layers)
    BY <1>5, <1>6
  <2> QED BY <1>1, <1>3, <2>1
<1>7. Laid(gs, owned)
  BY <1>4, <1>5, <1>6 DEF Laid
<1> QED BY <1>7 DEF gs, all

LEMMA LaidGroups ==
  ASSUME input \in Inputs, ~Empty(input), ~Starved(input), groups = WorkerGroups(input),
         NEW v \in Workers
  PROVE  Laid(groups[v], input.owned[v])
<1> DEFINE all == AllGroups(input)
           gs == [k \in DOMAIN all |-> Project(all[k], input.owned[v])]
<1>1. groups[v] = gs
  BY DEF WorkerGroups, Workers
<1>2. CASE all = <<>>
  <2>1. gs = <<>>
    BY <1>2
  <2>2. Len(gs) = 0 /\ DOMAIN gs = {}
    BY <2>1
  <2>3. DOMAIN gs = 1 .. Len(gs)
    BY <2>2
  <2> QED BY <1>1, <2>2, <2>3 DEF Laid
<1>3. CASE all # <<>>
  <2>1. GroupsDisjoint(input) /\ DOMAIN input.specs \in SUBSET Nat
    BY <1>3, GroupingOK, OwnedFacts DEF Workers, SizesAgree
  <2>2. Laid(gs, input.owned[v])
    BY <2>1, LaidParts
  <2> QED BY <1>1, <2>2
<1> QED BY <1>2, <1>3

(* A plan of which no layer is missing is of exactly the worker's layers.  *)
LEMMA AllPlaced ==
  ASSUME input \in Inputs, ~Empty(input), ~Starved(input), groups = WorkerGroups(input),
         NEW v \in Workers, Assigned(v)
  PROVE  LayersOf(groups[v], DOMAIN groups[v]) = input.owned[v]
<1> DEFINE gs == groups[v]
           own == input.owned[v]
           L == LayersOf(gs, DOMAIN gs)
<1>1. Laid(gs, own)
  BY LaidGroups
<1>2. IsFiniteSet(own)
  BY OwnedFacts
<1>3. LayerCount(gs) = Cardinality(own)
  BY DEF Assigned
<1>4. L \subseteq own /\ LayerCount(gs) = Cardinality(L)
  BY <1>1, Counted
<1>5. Cardinality(L) = Cardinality(own)
  BY <1>3, <1>4
<1> HIDE DEF L, own, gs
<1>6. L = own
  BY <1>2, <1>4, <1>5, FS_Subset
<1> QED BY <1>6 DEF L, own, gs

-----------------------------------------------------------------------------
(* The invariant of the layout: every plan made passed its checks, and     *)
(* outside a search none is on record.                                     *)

Holds(v) ==
  Assigned(v) /\ (groups[v] # <<>> => LayoutExpresses(input.layout, groups[v]))
Placed == pc = "plan" => \A v \in 1 .. w - 1 : Holds(v)
Shaped ==
  /\ pc \notin {"fit_search", "check_search"} => search = NoSearch
  /\ groups = <<>> \/ DOMAIN groups = Workers
  /\ pc = "group" => groups = <<>>
  /\ \A v \in DOMAIN configs : configs[v].num_blocks > 0 /\ configs[v].size \in Nat
ApartInv == ConfigInv /\ Placed /\ Shaped /\ PagesApart

LEMMA EvenApart ==
  ASSUME input \in Inputs, ~Empty(input), ~Starved(input), groups = WorkerGroups(input),
         NEW v \in Workers, Holds(v), NEW n \in Nat \ {0}
  PROVE  WorkerApart(Even(v, n), groups[v], input.owned[v])
<1> DEFINE gs == groups[v]
           own == input.owned[v]
           config == Even(v, n)
<1>1. Laid(gs, own)
  BY LaidGroups
<1>2. LayersOf(gs, DOMAIN gs) = own
  BY AllPlaced DEF Holds
<1>3. CASE gs = <<>>
  <2>1. own = {}
    BY <1>2, <1>3 DEF LayersOf
  <2>2. config = [num_blocks |-> 1, size |-> 0, tensors |-> {}]
    BY <1>3 DEF Even
  <2> HIDE DEF config
  <2>3. PagesOfConfig(config, own) = {}
    BY <2>2 DEF PagesOfConfig
  <2> HIDE DEF own
  <2>4. WorkerApart(config, gs, own)
    BY <2>1, <2>3 DEF WorkerApart
  <2> QED BY <2>4 DEF config, own
<1>4. CASE gs # <<>>
  <2>1. config = [num_blocks |-> n, size |-> BytesPerBlock(gs) * n,
                  tensors |-> TensorsOf(gs, BytesPerBlock(gs), n, input.layout.outermost)]
    BY <1>4 DEF Even, Bytes
  <2>2. LayoutExpresses(input.layout, gs)
    BY <1>4 DEF Holds
  <2>3. input.layout.outermost \/ input.layout.layer_compact
    BY InputsOK
  <2>4. BytesPerBlock(gs) \in Nat
    <3>1. Sized
      BY <1>4, NoGroups
    <3> QED BY <3>1, SizeFacts DEF Bytes
  <2> HIDE DEF config, gs, own
  <2>5. /\ config.num_blocks = n /\ config.size = BytesPerBlock(gs) * n
        /\ config.tensors = TensorsOf(gs, BytesPerBlock(gs), n, input.layout.outermost)
    BY <2>1
  <2> DEFINE layout == input.layout
  <2>6. /\ LayoutExpresses(layout, gs)
        /\ layout.outermost \/ layout.layer_compact
        /\ config.tensors = TensorsOf(gs, BytesPerBlock(gs), n, layout.outermost)
    BY <2>2, <2>3, <2>5
  <2> HIDE DEF layout
  <2>7. n \in Nat
    OBVIOUS
  <2>8. WorkerApart(config, gs, own)
    <3>1. config.num_blocks = n /\ config.size = BytesPerBlock(gs) * n
      BY <2>5
    <3> QED BY <1>1, <1>2, <2>4, <2>6, <2>7, <3>1, ConfigApart
  <2> QED BY <2>8 DEF config, gs, own
<1> QED BY <1>3, <1>4

LEMMA ShrinkApart ==
  ASSUME SearchInv, Planned, Placed, Shrink
  PROVE  PagesApart'
<1>1. PICK n \in Nat \ {0} : DOMAIN configs' = Workers /\ Evened(n)
  BY ShrinkEvens
<1>2. /\ pc = "plan" /\ w \notin Workers /\ UNCHANGED <<input, groups>>
  BY DEF Shrink
<1>3. /\ input \in Inputs /\ groups = WorkerGroups(input) /\ ~Empty(input) /\ ~Starved(input)
      /\ w \in 1 .. Len(input.owned) + 1
  BY <1>2 DEF SearchInv, Typed, Grouped
<1>4. Len(input.owned) \in Nat /\ Workers = 1 .. Len(input.owned)
  BY <1>3, InputFacts
<1>5. \A v \in Workers : Holds(v)
  <2>1. w - 1 = Len(input.owned)
    BY <1>2, <1>3, <1>4
  <2> QED BY <1>2, <1>4, <2>1 DEF Placed
<1>6. \A v \in Workers : WorkerApart(configs'[v], groups[v], input.owned[v])
  BY <1>1, <1>3, <1>5, EvenApart DEF Evened
<1>7. Workers' = Workers /\ groups' = groups /\ input' = input
  BY <1>2, Unmoved
<1> QED BY <1>6, <1>7 DEF PagesApart, WorkerApart

LEMMA PlanPlaces ==
  ASSUME SearchInv, Placed, Plan
  PROVE  Placed'
<1>1. /\ pc = "plan" /\ w \in Workers /\ UNCHANGED <<input, groups>>
      /\ \/ Holds(w) /\ w' = w + 1 /\ pc' = pc
         \/ pc' = "failed"
  BY DEF Plan, Holds
<1>2. CASE pc' = "failed"
  BY <1>2 DEF Placed
<1>3. CASE Holds(w) /\ w' = w + 1 /\ pc' = pc
  <2>1. Len(input.owned) \in Nat /\ Workers = 1 .. Len(input.owned)
    BY InputFacts DEF SearchInv, Typed
  <2>2. \A v \in 1 .. w' - 1 : v \in 1 .. w - 1 \/ v = w
    BY <1>1, <1>3, <2>1
  <2>3. \A v \in 1 .. w' - 1 : Holds(v)
    BY <1>1, <1>3, <2>2 DEF Placed
  <2>4. \A v : Holds(v)' <=> Holds(v)
    BY <1>1 DEF Holds, Assigned
  <2> QED BY <2>3, <2>4 DEF Placed
<1> QED BY <1>1, <1>2, <1>3

LEMMA PlanShapes ==
  ASSUME SearchInv, Planned, Shaped, Plan
  PROVE  \A v \in DOMAIN configs' : configs'[v].num_blocks > 0 /\ configs'[v].size \in Nat
<1>1. /\ pc = "plan" /\ w \in Workers
      /\ configs' = Append(configs, Pool(w)) \/ configs' = configs
  BY DEF Plan, Pool
<1>2. Pool(w).num_blocks > 0 /\ Pool(w).size \in Nat
  BY <1>1, PoolPositive
<1>3. configs \in Seq({Pool(v) : v \in Workers})
  BY <1>1 DEF Planned
<1> DEFINE Pools == {Pool(v) : v \in Workers}
           last == Pool(w)
<1>4. last \in Pools /\ configs \in Seq(Pools)
  BY <1>1, <1>3
<1> HIDE DEF Pools, last
<1>5. CASE configs' = Append(configs, last)
  <2>1. /\ DOMAIN configs' = 1 .. Len(configs) + 1 /\ Len(configs) \in Nat
        /\ configs'[Len(configs) + 1] = last
        /\ \A v \in 1 .. Len(configs) : configs'[v] = configs[v]
        /\ DOMAIN configs = 1 .. Len(configs)
    BY <1>4, <1>5
  <2>2. \A v \in DOMAIN configs' : v \in DOMAIN configs \/ v = Len(configs) + 1
    BY <2>1
  <2> QED BY <1>2, <2>1, <2>2 DEF Shaped, last
<1>6. CASE configs' = configs
  BY <1>6 DEF Shaped
<1> QED BY <1>1, <1>5, <1>6 DEF last

LEMMA ShapedStep ==
  ASSUME SearchInv, Planned, Shaped, [Next]_vars
  PROVE  Shaped'
<1>1. input' = input /\ Workers' = Workers /\ NoSearch' = NoSearch
  BY DEF Next, vars, Group, ProbeFirst, Probe, SearchEnds, Fitted, Check, Plan, Shrink, Workers,
         NoSearch
<1>2. (groups = <<>> \/ DOMAIN groups = Workers)
      /\ (pc \notin {"fit_search", "check_search"} => search = NoSearch)
      /\ \A v \in DOMAIN configs : configs[v].num_blocks > 0 /\ configs[v].size \in Nat
  BY DEF Shaped
<1>3. CASE Group
  <2>1. groups' = <<>> \/ groups' = WorkerGroups(input)
    BY <1>3 DEF Group
  <2>2. DOMAIN WorkerGroups(input) = Workers
    BY DEF WorkerGroups, Workers
  <2>3. pc = "group" /\ search' = search /\ configs' = configs /\ pc' # "group"
    BY <1>3 DEF Group
  <2> QED BY <1>1, <1>2, <2>1, <2>2, <2>3 DEF Shaped
<1>4. CASE ProbeFirst
  <2>1. groups' = groups /\ configs' = configs /\ pc' \in {"fit_search", "check_search"}
    BY <1>4 DEF ProbeFirst
  <2> QED BY <1>1, <1>2, <2>1 DEF Shaped
<1>5. CASE Probe
  <2>1. groups' = groups /\ configs' = configs /\ pc' \in {"fit_search", "check_search"}
    BY <1>5 DEF Probe
  <2> QED BY <1>1, <1>2, <2>1 DEF Shaped
<1>6. CASE SearchEnds
  <2>1. groups' = groups /\ configs' = configs /\ search' = NoSearch /\ pc' \in {"fit", "failed"}
    BY <1>6 DEF SearchEnds
  <2> QED BY <1>1, <1>2, <2>1 DEF Shaped
<1>7. CASE Fitted
  <2>1. groups' = groups /\ configs' = configs /\ search' = search
        /\ pc' \in {"check", "failed"} /\ pc = "fit"
    BY <1>7 DEF Fitted
  <2> QED BY <1>1, <1>2, <2>1 DEF Shaped
<1>8. CASE Check
  <2>1. groups' = groups /\ configs' = configs /\ search' = search
        /\ pc' \in {"check", "plan", "failed"} /\ pc = "check"
    BY <1>8 DEF Check
  <2> QED BY <1>1, <1>2, <2>1 DEF Shaped
<1>9. CASE Plan
  <2>1. groups' = groups /\ search' = search /\ pc' \in {"plan", "failed"} /\ pc = "plan"
    BY <1>9 DEF Plan
  <2>2. \A v \in DOMAIN configs' : configs'[v].num_blocks > 0 /\ configs'[v].size \in Nat
    BY <1>9, PlanShapes
  <2> QED BY <1>1, <1>2, <2>1, <2>2 DEF Shaped
<1>10. CASE Shrink
  <2>1. groups' = groups /\ search' = search /\ pc' = "done" /\ pc = "plan"
    BY <1>10 DEF Shrink
  <2>2. PICK n \in Nat \ {0} : DOMAIN configs' = Workers /\ Evened(n)
    BY <1>10, ShrinkEvens
  <2>3. input \in Inputs /\ groups = WorkerGroups(input) /\ ~Empty(input) /\ ~Starved(input)
    BY <2>1 DEF SearchInv, Typed, Grouped
  <2>4. ASSUME NEW v \in Workers
        PROVE  Even(v, n).num_blocks > 0 /\ Even(v, n).size \in Nat
    <3>1. CASE groups[v] = <<>>
      BY <3>1 DEF Even
    <3>2. CASE groups[v] # <<>>
      <4>1. Sized
        BY <2>3, <3>2, NoGroups
      <4>2. Bytes(v) \in Nat
        BY <2>3, <4>1, SizeFacts
      <4>3. Bytes(v) * n \in Nat
        BY <4>2
      <4> QED BY <3>2, <4>3 DEF Even
    <3> QED BY <3>1, <3>2
  <2>5. \A v \in DOMAIN configs' : configs'[v].num_blocks > 0 /\ configs'[v].size \in Nat
    BY <2>2, <2>4 DEF Evened
  <2> QED BY <1>1, <1>2, <2>1, <2>5 DEF Shaped
<1>11. CASE UNCHANGED vars
  BY <1>1, <1>11 DEF Shaped, vars
<1> QED BY <1>3, <1>4, <1>5, <1>6, <1>7, <1>8, <1>9, <1>10, <1>11 DEF Next

LEMMA PlacedStep ==
  ASSUME SearchInv, Planned, Placed, PagesApart, [Next]_vars
  PROVE  Placed' /\ PagesApart'
<1>1. CASE Plan
  <2>1. pc' # "done"
    BY <1>1 DEF Plan
  <2> QED BY <1>1, <2>1, PlanPlaces DEF PagesApart
<1>2. CASE Shrink
  <2>1. pc' = "done"
    BY <1>2 DEF Shrink
  <2> QED BY <1>2, <2>1, ShrinkApart DEF Placed
<1>3. CASE Group
  <2>1. w = 1
    BY <1>3 DEF Group, SearchInv, Grouped
  <2>2. pc' # "done" /\ w' = 1
    <3>1. w' = w /\ pc' \in {"failed", "plan", "fit", "check"}
      BY <1>3 DEF Group
    <3> QED BY <2>1, <3>1
  <2> QED BY <2>2 DEF Placed, PagesApart
<1>4. CASE Check
  <2>1. pc' # "done" /\ (pc' = "plan" => w' = 1)
    BY <1>4 DEF Check
  <2> QED BY <2>1 DEF Placed, PagesApart
<1>5. CASE ProbeFirst \/ Probe \/ SearchEnds \/ Fitted
  <2>1. pc' \notin {"plan", "done"}
    BY <1>5 DEF ProbeFirst, Probe, SearchEnds, Fitted
  <2> QED BY <2>1 DEF Placed, PagesApart
<1>6. CASE UNCHANGED vars
  <2>1. UNCHANGED <<input, pc, groups, w, configs>>
    BY <1>6 DEF vars
  <2>2. \A v : Holds(v)' <=> Holds(v)
    BY <2>1 DEF Holds, Assigned
  <2>3. Workers' = Workers
    BY <2>1 DEF Workers
  <2> QED BY <2>1, <2>2, <2>3 DEF Placed, PagesApart
<1> QED BY <1>1, <1>2, <1>3, <1>4, <1>5, <1>6 DEF Next

LEMMA InvariantApart == Spec => []ApartInv
<1>1. Init => Placed /\ Shaped /\ PagesApart
  BY DEF Init, Placed, Shaped, PagesApart
<1>2. ConfigInv /\ Placed /\ Shaped /\ PagesApart /\ [Next]_vars => Placed' /\ Shaped' /\ PagesApart'
  BY PlacedStep, ShapedStep DEF ConfigInv
<1> QED BY <1>1, <1>2, Invariant, PTL DEF Spec, ApartInv

-----------------------------------------------------------------------------

(* What sizing promises: the engine starts with pools of as many blocks on *)
(* every worker, each within its memory, that hold a request of the length *)
(* served besides the null block.                                          *)
THEOREM Serves == Spec => []PoolServesOneRequest
<1>1. ConfigInv => PoolServesOneRequest
  BY DEF ConfigInv
<1> QED BY <1>1, Invariant, PTL

(* The search for the length: what is served fits every worker, a fitted   *)
(* length is the largest that does, and a start that fails leaves no length*)
(* that a search was trying.                                               *)
THEOREM Largest == Spec => []LengthIsLargest
<1>1. ConfigInv => LengthIsLargest
  <2> SUFFICES ASSUME ConfigInv PROVE LengthIsLargest
    OBVIOUS
  <2>1. SearchInv
    BY DEF ConfigInv
  <2>2. pc = "failed" => max_model_len \in {input.len, auto_fit_max}
    BY <2>1 DEF SearchInv, Chosen
  <2>3. CASE pc = "done" /\ ~Sized
    <3>1. \A v \in Workers : groups[v] = <<>>
      BY <2>1, <2>3, NoGroups DEF SearchInv, Typed, Grouped
    <3>2. max_model_len = input.len
      BY <2>1, <2>3 DEF SearchInv, Chosen
    <3> QED BY <2>2, <3>1, <3>2 DEF LengthIsLargest
  <2>4. CASE pc = "done" /\ Sized
    <3>1. /\ input \in Inputs /\ groups = WorkerGroups(input) /\ max_model_len \in 1 .. input.len
          /\ \A v \in Workers : Fits(v, max_model_len)
          /\ \/ max_model_len = input.len
             \/ input.auto /\ \E v \in Workers : ~Fits(v, max_model_len + 1)
      BY <2>1, <2>4 DEF SearchInv, Typed, Grouped, Chosen
    <3>2. input.len \in Nat
      BY <3>1, InputFacts
    <3>3. ASSUME max_model_len # input.len, NEW len \in max_model_len + 1 .. input.len
          PROVE  \E v \in Workers : groups[v] # <<>> /\ ~Fits(v, len)
      <4>1. PICK v \in Workers : ~Fits(v, max_model_len + 1)
        BY <3>1, <3>3
      <4>2. max_model_len + 1 \in 1 .. input.len
        BY <3>1, <3>2, <3>3
      <4>3. ~Fits(v, len)
        BY <2>4, <3>1, <4>1, <4>2, FitFacts
      <4>4. groups[v] # <<>>
        BY <2>4, <3>1, SizeFacts
      <4> QED BY <4>3, <4>4
    <3> QED BY <2>2, <2>4, <3>1, <3>3 DEF LengthIsLargest
  <2>5. CASE pc # "done"
    BY <2>2, <2>5 DEF LengthIsLargest
  <2> QED BY <2>3, <2>4, <2>5
<1> QED BY <1>1, Invariant, PTL

(* Types: the length stays within the one configured, a search within its  *)
(* bounds, and every pool has at least a block.                            *)
THEOREM TypeCorrect == Spec => []TypeOK
<1>1. ApartInv => TypeOK
  <2> SUFFICES ASSUME ApartInv PROVE TypeOK
    OBVIOUS
  <2>1. Typed /\ Searching /\ Shaped
    BY DEF ApartInv, ConfigInv, SearchInv
  <2>2. input.len \in Nat \ {0}
    BY <2>1, InputFacts DEF Typed
  <2>3. search \in [left : 0 .. input.len + 1, right : 0 .. input.len,
                    result : 0 .. input.len, original : 0 .. input.len]
    <3>1. CASE pc \in {"fit_search", "check_search"}
      <4>1. /\ search \in [left : Nat, right : Nat, result : Nat, original : 1 .. input.len]
            /\ search.left <= search.right + 1 /\ search.right <= search.original
            /\ search.result <= search.right
        BY <2>1, <3>1 DEF Searching
      <4>2. /\ search = [left |-> search.left, right |-> search.right,
                         result |-> search.result, original |-> search.original]
            /\ search.left \in Nat /\ search.right \in Nat /\ search.result \in Nat
            /\ search.original \in 1 .. input.len
        BY <4>1
      <4>3. /\ search.left \in 0 .. input.len + 1 /\ search.right \in 0 .. input.len
            /\ search.result \in 0 .. input.len /\ search.original \in 0 .. input.len
        BY <2>2, <4>1, <4>2
      <4> QED BY <4>2, <4>3
    <3>2. CASE pc \notin {"fit_search", "check_search"}
      <4>1. search = [left |-> 0, right |-> 0, result |-> 0, original |-> 0]
        BY <2>1, <3>2 DEF Shaped, NoSearch
      <4>2. 0 \in 0 .. input.len + 1 /\ 0 \in 0 .. input.len
        BY <2>2
      <4> QED BY <4>1, <4>2
    <3> QED BY <3>1, <3>2
  <2> QED BY <2>1, <2>3 DEF TypeOK, Typed, Shaped
<1> QED BY <1>1, InvariantApart, PTL

(* The layout: every layer has a page for every block, inside the pool, and*)
(* pages overlap only in the same block of different groups.               *)
THEOREM LaidApart == Spec => []PagesApart
<1>1. ApartInv => PagesApart
  BY DEF ApartInv
<1> QED BY <1>1, InvariantApart, PTL

-----------------------------------------------------------------------------
(* The grouping itself: no model puts a layer in two groups.               *)

(* Extremes of a finite set of numbers.                                    *)
LEMMA LargestIn ==
  ASSUME NEW S \in SUBSET Nat, IsFiniteSet(S), S # {}
  PROVE  Max(S) \in S /\ \A x \in S : x <= Max(S)
<1> DEFINE id == [x \in S |-> x]
<1>1. \A x \in S : id[x] \in Nat /\ id[x] = x
  OBVIOUS
<1> HIDE DEF id
<1>2. \E x \in S : \A y \in S : id[y] <= id[x]
  BY <1>1, LargestOf
<1>3. \E x \in S : \A y \in S : x >= y
  BY <1>1, <1>2
<1>4. Max(S) \in S /\ \A x \in S : Max(S) >= x
  BY <1>3 DEF Max
<1> QED BY <1>4

LEMMA LeastIn ==
  ASSUME NEW S \in SUBSET Nat, S # {}
  PROVE  Min(S) \in S /\ \A x \in S : Min(S) <= x
<1>1. PICK k \in S : \A j \in S : <<j, k>> \notin OpToRel(<, Nat)
  BY NatLessThanWellFounded, WFMin
<1>2. \A j \in S : k <= j
  <2>1. \A j \in S : ~(j < k)
    BY <1>1 DEF OpToRel
  <2>2. k \in Nat /\ \A j \in S : j \in Nat
    OBVIOUS
  <2> QED BY <2>1, <2>2
<1>3. \E x \in S : \A y \in S : x <= y
  BY <1>2
<1> QED BY <1>3 DEF Min

(* The values a finite set is mapped to are finite.                        *)
LEMMA ValuesFinite ==
  ASSUME NEW S, IsFiniteSet(S), NEW f
  PROVE  IsFiniteSet({f[x] : x \in S})
<1> DEFINE T == {f[x] : x \in S}
           g == [x \in S |-> f[x]]
<1>1. g \in Surjection(S, T)
  BY DEF Surjection
<1> HIDE DEF T, g
<1>2. IsFiniteSet(T)
  BY <1>1, FS_Surjection
<1> QED BY <1>2 DEF T

(* The numbers of a set in order: each once.                               *)
LEMMA OrderedAll ==
  ASSUME NEW S \in SUBSET Nat \ {0}, IsFiniteSet(S)
  PROVE  /\ Ordered(S) \in Seq(Nat) /\ ToSet(Ordered(S)) = S /\ IsInjective(Ordered(S))
         /\ Len(Ordered(S)) = Cardinality(S)
<1> DEFINE Z == S \cup {0}
           list == [k \in 1 .. Max(Z) |-> k]
<1>1. IsFiniteSet(Z) /\ Z \in SUBSET Nat /\ Z # {}
  BY FS_AddElement
<1>2. Max(Z) \in Nat /\ \A x \in Z : x <= Max(Z)
  <2> HIDE DEF Z
  <2> QED BY <1>1, LargestIn
<1>3. Ordered(S) = Only(list, S)
  BY DEF Ordered, MaxOr0
<1>4. S \subseteq 1 .. Max(Z)
  <2>1. \A x \in S : x \in Nat \ {0} /\ x <= Max(Z)
    BY <1>2
  <2> HIDE DEF Z
  <2> QED BY <1>2, <2>1
<1> HIDE DEF Z
<1>5. list \in Seq(Nat) /\ Len(list) = Max(Z) /\ \A k \in 1 .. Max(Z) : list[k] = k
  BY <1>2
<1>6. IsInjective(list)
  BY <1>5 DEF IsInjective
<1>7. S \subseteq ToSet(list)
  <2>1. ToSet(list) = {list[k] : k \in 1 .. Max(Z)}
    BY <1>5 DEF ToSet
  <2> QED BY <1>4, <1>5, <2>1
<1> HIDE DEF list
<1>8. /\ Ordered(S) \in Seq(Nat) /\ ToSet(Ordered(S)) = ToSet(list) \cap S
      /\ IsInjective(Ordered(S))
  BY <1>3, <1>5, <1>6, OnlyFacts
<1>9. ToSet(Ordered(S)) = S
  BY <1>7, <1>8
<1> QED BY <1>8, <1>9, ListFacts

(* What stands at the places of a list.                                    *)
LEMMA ListPlaces ==
  ASSUME NEW T, NEW list \in Seq(T)
  PROVE  /\ Len(list) \in Nat /\ DOMAIN list = 1 .. Len(list)
         /\ \A k \in 1 .. Len(list) : list[k] \in T /\ list[k] \in ToSet(list)
         /\ \A x \in ToSet(list) : \E k \in 1 .. Len(list) : x = list[k]
         /\ IsInjective(list) =>
              \A k, l \in 1 .. Len(list) : list[k] = list[l] => k = l
<1>1. /\ Len(list) \in Nat /\ DOMAIN list = 1 .. Len(list)
      /\ \A k \in 1 .. Len(list) : list[k] \in T
  OBVIOUS
<1>2. ToSet(list) = {list[k] : k \in 1 .. Len(list)}
  BY ListFacts
<1> QED BY <1>1, <1>2 DEF IsInjective

(* Lists one behind the other: each element stands at a place of one.      *)
Flat(seqs, g, i) == IF i = 1 THEN seqs[i] ELSE g[i - 1] \o seqs[i]
Flattening(seqs, g, n) == g = [i \in 1 .. n |-> Flat(seqs, g, i)]

LEMMA FlatRecursion ==
  ASSUME NEW seqs
  PROVE  \A n \in Nat : \E g : Flattening(seqs, g, n)
<1> DEFINE N == {n \in Nat : \E g : Flattening(seqs, g, n)}
<1>1. ASSUME NEW n \in Nat, \A m \in Nat : m < n => m \in N
      PROVE  n \in N
  <2>1. CASE n = 0
    <3> DEFINE g == [i \in 1 .. n |-> <<>>]
    <3>1. g = [i \in 1 .. n |-> Flat(seqs, g, i)]
      BY <2>1
    <3> HIDE DEF g
    <3>2. Flattening(seqs, g, n)
      BY <3>1 DEF Flattening
    <3> QED BY <3>2
  <2>2. CASE n # 0
    <3>1. n - 1 \in Nat /\ n - 1 < n
      BY <2>2
    <3>2. PICK g : Flattening(seqs, g, n - 1)
      BY <1>1, <3>1
    <3>3. g = [i \in 1 .. n - 1 |-> Flat(seqs, g, i)]
      BY <3>2 DEF Flattening
    <3> DEFINE h == [i \in 1 .. n |-> Flat(seqs, g, i)]
    <3>4. \A i \in 1 .. n - 1 : h[i] = g[i]
      BY <3>3
    <3>5. ASSUME NEW i \in 1 .. n
          PROVE  Flat(seqs, g, i) = Flat(seqs, h, i)
      <4>1. CASE i = 1
        BY <4>1 DEF Flat
      <4>2. CASE i # 1
        <5>1. i - 1 \in 1 .. n - 1
          BY <4>2
        <5>2. h[i - 1] = g[i - 1]
          BY <3>4, <5>1
        <5> HIDE DEF h
        <5> QED BY <5>2 DEF Flat
      <4> QED BY <4>1, <4>2
    <3>6. h = [i \in 1 .. n |-> Flat(seqs, h, i)]
      BY <3>5
    <3> HIDE DEF h
    <3>7. Flattening(seqs, h, n)
      BY <3>6 DEF Flattening
    <3> QED BY <3>7
  <2> QED BY <2>1, <2>2
<1>2. N \in SUBSET Nat
  OBVIOUS
<1> HIDE DEF N
<1>3. \A n \in Nat : n \in N
  BY <1>1, <1>2, NatInduct
<1> QED BY <1>3 DEF N

LEMMA FlatUnrolled ==
  ASSUME NEW seqs, Len(seqs) \in Nat, Len(seqs) # 0
  PROVE  \E g : FlattenSeq(seqs) = g[Len(seqs)] /\ Flattening(seqs, g, Len(seqs))
<1> DEFINE g == CHOOSE h : h = [i \in 1 .. Len(seqs) |-> Flat(seqs, h, i)]
<1>1. FlattenSeq(seqs) = g[Len(seqs)]
  BY DEF FlattenSeq, Flat
<1>2. g = [i \in 1 .. Len(seqs) |-> Flat(seqs, g, i)]
  BY FlatRecursion DEF Flattening
<1> HIDE DEF g
<1>3. Flattening(seqs, g, Len(seqs))
  BY <1>2 DEF Flattening
<1> QED BY <1>1, <1>3

(* Place p of the list f is place j[p] of list k[p] of the first n.        *)
Placing(f, seqs, n, k, j) ==
  /\ \A p \in 1 .. Len(f) : /\ k[p] \in 1 .. n /\ j[p] \in 1 .. Len(seqs[k[p]])
                            /\ f[p] = seqs[k[p]][j[p]]
  /\ \A p, q \in 1 .. Len(f) : k[p] = k[q] /\ j[p] = j[q] => p = q
  /\ \A a \in 1 .. n : \A b \in 1 .. Len(seqs[a]) : \E p \in 1 .. Len(f) : f[p] = seqs[a][b]

LEMMA Concatenated ==
  ASSUME NEW T, NEW f \in Seq(T), NEW s \in Seq(T)
  PROVE  /\ f \o s \in Seq(T) /\ Len(f) \in Nat /\ Len(s) \in Nat
         /\ Len(f \o s) = Len(f) + Len(s)
         /\ \A p \in 1 .. Len(f) : (f \o s)[p] = f[p]
         /\ \A p \in 1 .. Len(s) : (f \o s)[Len(f) + p] = s[p]
         /\ \A p \in 1 .. Len(f) + Len(s) :
              ~(p <= Len(f)) => p - Len(f) \in 1 .. Len(s) /\ (f \o s)[p] = s[p - Len(f)]
OBVIOUS

LEMMA PlaceMore ==
  ASSUME NEW T, NEW f \in Seq(T), NEW seqs, NEW n \in Nat, seqs[n + 1] \in Seq(T),
         NEW k, NEW j, Placing(f, seqs, n, k, j)
  PROVE  /\ f \o seqs[n + 1] \in Seq(T)
         /\ \E l, i : Placing(f \o seqs[n + 1], seqs, n + 1, l, i)
<1> DEFINE s == seqs[n + 1]
           g == f \o s
           L == Len(f)
           M == Len(s)
           l == [p \in 1 .. Len(g) |-> IF p <= L THEN k[p] ELSE n + 1]
           i == [p \in 1 .. Len(g) |-> IF p <= L THEN j[p] ELSE p - L]
<1>1. /\ g \in Seq(T) /\ L \in Nat /\ M \in Nat /\ Len(g) = L + M
      /\ \A p \in 1 .. L : g[p] = f[p]
      /\ \A p \in 1 .. M : g[L + p] = s[p]
      /\ \A p \in 1 .. L + M : ~(p <= L) => p - L \in 1 .. M /\ g[p] = s[p - L]
  BY Concatenated
<1>2. /\ \A p \in 1 .. L : /\ k[p] \in 1 .. n /\ j[p] \in 1 .. Len(seqs[k[p]])
                           /\ f[p] = seqs[k[p]][j[p]]
      /\ \A p, q \in 1 .. L : k[p] = k[q] /\ j[p] = j[q] => p = q
      /\ \A a \in 1 .. n : \A b \in 1 .. Len(seqs[a]) : \E p \in 1 .. L : f[p] = seqs[a][b]
  BY DEF Placing
<1>3. /\ \A p \in 1 .. L : p \in 1 .. Len(g) /\ l[p] = k[p] /\ i[p] = j[p]
      /\ \A p \in 1 .. L + M : ~(p <= L) => l[p] = n + 1 /\ i[p] = p - L
  <2> HIDE DEF g, L, M
  <2> QED BY <1>1
<1> HIDE DEF g, L, M, l, i
<1>4. ASSUME NEW p \in 1 .. Len(g)
      PROVE  l[p] \in 1 .. n + 1 /\ i[p] \in 1 .. Len(seqs[l[p]]) /\ g[p] = seqs[l[p]][i[p]]
  <2>1. CASE p <= L
    <3>1. p \in 1 .. L
      BY <2>1, <1>1
    <3>2. k[p] \in 1 .. n /\ k[p] \in 1 .. n + 1
      BY <3>1, <1>2
    <3> QED BY <3>1, <3>2, <1>1, <1>2, <1>3
  <2>2. CASE ~(p <= L)
    <3>1. p \in 1 .. L + M
      BY <1>1
    <3>2. /\ p - L \in 1 .. M /\ g[p] = s[p - L] /\ l[p] = n + 1 /\ i[p] = p - L
      BY <2>2, <3>1, <1>1, <1>3
    <3>3. n + 1 \in 1 .. n + 1
      OBVIOUS
    <3> QED BY <3>2, <3>3 DEF M
  <2> QED BY <2>1, <2>2
<1>5. ASSUME NEW p \in 1 .. Len(g), NEW q \in 1 .. Len(g), l[p] = l[q], i[p] = i[q]
      PROVE  p = q
  <2>1. p \in 1 .. L + M /\ q \in 1 .. L + M
    BY <1>1
  <2>2. CASE p <= L /\ q <= L
    <3>1. p \in 1 .. L /\ q \in 1 .. L
      BY <2>2, <1>1, <2>1
    <3> QED BY <3>1, <1>5, <1>2, <1>3
  <2>3. CASE ~(p <= L) /\ ~(q <= L)
    <3>1. p - L = q - L
      BY <2>1, <2>3, <1>5, <1>3
    <3> QED BY <3>1, <2>1, <1>1
  <2>4. CASE p <= L /\ ~(q <= L)
    <3>1. p \in 1 .. L
      BY <2>4, <1>1, <2>1
    <3>2. l[p] \in 1 .. n /\ l[q] = n + 1
      BY <3>1, <2>1, <2>4, <1>2, <1>3
    <3> QED BY <3>2, <1>5
  <2>5. CASE ~(p <= L) /\ q <= L
    <3>1. q \in 1 .. L
      BY <2>5, <1>1, <2>1
    <3>2. l[q] \in 1 .. n /\ l[p] = n + 1
      BY <3>1, <2>1, <2>5, <1>2, <1>3
    <3> QED BY <3>2, <1>5
  <2> QED BY <2>2, <2>3, <2>4, <2>5
<1>6. ASSUME NEW a \in 1 .. n + 1, NEW b \in 1 .. Len(seqs[a])
      PROVE  \E p \in 1 .. Len(g) : g[p] = seqs[a][b]
  <2>1. CASE a \in 1 .. n
    <3>1. PICK p \in 1 .. L : f[p] = seqs[a][b]
      BY <2>1, <1>2
    <3> QED BY <3>1, <1>1, <1>3
  <2>2. CASE a = n + 1
    <3>1. b \in 1 .. M
      BY <2>2 DEF M
    <3>2. L + b \in 1 .. Len(g) /\ g[L + b] = seqs[a][b]
      BY <3>1, <2>2, <1>1
    <3> QED BY <3>2
  <2>3. a \in 1 .. n \/ a = n + 1
    OBVIOUS
  <2> QED BY <2>1, <2>2, <2>3
<1>7. Placing(g, seqs, n + 1, l, i)
  BY <1>4, <1>5, <1>6 DEF Placing
<1> QED BY <1>1, <1>7 DEF g

LEMMA FlattenPlaces ==
  ASSUME NEW T, NEW seqs \in Seq(Seq(T))
  PROVE  /\ FlattenSeq(seqs) \in Seq(T)
         /\ \E k, j : Placing(FlattenSeq(seqs), seqs, Len(seqs), k, j)
<1> DEFINE L == Len(seqs)
<1>0. L \in Nat /\ \A i \in 1 .. L : seqs[i] \in Seq(T)
  OBVIOUS
<1>1. CASE L = 0
  <2>1. seqs = <<>> /\ Len(seqs) = 0
    BY <1>1
  <2>2. FlattenSeq(seqs) = <<>>
    BY <2>1 DEF FlattenSeq
  <2>3. /\ Len(<<>>) = 0 /\ <<>> \in Seq(T) /\ 1 .. 0 = {}
    OBVIOUS
  <2>4. Placing(<<>>, seqs, 0, <<>>, <<>>)
    BY <2>3 DEF Placing
  <2> QED BY <2>1, <2>2, <2>3, <2>4
<1>2. CASE L # 0
  <2>1. PICK g : FlattenSeq(seqs) = g[L] /\ Flattening(seqs, g, L)
    BY <1>0, <1>2, FlatUnrolled
  <2>2. \A i \in 1 .. L : g[i] = IF i = 1 THEN seqs[1] ELSE g[i - 1] \o seqs[i]
    BY <2>1 DEF Flattening, Flat
  <2> DEFINE Good(n) == g[n] \in Seq(T) /\ \E k, j : Placing(g[n], seqs, n, k, j)
             N == {n \in Nat : n \in 1 .. L => Good(n)}
  <2>3. Good(1)
    <3>1. /\ 1 \in 1 .. L /\ g[1] = seqs[1] /\ seqs[1] \in Seq(T) /\ <<>> \in Seq(T)
          /\ <<>> \o seqs[1] = seqs[1] /\ seqs[0 + 1] = seqs[1]
      BY <1>0, <1>2, <2>2
    <3>2. Len(<<>>) = 0 /\ 1 .. 0 = {} /\ 0 \in Nat /\ 0 + 1 = 1
      OBVIOUS
    <3>3. Placing(<<>>, seqs, 0, <<>>, <<>>)
      BY <3>2 DEF Placing
    <3>4. \E l, i : Placing(<<>> \o seqs[0 + 1], seqs, 0 + 1, l, i)
      BY <3>1, <3>2, <3>3, PlaceMore
    <3>5. \E l, i : Placing(g[1], seqs, 1, l, i)
      BY <3>4, <3>1, <3>2
    <3> QED BY <3>1, <3>5
  <2>4. ASSUME NEW n \in 2 .. L, Good(n - 1) PROVE Good(n)
    <3>1. n - 1 \in Nat /\ n \in 1 .. L /\ n # 1 /\ (n - 1) + 1 = n
      BY <1>0
    <3>2. g[n] = g[n - 1] \o seqs[n] /\ seqs[n] \in Seq(T)
      BY <3>1, <2>2, <1>0
    <3>3. PICK k, j : Placing(g[n - 1], seqs, n - 1, k, j)
      BY <2>4
    <3>4. g[n - 1] \in Seq(T) /\ seqs[(n - 1) + 1] \in Seq(T)
      BY <2>4, <3>1, <3>2
    <3>5. /\ g[n - 1] \o seqs[(n - 1) + 1] \in Seq(T)
          /\ \E l, i : Placing(g[n - 1] \o seqs[(n - 1) + 1], seqs, (n - 1) + 1, l, i)
      BY <3>1, <3>3, <3>4, PlaceMore
    <3> QED BY <3>1, <3>2, <3>5
  <2> HIDE DEF Good
  <2>5. ASSUME NEW n \in Nat, \A m \in Nat : m < n => m \in N
        PROVE  n \in N
    <3> SUFFICES ASSUME n \in 1 .. L PROVE Good(n)
      OBVIOUS
    <3>1. CASE n = 1
      BY <3>1, <2>3
    <3>2. CASE n # 1
      <4>1. n \in 2 .. L /\ n - 1 \in Nat /\ n - 1 < n /\ n - 1 \in 1 .. L
        BY <3>2, <1>0
      <4>2. Good(n - 1)
        BY <4>1, <2>5
      <4> QED BY <4>1, <4>2, <2>4
    <3> QED BY <3>1, <3>2
  <2>6. N \in SUBSET Nat
    OBVIOUS
  <2>7. Good(L)
    <3> HIDE DEF N
    <3>1. L \in N
      BY <1>0, <2>5, <2>6, NatInduct
    <3> QED BY <1>0, <1>2, <3>1 DEF N
  <2> QED BY <2>1, <2>7 DEF Good
<1> QED BY <1>1, <1>2

(* A group of layers of A, each once and of one type; and groups of which  *)
(* no two have a layer in common.                                          *)
Sound(group, A) ==
  /\ group.layers \in Seq(A) /\ IsInjective(group.layers)
  /\ DOMAIN group.spec = ToSet(group.layers)
  /\ UniformType(group.spec)
  /\ \A i \in ToSet(group.layers) : group.spec[i] \in LayerSpecs
Common(x, y) == ToSet(x.layers) \cap ToSet(y.layers) # {}
GroupsOver(all, A) ==
  /\ Len(all) \in Nat /\ DOMAIN all = 1 .. Len(all)
  /\ \A k \in 1 .. Len(all) : Sound(all[k], A)
  /\ \A k, l \in 1 .. Len(all) : Common(all[k], all[l]) => k = l

LEMMA FlattenGroups ==
  ASSUME NEW T, NEW lists \in Seq(Seq(T)), NEW A,
         \A a \in 1 .. Len(lists) : \A b \in 1 .. Len(lists[a]) : Sound(lists[a][b], A),
         \A a, c \in 1 .. Len(lists) : \A b \in 1 .. Len(lists[a]), d \in 1 .. Len(lists[c]) :
           Common(lists[a][b], lists[c][d]) => a = c /\ b = d
  PROVE  /\ GroupsOver(FlattenSeq(lists), A) /\ FlattenSeq(lists) \in Seq(T)
         /\ \A p \in 1 .. Len(FlattenSeq(lists)) :
              \E a \in 1 .. Len(lists) : \E b \in 1 .. Len(lists[a]) :
                FlattenSeq(lists)[p] = lists[a][b]
         /\ \A a \in 1 .. Len(lists) : Len(lists[a]) # 0 => Len(FlattenSeq(lists)) # 0
<1> DEFINE f == FlattenSeq(lists)
<1>1. PICK k, j : f \in Seq(T) /\ Placing(f, lists, Len(lists), k, j)
  BY FlattenPlaces
<1> HIDE DEF f
<1>2. /\ \A p \in 1 .. Len(f) : /\ k[p] \in 1 .. Len(lists) /\ j[p] \in 1 .. Len(lists[k[p]])
                                /\ f[p] = lists[k[p]][j[p]]
      /\ \A p, q \in 1 .. Len(f) : k[p] = k[q] /\ j[p] = j[q] => p = q
      /\ \A a \in 1 .. Len(lists) : \A b \in 1 .. Len(lists[a]) :
           \E p \in 1 .. Len(f) : f[p] = lists[a][b]
  BY <1>1 DEF Placing
<1>3. Len(f) \in Nat /\ DOMAIN f = 1 .. Len(f)
  BY <1>1
<1>4. ASSUME NEW p \in 1 .. Len(f)
      PROVE  /\ Sound(f[p], A)
             /\ \E a \in 1 .. Len(lists) : \E b \in 1 .. Len(lists[a]) : f[p] = lists[a][b]
  <2>1. /\ k[p] \in 1 .. Len(lists) /\ j[p] \in 1 .. Len(lists[k[p]])
        /\ f[p] = lists[k[p]][j[p]]
    BY <1>2
  <2>2. Sound(lists[k[p]][j[p]], A)
    BY <2>1
  <2> QED BY <2>1, <2>2
<1>5. ASSUME NEW p \in 1 .. Len(f), NEW q \in 1 .. Len(f), Common(f[p], f[q])
      PROVE  p = q
  <2>1. /\ k[p] \in 1 .. Len(lists) /\ j[p] \in 1 .. Len(lists[k[p]])
        /\ k[q] \in 1 .. Len(lists) /\ j[q] \in 1 .. Len(lists[k[q]])
        /\ Common(lists[k[p]][j[p]], lists[k[q]][j[q]])
    BY <1>2, <1>5
  <2>2. k[p] = k[q] /\ j[p] = j[q]
    BY <2>1
  <2> QED BY <2>2, <1>2
<1>6. GroupsOver(f, A)
  BY <1>3, <1>4, <1>5 DEF GroupsOver
<1>7. ASSUME NEW a \in 1 .. Len(lists), Len(lists[a]) # 0
      PROVE  Len(f) # 0
  <2>1. Len(lists[a]) \in Nat
    OBVIOUS
  <2>2. 1 \in 1 .. Len(lists[a])
    BY <2>1, <1>7
  <2>3. PICK p \in 1 .. Len(f) : TRUE
    BY <2>2, <1>2
  <2> QED BY <2>3, <1>3
<1> QED BY <1>1, <1>4, <1>6, <1>7 DEF f

LEMMA JoinGroups ==
  ASSUME NEW T, NEW x \in Seq(T), NEW y \in Seq(T), NEW A, NEW B, NEW C,
         GroupsOver(x, A), GroupsOver(y, B), A \cap B = {}, A \cup B \subseteq C
  PROVE  GroupsOver(x \o y, C)
<1> DEFINE f == x \o y
           L == Len(x)
           M == Len(y)
<1>1. /\ f \in Seq(T) /\ L \in Nat /\ M \in Nat /\ Len(f) = L + M
      /\ \A p \in 1 .. L : f[p] = x[p]
      /\ \A p \in 1 .. L + M : ~(p <= L) => p - L \in 1 .. M /\ f[p] = y[p - L]
  BY Concatenated
<1>2. DOMAIN f = 1 .. Len(f)
  BY <1>1
<1> HIDE DEF f, L, M
<1>3. ASSUME NEW p \in 1 .. Len(f)
      PROVE  \/ p \in 1 .. L /\ f[p] = x[p] /\ Sound(f[p], A)
             \/ ~(p <= L) /\ p - L \in 1 .. M /\ f[p] = y[p - L] /\ Sound(f[p], B)
  <2>1. CASE p <= L
    <3>1. p \in 1 .. L /\ f[p] = x[p]
      BY <2>1, <1>1
    <3> QED BY <3>1 DEF GroupsOver, L
  <2>2. CASE ~(p <= L)
    <3>1. p - L \in 1 .. M /\ f[p] = y[p - L]
      BY <2>2, <1>1
    <3> QED BY <2>2, <3>1 DEF GroupsOver, M
  <2> QED BY <2>1, <2>2
<1>4. \A g : Sound(g, A) \/ Sound(g, B) => Sound(g, C)
  BY DEF Sound
<1>5. \A g, h : Sound(g, A) /\ Sound(h, B) => ~Common(g, h) /\ ~Common(h, g)
  <2> SUFFICES ASSUME NEW g, NEW h, Sound(g, A), Sound(h, B)
               PROVE  ToSet(g.layers) \cap ToSet(h.layers) = {}
    BY DEF Common
  <2>1. ToSet(g.layers) \subseteq A /\ ToSet(h.layers) \subseteq B
    BY ListFacts DEF Sound
  <2> QED BY <2>1
<1>6. ASSUME NEW p \in 1 .. Len(f), NEW q \in 1 .. Len(f), Common(f[p], f[q])
      PROVE  p = q
  <2>1. CASE p \in 1 .. L /\ f[p] = x[p] /\ q \in 1 .. L /\ f[q] = x[q]
    BY <2>1, <1>6 DEF GroupsOver, L
  <2>2. CASE /\ p - L \in 1 .. M /\ f[p] = y[p - L]
             /\ q - L \in 1 .. M /\ f[q] = y[q - L]
    <3>1. p - L = q - L
      BY <2>2, <1>6 DEF GroupsOver, M
    <3>2. p \in Int /\ q \in Int
      OBVIOUS
    <3> QED BY <3>1, <3>2, <1>1
  <2>3. ~(Sound(f[p], A) /\ Sound(f[q], B)) /\ ~(Sound(f[p], B) /\ Sound(f[q], A))
    BY <1>5, <1>6
  <2> QED BY <1>3, <2>1, <2>2, <2>3
<1> QED BY <1>1, <1>2, <1>3, <1>4, <1>6 DEF GroupsOver, f

(* The groups the code makes of a list of names.                           *)
Same(s, t) ==
  s.block = t.block /\ Family(s) = Family(t) /\ (IsFull(s) \/ s.window = t.window)

Kinds == {"full", "mla", "window", "window_mla", "mamba", "hidden"}

LEMMA SpecFacts ==
  ASSUME NEW s \in LayerSpecs
  PROVE  /\ s.page \in Nat \ {0} /\ s.block \in Nat \ {0} /\ s.window \in Nat
         /\ s.kind \in Kinds /\ (IsWindow(s) => s.window # 0)
BY DEF LayerSpecs, Kinds

LEMMA SpecWith ==
  ASSUME NEW s \in LayerSpecs, NEW k \in Kinds, NEW p \in Nat \ {0}, NEW b \in Nat \ {0},
         k = s.kind \/ k \notin {"window", "window_mla"}
  PROVE  /\ [s EXCEPT !.kind = k, !.block = b, !.page = p] \in LayerSpecs
         /\ [s EXCEPT !.kind = k, !.block = b, !.page = p].kind = k
         /\ [s EXCEPT !.block = b, !.page = p] \in LayerSpecs
         /\ [s EXCEPT !.page = p, !.block = b] \in LayerSpecs
         /\ [s EXCEPT !.page = p] \in LayerSpecs
<1> DEFINE t == [s EXCEPT !.kind = k, !.block = b, !.page = p]
<1>1. s \in [kind : Kinds, page : Nat \ {0}, block : Nat \ {0}, window : Nat]
      /\ (IsWindow(s) => s.window # 0)
  BY DEF LayerSpecs, Kinds
<1>2. /\ t \in [kind : Kinds, page : Nat \ {0}, block : Nat \ {0}, window : Nat]
      /\ t.kind = k /\ t.window = s.window
  BY <1>1
<1>3. t \in LayerSpecs
  BY <1>1, <1>2 DEF LayerSpecs, Kinds, IsWindow
<1> DEFINE u == [s EXCEPT !.block = b, !.page = p]
           v == [s EXCEPT !.page = p, !.block = b]
           z == [s EXCEPT !.page = p]
<1>4. /\ u \in [kind : Kinds, page : Nat \ {0}, block : Nat \ {0}, window : Nat]
      /\ u.kind = s.kind /\ u.window = s.window
  BY <1>1
<1>5. /\ v \in [kind : Kinds, page : Nat \ {0}, block : Nat \ {0}, window : Nat]
      /\ v.kind = s.kind /\ v.window = s.window
  BY <1>1
<1>6. /\ z \in [kind : Kinds, page : Nat \ {0}, block : Nat \ {0}, window : Nat]
      /\ z.kind = s.kind /\ z.window = s.window
  BY <1>1
<1> HIDE DEF t, u, v, z
<1>7. u \in LayerSpecs /\ v \in LayerSpecs /\ z \in LayerSpecs
  BY <1>1, <1>4, <1>5, <1>6 DEF LayerSpecs, Kinds, IsWindow
<1> QED BY <1>2, <1>3, <1>7 DEF t, u, v, z

LEMMA UniformSound ==
  ASSUME NEW A, NEW names \in Seq(A), IsInjective(names), NEW specs,
         \A i \in ToSet(names) : specs[i] \in LayerSpecs,
         \A i, j \in ToSet(names) : Same(specs[i], specs[j])
  PROVE  /\ Sound(UniformGroup(specs, names), A)
         /\ UniformGroup(specs, names).layers = names
<1> DEFINE g == UniformGroup(specs, names)
<1>1. g.layers = names /\ g.spec = [i \in ToSet(names) |-> specs[i]]
  BY DEF UniformGroup
<1> HIDE DEF g
<1>2. DOMAIN g.spec = ToSet(names) /\ \A i \in ToSet(names) : g.spec[i] = specs[i]
  BY <1>1
<1>3. UniformType(g.spec)
  BY <1>2 DEF UniformType, Same
<1> QED BY <1>1, <1>2, <1>3 DEF Sound, g

(* One spec for all has a window where one of them has.                    *)
LEMMA MergedSound ==
  ASSUME NEW A, NEW names \in Seq(A), IsInjective(names), NEW specs,
         \A i \in ToSet(names) : specs[i] \in LayerSpecs
  PROVE  /\ Sound(MergedGroup(specs, names), A)
         /\ MergedGroup(specs, names).layers = names
<1> DEFINE g == MergedGroup(specs, names)
           window == MaxOr0({specs[i].window : i \in ToSet(names)})
           s == [specs[names[1]] EXCEPT !.window = window]
<1>1. g.layers = names /\ g.spec = [i \in ToSet(names) |-> s]
  BY DEF MergedGroup
<1> HIDE DEF g
<1>2. DOMAIN g.spec = ToSet(names) /\ \A i \in ToSet(names) : g.spec[i] = s
  BY <1>1
<1>3. UniformType(g.spec)
  BY <1>2 DEF UniformType
<1>4. ASSUME NEW i \in ToSet(names)
      PROVE  s \in LayerSpecs
  <2> DEFINE first == specs[names[1]]
             f == [j \in ToSet(names) |-> specs[j].window]
             W == {specs[j].window : j \in ToSet(names)}
             Z == W \cup {0}
  <2>1. PICK k \in 1 .. Len(names) : i = names[k]
    BY ListPlaces
  <2>2. 1 \in 1 .. Len(names) /\ names[1] \in ToSet(names)
    <3>1. Len(names) \in Nat
      OBVIOUS
    <3> QED BY <3>1, ListPlaces
  <2>3. first \in LayerSpecs /\ first.window \in W
    BY <2>2
  <2>4. window = Max(Z)
    BY DEF MaxOr0
  <2>5. W = {f[j] : j \in ToSet(names)} /\ IsFiniteSet(ToSet(names))
    BY ListFacts
  <2>6. \A j \in ToSet(names) : specs[j].window \in Nat
    BY SpecFacts
  <2>7. Z \in SUBSET Nat /\ Z # {}
    BY <2>6
  <2> HIDE DEF W, f
  <2>14. IsFiniteSet(W)
    BY <2>5, ValuesFinite
  <2>8. IsFiniteSet(Z)
    BY <2>14, FS_AddElement
  <2>9. first.window \in Z
    BY <2>3
  <2> HIDE DEF Z, first, window
  <2>10. window \in Nat /\ first.window <= window
    BY <2>4, <2>7, <2>8, <2>9, LargestIn
  <2>11. s = [first EXCEPT !.window = window]
    BY DEF first
  <2>12. first.window \in Nat /\ (IsWindow(first) => first.window # 0)
    BY <2>3, SpecFacts
  <2>13. window = 0 => ~IsWindow(first)
    BY <2>10, <2>12
  <2> HIDE DEF s
  <2> QED BY <2>3, <2>10, <2>11, <2>13 DEF LayerSpecs, IsWindow
<1> HIDE DEF s
<1> QED BY <1>1, <1>2, <1>3, <1>4 DEF Sound, g

(* names[i::n]: each place in one of the n lists only.                     *)
LEMMA CdivFacts ==
  ASSUME NEW a \in Nat, NEW n \in Nat \ {0}
  PROVE  /\ Cdiv(a, n) \in Nat /\ n * Cdiv(a, n) \in Nat
         /\ n * Cdiv(a, n) <= a + n - 1 /\ a <= n * Cdiv(a, n)
         /\ a # 0 => Cdiv(a, n) # 0
<1> DEFINE b == a + n - 1
           q == b \div n
           r == b % n
<1>1. b \in Nat
  OBVIOUS
<1> HIDE DEF b
<1>2. q \in Nat /\ r \in 0 .. n - 1 /\ b = n * q + r
  BY <1>1, DivFacts
<1>3. n * q \in Nat
  BY <1>2, Times
<1>4. Cdiv(a, n) = q
  BY DEF Cdiv, b
<1>5. q = 0 => n * q = 0
  BY <1>2
<1> HIDE DEF q, r
<1> QED BY <1>2, <1>3, <1>4, <1>5 DEF b

LEMMA Residues ==
  ASSUME NEW n \in Nat \ {0}, NEW a \in Nat, NEW b \in Nat, NEW x \in 1 .. n, NEW y \in 1 .. n,
         x + a * n = y + b * n
  PROVE  x = y /\ a = b
<1>1. a * n \in Nat /\ b * n \in Nat /\ (a + 1) * n = a * n + n /\ (b + 1) * n = b * n + n
  BY Times
<1>2. a + 1 <= b => (a + 1) * n <= b * n
  BY Times
<1>3. b + 1 <= a => (b + 1) * n <= a * n
  BY Times
<1>4. a = b
  BY <1>1, <1>2, <1>3
<1> QED BY <1>4, <1>1

LEMMA EveryFacts ==
  ASSUME NEW T, NEW names \in Seq(T), NEW n \in Nat \ {0}, NEW i \in 1 .. n
  PROVE  /\ Every(names, i, n) \in Seq(T) /\ Len(Every(names, i, n)) \in Nat
         /\ \A k \in 1 .. Len(Every(names, i, n)) :
              /\ i + (k - 1) * n \in 1 .. Len(names)
              /\ Every(names, i, n)[k] = names[i + (k - 1) * n]
         /\ i <= Len(names) => Len(Every(names, i, n)) # 0
<1> DEFINE L == Len(names)
           M == Cdiv(L - i + 1, n)
           e == Every(names, i, n)
<1>1. L \in Nat /\ i \in Nat \ {0}
  OBVIOUS
<1>2. M \in Nat /\ (i <= L => M # 0) /\ \A k \in 1 .. M : i + (k - 1) * n \in 1 .. L
  <2>1. CASE i <= L
    <3> DEFINE a == L - i + 1
    <3>1. a \in Nat /\ a # 0 /\ a = L - i + 1
      BY <1>1, <2>1
    <3> HIDE DEF a
    <3>2. /\ Cdiv(a, n) \in Nat /\ n * Cdiv(a, n) \in Nat
          /\ n * Cdiv(a, n) <= a + n - 1 /\ Cdiv(a, n) # 0
      BY <3>1, CdivFacts
    <3>3. Cdiv(a, n) = M
      BY DEF a
    <3> HIDE DEF M
    <3>4. ASSUME NEW k \in 1 .. M PROVE i + (k - 1) * n \in 1 .. L
      <4>1. k \in Nat /\ k - 1 \in Nat /\ k <= M
        BY <3>2, <3>3
      <4>2. (k - 1) * n \in Nat /\ k * n \in Nat /\ k * n <= M * n /\ k * n = (k - 1) * n + n
        BY <4>1, <3>2, <3>3, Times
      <4>3. M * n = n * M
        BY <3>2, <3>3
      <4> QED BY <4>2, <4>3, <3>1, <3>2, <3>3, <1>1
    <3> QED BY <3>2, <3>3, <3>4
  <2>2. CASE ~(i <= L)
    <3> DEFINE b == L - i + 1 + n - 1
    <3>1. b \in Nat /\ b < n
      BY <1>1, <2>2
    <3> HIDE DEF b
    <3>2. b \div n = 0
      BY <3>1
    <3>3. M = 0
      BY <3>2 DEF Cdiv, b
    <3> HIDE DEF M
    <3> QED BY <2>2, <3>3
  <2> QED BY <2>1, <2>2
<1> HIDE DEF M
<1>3. e = [k \in 1 .. M |-> names[i + (k - 1) * n]]
  BY DEF Every, M
<1>4. \A k \in 1 .. M : names[i + (k - 1) * n] \in T
  BY <1>2
<1> HIDE DEF e
<1>5. e \in Seq(T) /\ Len(e) = M /\ \A k \in 1 .. M : e[k] = names[i + (k - 1) * n]
  BY <1>2, <1>3, <1>4
<1> QED BY <1>2, <1>5 DEF e

(* No name is in two of the n parts, or twice in one.                      *)
LEMMA EverySplits ==
  ASSUME NEW T, NEW names \in Seq(T), IsInjective(names), NEW n \in Nat \ {0}
  PROVE  /\ \A i \in 1 .. n : /\ IsInjective(Every(names, i, n))
                              /\ ToSet(Every(names, i, n)) \subseteq ToSet(names)
         /\ \A i, j \in 1 .. n :
              ToSet(Every(names, i, n)) \cap ToSet(Every(names, j, n)) # {} => i = j
<1>1. \A k, l \in 1 .. Len(names) : names[k] = names[l] => k = l
  BY ListPlaces
<1>2. ASSUME NEW i \in 1 .. n, NEW j \in 1 .. n,
             NEW k \in 1 .. Len(Every(names, i, n)), NEW l \in 1 .. Len(Every(names, j, n)),
             Every(names, i, n)[k] = Every(names, j, n)[l]
      PROVE  i = j /\ k = l
  <2>1. /\ Len(Every(names, i, n)) \in Nat /\ Len(Every(names, j, n)) \in Nat
        /\ i + (k - 1) * n \in 1 .. Len(names) /\ j + (l - 1) * n \in 1 .. Len(names)
        /\ Every(names, i, n)[k] = names[i + (k - 1) * n]
        /\ Every(names, j, n)[l] = names[j + (l - 1) * n]
    BY EveryFacts
  <2>2. i + (k - 1) * n = j + (l - 1) * n
    BY <2>1, <1>1, <1>2
  <2>3. k - 1 \in Nat /\ l - 1 \in Nat
    BY <2>1
  <2>4. i = j /\ k - 1 = l - 1
    BY <2>2, <2>3, Residues
  <2> QED BY <2>1, <2>4
<1>3. ASSUME NEW i \in 1 .. n
      PROVE  /\ IsInjective(Every(names, i, n))
             /\ ToSet(Every(names, i, n)) \subseteq ToSet(names)
  <2>1. /\ Every(names, i, n) \in Seq(T)
        /\ \A k \in 1 .. Len(Every(names, i, n)) :
              /\ i + (k - 1) * n \in 1 .. Len(names)
              /\ Every(names, i, n)[k] = names[i + (k - 1) * n]
    BY EveryFacts
  <2>2. DOMAIN Every(names, i, n) = 1 .. Len(Every(names, i, n))
    BY <2>1, ListPlaces
  <2>3. IsInjective(Every(names, i, n))
    BY <2>2, <1>2 DEF IsInjective
  <2>4. ASSUME NEW x \in ToSet(Every(names, i, n)) PROVE x \in ToSet(names)
    <3>1. PICK k \in 1 .. Len(Every(names, i, n)) : x = Every(names, i, n)[k]
      BY <2>1, ListPlaces
    <3> DEFINE p == i + (k - 1) * n
    <3>2. p \in 1 .. Len(names) /\ x = names[p]
      BY <3>1, <2>1
    <3> HIDE DEF p
    <3>3. names[p] \in ToSet(names)
      BY <3>2, ListPlaces
    <3> QED BY <3>2, <3>3
  <2> QED BY <2>3, <2>4
<1>4. ASSUME NEW i \in 1 .. n, NEW j \in 1 .. n,
             NEW x \in ToSet(Every(names, i, n)) \cap ToSet(Every(names, j, n))
      PROVE  i = j
  <2>1. Every(names, i, n) \in Seq(T) /\ Every(names, j, n) \in Seq(T)
    BY EveryFacts
  <2>2. PICK k \in 1 .. Len(Every(names, i, n)) : x = Every(names, i, n)[k]
    BY <2>1, ListPlaces
  <2>3. PICK l \in 1 .. Len(Every(names, j, n)) : x = Every(names, j, n)[l]
    BY <2>1, ListPlaces
  <2> QED BY <2>2, <2>3, <1>2
<1> QED BY <1>3, <1>4

-----------------------------------------------------------------------------
(* First-fit buckets: a fold over the layers in order.                     *)
Fitting(specs, merged, bs, i) ==
  {b \in DOMAIN bs : IF merged THEN Mergeable(Restrict(specs, bs[b] \cup {i}))
                     ELSE UniformType(Restrict(specs, bs[b] \cup {i}))}
Joined(specs, merged, bs, i) ==
  IF Fitting(specs, merged, bs, i) = {} THEN Append(bs, {i})
  ELSE [bs EXCEPT ![Min(Fitting(specs, merged, bs, i))] = @ \cup {i}]
Fold(specs, merged, list, g, s) ==
  IF s = {} THEN <<>> ELSE Joined(specs, merged, g[s \ {Max(s)}], list[Max(s)])
Folding(specs, merged, list, g, S) ==
  g = [s \in SUBSET S |-> Fold(specs, merged, list, g, s)]

LEMMA LastOut ==
  ASSUME NEW S \in SUBSET Nat, IsFiniteSet(S), NEW s \in SUBSET S, s # {}
  PROVE  /\ Max(s) \in s /\ \A x \in s : x <= Max(s)
         /\ s \ {Max(s)} \in SUBSET S
         /\ Cardinality(s) \in Nat /\ Cardinality(s \ {Max(s)}) \in Nat
         /\ Cardinality(s \ {Max(s)}) = Cardinality(s) - 1
<1>1. IsFiniteSet(s) /\ s \in SUBSET Nat
  BY FS_Subset
<1>2. Max(s) \in s /\ \A x \in s : x <= Max(s)
  BY <1>1, LargestIn
<1> QED BY <1>1, <1>2, FS_RemoveElement, FS_CardinalityType

LEMMA FoldRecursion ==
  ASSUME NEW S \in SUBSET Nat, IsFiniteSet(S), NEW specs, NEW merged, NEW list
  PROVE  \E g : Folding(specs, merged, list, g, S)
<1> DEFINE D(n) == {s \in SUBSET S : Cardinality(s) <= n}
           F(g, s) == Fold(specs, merged, list, g, s)
           N == {n \in Nat : \E g : g = [s \in D(n) |-> F(g, s)]}
<1>1. \A s \in SUBSET S : IsFiniteSet(s) /\ Cardinality(s) \in Nat
  BY FS_Subset, FS_CardinalityType
<1>2. ASSUME NEW n \in Nat, \A m \in Nat : m < n => m \in N
      PROVE  n \in N
  <2>1. CASE n = 0
    <3> DEFINE g == [s \in D(n) |-> <<>>]
    <3>1. \A s \in D(n) : s = {}
      BY <1>1, <2>1, FS_EmptySet
    <3>2. g = [s \in D(n) |-> F(g, s)]
      BY <3>1 DEF Fold
    <3> QED BY <3>2
  <2>2. CASE n # 0
    <3>1. n - 1 \in Nat /\ n - 1 < n
      BY <2>2
    <3>2. PICK g : g = [s \in D(n - 1) |-> F(g, s)]
      BY <1>2, <3>1
    <3> DEFINE h == [s \in D(n) |-> F(g, s)]
    <3>3. ASSUME NEW s \in D(n)
          PROVE  F(g, s) = F(h, s)
      <4>1. CASE s = {}
        BY <4>1 DEF Fold
      <4>2. CASE s # {}
        <5> DEFINE r == s \ {Max(s)}
        <5>1. r \in SUBSET S /\ Cardinality(r) = Cardinality(s) - 1 /\ Cardinality(s) \in Nat
          BY <4>2, LastOut
        <5>2. r \in D(n - 1) /\ r \in D(n)
          BY <5>1
        <5>3. g[r] = h[r]
          BY <3>2, <5>2
        <5> QED BY <4>2, <5>3 DEF Fold
      <4> QED BY <4>1, <4>2
    <3>4. h = [s \in D(n) |-> F(h, s)]
      BY <3>3
    <3> QED BY <3>4
  <2> QED BY <2>1, <2>2
<1>3. N \in SUBSET Nat
  OBVIOUS
<1>4. Cardinality(S) \in N
  <2> HIDE DEF N
  <2>1. \A n \in Nat : n \in N
    BY <1>2, <1>3, NatInduct
  <2> QED BY <1>1, <2>1
<1>5. D(Cardinality(S)) = SUBSET S
  <2>1. \A s \in SUBSET S : Cardinality(s) <= Cardinality(S)
    BY FS_Subset
  <2> QED BY <2>1
<1> QED BY <1>4, <1>5 DEF Folding

Folded(specs, merged, list, S) ==
  \E g : /\ Buckets(specs, merged) = g[S]
         /\ \A s \in SUBSET S : g[s] = Fold(specs, merged, list, g, s)

LEMMA BucketsUnrolled ==
  ASSUME NEW specs, NEW merged, NEW S \in SUBSET Nat, IsFiniteSet(S),
         S = DOMAIN Ordered(DOMAIN specs)
  PROVE  Folded(specs, merged, Ordered(DOMAIN specs), S)
<1> DEFINE list == Ordered(DOMAIN specs)
           g == CHOOSE h : h = [s \in SUBSET S |-> Fold(specs, merged, list, h, s)]
<1>1. g = [s \in SUBSET S |-> Fold(specs, merged, list, g, s)]
  BY FoldRecursion DEF Folding
<1>2. Buckets(specs, merged) = g[S]
  BY DEF Buckets, FoldLeft, MapThenFoldSet, Fold, Joined, Fitting
<1> HIDE DEF g
<1> QED BY <1>1, <1>2 DEF Folded

(* The buckets hold each layer once, and none is empty.                    *)
BucketsOver(bs, S) ==
  /\ bs \in Seq(SUBSET S) /\ Len(bs) \in Nat /\ DOMAIN bs = 1 .. Len(bs)
  /\ \A b \in 1 .. Len(bs) : bs[b] \in SUBSET S /\ bs[b] # {}
  /\ \A a, b \in 1 .. Len(bs) : bs[a] \cap bs[b] # {} => a = b
  /\ \A x \in S : \E b \in 1 .. Len(bs) : x \in bs[b]

LEMMA JoinedKeeps ==
  ASSUME NEW bs, NEW S, BucketsOver(bs, S), NEW i, i \notin S, NEW specs, NEW merged
  PROVE  BucketsOver(Joined(specs, merged, bs, i), S \cup {i})
<1> DEFINE F == Fitting(specs, merged, bs, i)
           L == Len(bs)
           new == Joined(specs, merged, bs, i)
           T == S \cup {i}
<1>1. /\ bs \in Seq(SUBSET S) /\ L \in Nat /\ DOMAIN bs = 1 .. L
      /\ \A b \in 1 .. L : bs[b] \in SUBSET S /\ bs[b] # {}
      /\ \A a, b \in 1 .. L : bs[a] \cap bs[b] # {} => a = b
      /\ \A x \in S : \E b \in 1 .. L : x \in bs[b]
  BY DEF BucketsOver
<1>2. F \subseteq 1 .. L
  BY <1>1 DEF Fitting
<1>3. new = IF F = {} THEN Append(bs, {i}) ELSE [bs EXCEPT ![Min(F)] = @ \cup {i}]
  BY DEF Joined
<1>4. bs \in Seq(SUBSET T)
  BY <1>1
<1> HIDE DEF F, L, new
<1>5. CASE F = {}
  <2>1. {i} \in SUBSET T /\ new = Append(bs, {i})
    BY <1>3, <1>5
  <2> HIDE DEF T
  <2>2. /\ new \in Seq(SUBSET T) /\ Len(new) = L + 1 /\ DOMAIN new = 1 .. L + 1
        /\ \A b \in 1 .. L : new[b] = bs[b]
        /\ new[L + 1] = {i}
    BY <1>1, <1>4, <2>1 DEF L
  <2>3. \A b \in 1 .. L + 1 : b \in 1 .. L \/ b = L + 1
    BY <1>1
  <2>4. \A b \in 1 .. L : b \in 1 .. L + 1 /\ i \notin bs[b]
    BY <1>1
  <2>5. \A b \in 1 .. L + 1 : new[b] \in SUBSET T /\ new[b] # {}
    BY <2>1, <2>2, <2>3, <1>1 DEF T
  <2>6. \A a, b \in 1 .. L + 1 : new[a] \cap new[b] # {} => a = b
    BY <2>2, <2>3, <2>4, <1>1
  <2>7. \A x \in T : \E b \in 1 .. L + 1 : x \in new[b]
    <3>1. L + 1 \in 1 .. L + 1 /\ i \in new[L + 1]
      BY <2>2, <1>1
    <3>2. ASSUME NEW x \in S PROVE \E b \in 1 .. L + 1 : x \in new[b]
      <4>1. PICK b \in 1 .. L : x \in bs[b]
        BY <1>1
      <4> QED BY <4>1, <2>2, <2>4
    <3> QED BY <3>1, <3>2 DEF T
  <2>8. L + 1 \in Nat
    BY <1>1
  <2> QED BY <2>2, <2>5, <2>6, <2>7, <2>8 DEF BucketsOver, new, T
<1>6. CASE F # {}
  <2> DEFINE m == Min(F)
  <2>1. m \in F
    <3>1. F \in SUBSET Nat
      BY <1>2, <1>1
    <3> QED BY <3>1, <1>6, LeastIn
  <2>2. m \in 1 .. L
    BY <2>1, <1>2
  <2>3. new = [bs EXCEPT ![m] = @ \cup {i}]
    BY <1>3, <1>6
  <2> HIDE DEF m
  <2>4. bs[m] \cup {i} \in SUBSET T
    BY <2>2, <1>1
  <2>5. /\ \A b \in 1 .. L : new[b] = IF b = m THEN bs[m] \cup {i} ELSE bs[b]
        /\ DOMAIN new = 1 .. L
    BY <2>2, <2>3, <1>1
  <2>6. \A b \in 1 .. L : new[b] \in SUBSET T /\ new[b] # {}
    BY <2>4, <2>5, <1>1
  <2>7. new \in Seq(SUBSET T) /\ Len(new) = L
    <3> HIDE DEF T
    <3>1. new \in [1 .. L -> SUBSET T]
      BY <2>3, <2>5, <2>6
    <3> QED BY <3>1, <1>1
  <2>8. \A a, b \in 1 .. L : new[a] \cap new[b] # {} => a = b
    <3>1. \A b \in 1 .. L : i \notin bs[b]
      BY <1>1
    <3> QED BY <3>1, <2>5, <1>1
  <2>9. ASSUME NEW x \in T PROVE \E b \in 1 .. L : x \in new[b]
    <3>1. CASE x = i
      BY <3>1, <2>2, <2>5
    <3>2. CASE x \in S
      <4>1. PICK b \in 1 .. L : x \in bs[b]
        BY <3>2, <1>1
      <4> QED BY <4>1, <2>5
    <3> QED BY <3>1, <3>2
  <2> QED BY <2>5, <2>6, <2>7, <2>8, <2>9, <1>1 DEF BucketsOver, new, T
<1> QED BY <1>5, <1>6

(* Without merging, the layers of a bucket are of one type.                *)
Matched(specs, bs) ==
  \A b \in 1 .. Len(bs) : \A i, j \in bs[b] : Same(specs[i], specs[j])

(* A bucket that is not of merged specs stays of one type.                 *)
LEMMA JoinedSame ==
  ASSUME NEW bs, NEW S, BucketsOver(bs, S), NEW i, NEW specs, Matched(specs, bs)
  PROVE  Matched(specs, Joined(specs, FALSE, bs, i))
<1> DEFINE F == Fitting(specs, FALSE, bs, i)
           L == Len(bs)
           new == Joined(specs, FALSE, bs, i)
<1>1. bs \in Seq(SUBSET S) /\ L \in Nat /\ DOMAIN bs = 1 .. L
  BY DEF BucketsOver
<1>2. \A X : UniformType(Restrict(specs, X)) => \A k, l \in X : Same(specs[k], specs[l])
  BY DEF UniformType, Restrict, Same
<1>3. F \in SUBSET (1 .. L) /\ \A b \in F : UniformType(Restrict(specs, bs[b] \cup {i}))
  BY <1>1 DEF Fitting
<1>4. new = IF F = {} THEN Append(bs, {i}) ELSE [bs EXCEPT ![Min(F)] = @ \cup {i}]
  BY DEF Joined
<1>5. \A b \in 1 .. L : \A k, l \in bs[b] : Same(specs[k], specs[l])
  BY DEF Matched
<1> HIDE DEF F, new
<1>6. CASE F = {}
  <2> DEFINE T == S \cup {i}
  <2>1. bs \in Seq(SUBSET T) /\ {i} \in SUBSET T
    BY <1>1
  <2> HIDE DEF T
  <2>2. Len(new) = L + 1 /\ new[L + 1] = {i} /\ \A b \in 1 .. L : new[b] = bs[b]
    BY <1>1, <1>4, <1>6, <2>1
  <2>3. \A b \in 1 .. L + 1 : b \in 1 .. L \/ b = L + 1
    BY <1>1
  <2>4. Same(specs[i], specs[i])
    BY DEF Same
  <2> HIDE DEF L
  <2>5. \A b \in 1 .. L + 1 : \A k, l \in new[b] : Same(specs[k], specs[l])
    BY <1>5, <2>2, <2>3, <2>4
  <2> QED BY <2>2, <2>5 DEF Matched, new
<1>7. CASE F # {}
  <2> DEFINE m == Min(F)
  <2>1. m \in F
    <3>1. F \in SUBSET Nat
      BY <1>1, <1>3
    <3> QED BY <1>7, <3>1, LeastIn
  <2>2. new = [bs EXCEPT ![m] = @ \cup {i}]
    BY <1>4, <1>7
  <2> HIDE DEF m
  <2>3. \A k, l \in bs[m] \cup {i} : Same(specs[k], specs[l])
    BY <1>2, <1>3, <2>1
  <2>4. \A b \in 1 .. L : new[b] = IF b = m THEN bs[m] \cup {i} ELSE bs[b]
    BY <1>1, <1>3, <2>1, <2>2
  <2>5. Len(new) = L
    <3> DEFINE T == S \cup {i}
    <3>1. new \in [1 .. L -> SUBSET T]
      BY <1>1, <1>3, <2>1, <2>2
    <3> HIDE DEF T
    <3> QED BY <1>1, <3>1
  <2> QED BY <1>5, <2>3, <2>4, <2>5 DEF Matched, new
<1> QED BY <1>6, <1>7

LEMMA BucketsFacts ==
  ASSUME NEW specs, NEW merged \in BOOLEAN,
         DOMAIN specs \in SUBSET Nat \ {0}, IsFiniteSet(DOMAIN specs)
  PROVE  /\ BucketsOver(Buckets(specs, merged), DOMAIN specs)
         /\ ~merged => Matched(specs, Buckets(specs, merged))
<1> DEFINE list == Ordered(DOMAIN specs)
           L == Len(list)
           S == 1 .. L
           Seen(s) == {list[x] : x \in s}
<1>1. /\ list \in Seq(Nat) /\ ToSet(list) = DOMAIN specs /\ IsInjective(list)
  BY OrderedAll
<1> HIDE DEF list
<1>2. /\ L \in Nat /\ DOMAIN list = S
      /\ \A k, l \in 1 .. L : list[k] = list[l] => k = l
      /\ ToSet(list) = Seen(S)
  <2>1. L \in Nat /\ DOMAIN list = S
    BY <1>1
  <2>2. \A k, l \in 1 .. L : list[k] = list[l] => k = l
    BY <1>1, <2>1 DEF IsInjective
  <2>3. ToSet(list) = Seen(S)
    BY <2>1 DEF ToSet
  <2> QED BY <2>1, <2>2, <2>3
<1>3. IsFiniteSet(S) /\ S \in SUBSET Nat
  BY <1>2, FS_Interval
<1>4. PICK g : /\ Buckets(specs, merged) = g[S]
               /\ \A s \in SUBSET S : g[s] = Fold(specs, merged, list, g, s)
  <2>1. S = DOMAIN Ordered(DOMAIN specs)
    BY <1>2 DEF list
  <2> HIDE DEF S
  <2>2. Folded(specs, merged, Ordered(DOMAIN specs), S)
    BY <1>3, <2>1, BucketsUnrolled
  <2> QED BY <2>2 DEF list, Folded
<1> HIDE DEF S
<1> DEFINE G == {s \in SUBSET S : /\ BucketsOver(g[s], Seen(s))
                                  /\ ~merged => Matched(specs, g[s])}
<1>5. ASSUME NEW s \in SUBSET S,
             \A r \in SUBSET S : Cardinality(r) < Cardinality(s) => r \in G
      PROVE  s \in G
  <2>1. CASE s = {}
    <3>1. g[s] = <<>> /\ Seen(s) = {}
      BY <1>4, <2>1 DEF Fold
    <3>2. BucketsOver(<<>>, {})
      <4>1. Len(<<>>) = 0 /\ 1 .. 0 = {} /\ <<>> \in Seq(SUBSET {}) /\ DOMAIN <<>> = 1 .. 0
        OBVIOUS
      <4> QED BY <4>1 DEF BucketsOver
    <3>3. Matched(specs, <<>>)
      <4>1. 1 .. Len(<<>>) = {}
        OBVIOUS
      <4> QED BY <4>1 DEF Matched
    <3> QED BY <3>1, <3>2, <3>3
  <2>2. CASE s # {}
    <3> DEFINE m == Max(s)
               r == s \ {m}
    <3>1. /\ m \in s /\ r \in SUBSET S /\ Cardinality(s) \in Nat
          /\ Cardinality(r) = Cardinality(s) - 1
      BY <1>3, <2>2, LastOut
    <3>2. BucketsOver(g[r], Seen(r)) /\ (~merged => Matched(specs, g[r]))
      <4>1. Cardinality(r) < Cardinality(s)
        BY <3>1
      <4>2. r \in G
        BY <3>1, <4>1, <1>5
      <4> QED BY <4>2
    <3>3. g[s] = Joined(specs, merged, g[r], list[m])
      BY <1>4, <2>2 DEF Fold
    <3>4. list[m] \notin Seen(r)
      BY <3>1, <1>2
    <3>5. Seen(s) = Seen(r) \cup {list[m]}
      BY <3>1
    <3> HIDE DEF m, r, Seen
    <3>6. BucketsOver(Joined(specs, merged, g[r], list[m]), Seen(r) \cup {list[m]})
      BY <3>2, <3>4, JoinedKeeps
    <3>7. ~merged => Matched(specs, Joined(specs, merged, g[r], list[m]))
      <4> SUFFICES ASSUME merged = FALSE
                   PROVE  Matched(specs, Joined(specs, merged, g[r], list[m]))
        OBVIOUS
      <4> QED BY <3>2, JoinedSame
    <3> QED BY <3>3, <3>5, <3>6, <3>7
  <2> QED BY <2>1, <2>2
<1> HIDE DEF G
<1>6. \A s \in SUBSET S : s \in G
  BY <1>3, <1>5, SetInduct
<1>7. BucketsOver(g[S], Seen(S)) /\ (~merged => Matched(specs, g[S]))
  BY <1>6 DEF G
<1> QED BY <1>1, <1>2, <1>4, <1>7

LEMMA SeqIn ==
  ASSUME NEW T, NEW list \in Seq(T), NEW A, ToSet(list) \subseteq A
  PROVE  list \in Seq(A)
<1>1. /\ Len(list) \in Nat /\ DOMAIN list = 1 .. Len(list)
      /\ \A k \in 1 .. Len(list) : list[k] \in A
  BY ListPlaces
<1>2. list = [k \in 1 .. Len(list) |-> list[k]]
  BY <1>1
<1> QED BY <1>1, <1>2

(* Layers put together by their specs: each layer once.                    *)
Twins(specs, layers, i) == {j \in layers : specs[j] = specs[i]}
Firsts(specs, layers) == Ordered({Min(Twins(specs, layers, i)) : i \in layers})

LEMMA FirstFacts ==
  ASSUME NEW specs, NEW layers \in SUBSET Nat \ {0}, IsFiniteSet(layers)
  PROVE  /\ Firsts(specs, layers) \in Seq(Nat) /\ IsInjective(Firsts(specs, layers))
         /\ \A f \in ToSet(Firsts(specs, layers)) :
              f \in layers /\ f = Min(Twins(specs, layers, f))
         /\ \A x \in layers : \E f \in ToSet(Firsts(specs, layers)) : specs[x] = specs[f]
<1> DEFINE of(i) == Twins(specs, layers, i)
           S == {Min(of(i)) : i \in layers}
<1>1. ASSUME NEW i \in layers
      PROVE  /\ Min(of(i)) \in layers /\ specs[Min(of(i))] = specs[i]
             /\ Min(of(i)) = Min(of(Min(of(i))))
  <2>1. of(i) \in SUBSET Nat /\ i \in of(i)
    BY DEF Twins
  <2>2. Min(of(i)) \in of(i)
    BY <2>1, LeastIn
  <2>3. Min(of(i)) \in layers /\ specs[Min(of(i))] = specs[i]
    BY <2>2 DEF Twins
  <2>4. of(Min(of(i))) = of(i)
    BY <2>3 DEF Twins
  <2> QED BY <2>3, <2>4
<1>2. S \in SUBSET Nat \ {0} /\ IsFiniteSet(S)
  <2>1. S \subseteq layers
    BY <1>1
  <2> QED BY <2>1, FS_Subset
<1>3. /\ Ordered(S) \in Seq(Nat) /\ IsInjective(Ordered(S)) /\ ToSet(Ordered(S)) = S
  BY <1>2, OrderedAll
<1>4. Firsts(specs, layers) = Ordered(S)
  BY DEF Firsts
<1>5. \A f \in S : f \in layers /\ f = Min(of(f))
  BY <1>1
<1>6. \A x \in layers : Min(of(x)) \in S /\ specs[x] = specs[Min(of(x))]
  BY <1>1
<1> HIDE DEF S
<1> QED BY <1>3, <1>4, <1>5, <1>6

(* Every layer of a bucket once, whatever the specs.                       *)
LEMMA BySpecFacts ==
  ASSUME NEW specs, NEW layers \in SUBSET Nat \ {0}, IsFiniteSet(layers)
  PROVE  /\ BySpec(specs, layers) \in Seq(Nat) /\ IsInjective(BySpec(specs, layers))
         /\ ToSet(BySpec(specs, layers)) = layers
<1> DEFINE firsts == Firsts(specs, layers)
           of(i) == Twins(specs, layers, i)
           L == Len(firsts)
           lists == [k \in 1 .. L |-> Ordered(of(firsts[k]))]
           f == FlattenSeq(lists)
<1>1. /\ firsts \in Seq(Nat) /\ IsInjective(firsts)
      /\ \A g \in ToSet(firsts) : g \in layers /\ g = Min(of(g))
      /\ \A x \in layers : \E g \in ToSet(firsts) : specs[x] = specs[g]
  BY FirstFacts
<1> HIDE DEF firsts
<1>2. /\ L \in Nat /\ DOMAIN firsts = 1 .. L
      /\ \A k \in 1 .. L : firsts[k] \in layers /\ firsts[k] = Min(of(firsts[k]))
      /\ \A k, l \in 1 .. L : firsts[k] = firsts[l] => k = l
      /\ \A x \in layers : \E k \in 1 .. L : specs[x] = specs[firsts[k]]
  <2>1. /\ L \in Nat /\ DOMAIN firsts = 1 .. L
        /\ \A k \in 1 .. L : firsts[k] \in ToSet(firsts)
        /\ \A x \in ToSet(firsts) : \E k \in 1 .. L : x = firsts[k]
        /\ \A k, l \in 1 .. L : firsts[k] = firsts[l] => k = l
    BY <1>1, ListPlaces
  <2>2. ASSUME NEW x \in layers PROVE \E k \in 1 .. L : specs[x] = specs[firsts[k]]
    <3>1. PICK g \in ToSet(firsts) : specs[x] = specs[g]
      BY <1>1
    <3>2. PICK k \in 1 .. L : g = firsts[k]
      BY <2>1
    <3> QED BY <3>1, <3>2
  <2>3. \A k \in 1 .. L : firsts[k] \in layers /\ firsts[k] = Min(of(firsts[k]))
    BY <2>1, <1>1
  <2> QED BY <2>1, <2>2, <2>3
<1>3. BySpec(specs, layers) = f
  BY <1>2 DEF BySpec, Firsts, Twins, firsts
<1> HIDE DEF L
<1>4. ASSUME NEW k \in 1 .. L
      PROVE  /\ lists[k] \in Seq(Nat) /\ IsInjective(lists[k])
             /\ ToSet(lists[k]) = of(firsts[k])
  <2>1. of(firsts[k]) \in SUBSET Nat \ {0} /\ IsFiniteSet(of(firsts[k]))
    <3>1. of(firsts[k]) \subseteq layers
      BY DEF Twins
    <3> QED BY <3>1, FS_Subset
  <2> QED BY <2>1, OrderedAll
<1>5. lists \in Seq(Seq(Nat)) /\ Len(lists) = L
  BY <1>2, <1>4
<1> HIDE DEF lists
<1>6. PICK k, j : f \in Seq(Nat) /\ Placing(f, lists, L, k, j)
  BY <1>5, FlattenPlaces
<1> HIDE DEF f
<1>7. /\ \A p \in 1 .. Len(f) : /\ k[p] \in 1 .. L /\ j[p] \in 1 .. Len(lists[k[p]])
                                /\ f[p] = lists[k[p]][j[p]]
      /\ \A p, q \in 1 .. Len(f) : k[p] = k[q] /\ j[p] = j[q] => p = q
      /\ \A a \in 1 .. L : \A b \in 1 .. Len(lists[a]) : \E p \in 1 .. Len(f) : f[p] = lists[a][b]
  BY <1>6 DEF Placing
<1>8. ASSUME NEW p \in 1 .. Len(f)
      PROVE  f[p] \in of(firsts[k[p]])
  <2>1. /\ k[p] \in 1 .. L /\ j[p] \in 1 .. Len(lists[k[p]])
        /\ f[p] = lists[k[p]][j[p]]
    BY <1>7
  <2>2. lists[k[p]] \in Seq(Nat) /\ ToSet(lists[k[p]]) = of(firsts[k[p]])
    BY <2>1, <1>4
  <2>3. lists[k[p]][j[p]] \in ToSet(lists[k[p]])
    BY <2>1, <2>2, ListPlaces
  <2> QED BY <2>1, <2>2, <2>3
<1>9. ASSUME NEW p \in 1 .. Len(f), NEW q \in 1 .. Len(f), f[p] = f[q]
      PROVE  p = q
  <2>1. /\ k[p] \in 1 .. L /\ j[p] \in 1 .. Len(lists[k[p]]) /\ f[p] = lists[k[p]][j[p]]
        /\ k[q] \in 1 .. L /\ j[q] \in 1 .. Len(lists[k[q]]) /\ f[q] = lists[k[q]][j[q]]
    BY <1>7
  <2>2. of(firsts[k[p]]) = of(firsts[k[q]])
    BY <1>8, <1>9 DEF Twins
  <2>3. k[p] = k[q]
    BY <2>1, <2>2, <1>2
  <2>4. lists[k[p]] \in Seq(Nat) /\ IsInjective(lists[k[p]])
    BY <2>1, <1>4
  <2>5. \A x, y \in 1 .. Len(lists[k[p]]) : lists[k[p]][x] = lists[k[p]][y] => x = y
    BY <2>4, ListPlaces
  <2>6. j[p] = j[q]
    BY <2>1, <2>3, <2>5, <1>9
  <2> QED BY <2>3, <2>6, <1>7
<1>10. ToSet(f) \subseteq layers
  <2> SUFFICES ASSUME NEW x \in ToSet(f) PROVE x \in layers
    OBVIOUS
  <2>1. PICK p \in 1 .. Len(f) : x = f[p]
    BY <1>6, ListPlaces
  <2> QED BY <2>1, <1>8 DEF Twins
<1>11. layers \subseteq ToSet(f)
  <2> SUFFICES ASSUME NEW x \in layers PROVE x \in ToSet(f)
    OBVIOUS
  <2>1. PICK a \in 1 .. L : specs[x] = specs[firsts[a]]
    BY <1>2
  <2>2. x \in ToSet(lists[a]) /\ lists[a] \in Seq(Nat)
    BY <2>1, <1>4 DEF Twins
  <2>3. PICK b \in 1 .. Len(lists[a]) : x = lists[a][b]
    BY <2>2, ListPlaces
  <2>4. PICK p \in 1 .. Len(f) : f[p] = lists[a][b]
    BY <1>7
  <2> QED BY <2>3, <2>4, <1>6, ListPlaces
<1>12. IsInjective(f)
  <2>1. DOMAIN f = 1 .. Len(f)
    BY <1>6, ListPlaces
  <2> QED BY <2>1, <1>9 DEF IsInjective
<1> QED BY <1>3, <1>6, <1>10, <1>11, <1>12

-----------------------------------------------------------------------------
(* Groups of the buckets, one list of groups for each.                     *)
Listed(all) == \E T : all \in Seq(T)
Full(all) == \A k \in 1 .. Len(all) : Len(all[k].layers) # 0
GroupList(all, A) == Listed(all) /\ GroupsOver(all, A) /\ Len(all) # 0

LEMMA ListedLists ==
  ASSUME NEW L \in Nat, NEW lists, lists = [a \in 1 .. L |-> lists[a]],
         \A a \in 1 .. L : Listed(lists[a])
  PROVE  \E T : lists \in Seq(Seq(T)) /\ Len(lists) = L
<1> DEFINE T == UNION {{lists[a][b] : b \in 1 .. Len(lists[a])} : a \in 1 .. L}
<1>1. ASSUME NEW a \in 1 .. L
      PROVE  lists[a] \in Seq(T)
  <2>1. PICK U : lists[a] \in Seq(U)
    BY DEF Listed
  <2>2. Len(lists[a]) \in Nat /\ DOMAIN lists[a] = 1 .. Len(lists[a])
    BY <2>1
  <2>3. lists[a] = [b \in 1 .. Len(lists[a]) |-> lists[a][b]]
    BY <2>1, <2>2
  <2>4. \A b \in 1 .. Len(lists[a]) : lists[a][b] \in T
    OBVIOUS
  <2> HIDE DEF T
  <2> QED BY <2>2, <2>3, <2>4
<1> HIDE DEF T
<1>2. lists \in [1 .. L -> Seq(T)]
  BY <1>1
<1>3. lists \in Seq(Seq(T)) /\ Len(lists) = L
  BY <1>2
<1> QED BY <1>3

LEMMA BucketGroups ==
  ASSUME NEW A, NEW bs, BucketsOver(bs, A), Len(bs) # 0,
         NEW lists, lists = [a \in 1 .. Len(bs) |-> lists[a]],
         \A a \in 1 .. Len(bs) : GroupList(lists[a], bs[a])
  PROVE  /\ GroupList(FlattenSeq(lists), A)
         /\ (\A a \in 1 .. Len(bs) : Full(lists[a])) => Full(FlattenSeq(lists))
<1> DEFINE L == Len(bs)
<1>1. /\ L \in Nat /\ \A a \in 1 .. L : bs[a] \in SUBSET A
      /\ \A a, b \in 1 .. L : bs[a] \cap bs[b] # {} => a = b
  BY DEF BucketsOver
<1>2. PICK T : lists \in Seq(Seq(T)) /\ Len(lists) = L
  <2> HIDE DEF L
  <2>1. \A a \in 1 .. L : Listed(lists[a])
    BY DEF GroupList, L
  <2> QED BY <1>1, <2>1, ListedLists DEF L
<1>3. ASSUME NEW a \in 1 .. L
      PROVE  /\ Len(lists[a]) # 0
             /\ \A b \in 1 .. Len(lists[a]) : Sound(lists[a][b], bs[a])
             /\ \A b, d \in 1 .. Len(lists[a]) : Common(lists[a][b], lists[a][d]) => b = d
  BY DEF GroupList, GroupsOver
<1>4. ASSUME NEW a \in 1 .. L, NEW b \in 1 .. Len(lists[a])
      PROVE  Sound(lists[a][b], A) /\ ToSet(lists[a][b].layers) \subseteq bs[a]
  <2>1. Sound(lists[a][b], bs[a])
    BY <1>3
  <2>2. ToSet(lists[a][b].layers) \subseteq bs[a]
    BY <2>1, ListFacts DEF Sound
  <2>3. lists[a][b].layers \in Seq(A)
    BY <2>1, <1>1 DEF Sound
  <2> QED BY <2>1, <2>2, <2>3 DEF Sound
<1>5. ASSUME NEW a \in 1 .. L, NEW c \in 1 .. L,
             NEW b \in 1 .. Len(lists[a]), NEW d \in 1 .. Len(lists[c]),
             Common(lists[a][b], lists[c][d])
      PROVE  a = c /\ b = d
  <2>1. /\ ToSet(lists[a][b].layers) \subseteq bs[a]
        /\ ToSet(lists[c][d].layers) \subseteq bs[c]
    BY <1>4
  <2>2. a = c
    BY <2>1, <1>1, <1>5 DEF Common
  <2> QED BY <2>2, <1>3, <1>5
<1> DEFINE f == FlattenSeq(lists)
<1> HIDE DEF L
<1>6. /\ GroupsOver(f, A) /\ f \in Seq(T)
      /\ \A p \in 1 .. Len(f) : \E a \in 1 .. L : \E b \in 1 .. Len(lists[a]) : f[p] = lists[a][b]
      /\ \A a \in 1 .. L : Len(lists[a]) # 0 => Len(f) # 0
  BY <1>2, <1>4, <1>5, FlattenGroups
<1> HIDE DEF f
<1>7. 1 \in 1 .. L
  BY <1>1 DEF L
<1>8. Len(f) # 0
  BY <1>3, <1>6, <1>7
<1>9. ASSUME \A a \in 1 .. L : Full(lists[a])
      PROVE  Full(f)
  <2> SUFFICES ASSUME NEW p \in 1 .. Len(f) PROVE Len(f[p].layers) # 0
    BY DEF Full
  <2>1. PICK a \in 1 .. L : \E b \in 1 .. Len(lists[a]) : f[p] = lists[a][b]
    BY <1>6
  <2>2. PICK b \in 1 .. Len(lists[a]) : f[p] = lists[a][b]
    BY <2>1
  <2> QED BY <2>1, <2>2, <1>9 DEF Full
<1> QED BY <1>6, <1>8, <1>9 DEF GroupList, Listed, f, L

(* A list of groups made place by place.                                   *)
LEMMA MadeGroups ==
  ASSUME NEW A, NEW n \in Nat, NEW list, list = [i \in 1 .. n |-> list[i]],
         \A i \in 1 .. n : Sound(list[i], A),
         \A i, j \in 1 .. n : Common(list[i], list[j]) => i = j
  PROVE  /\ Listed(list) /\ GroupsOver(list, A) /\ Len(list) = n
         /\ n # 0 => GroupList(list, A)
<1> DEFINE T == {list[i] : i \in 1 .. n}
<1>1. \A i \in 1 .. n : list[i] \in T
  OBVIOUS
<1> HIDE DEF T
<1>2. list \in Seq(T) /\ Len(list) = n /\ DOMAIN list = 1 .. n
  BY <1>1
<1> QED BY <1>2 DEF GroupList, GroupsOver, Listed

SplitOf(specs, b, n) ==
  [i \in 1 .. n |-> MergedGroup(specs, Every(BySpec(specs, b), i, n))]

LEMMA SplitGroups ==
  ASSUME NEW specs, NEW b \in SUBSET Nat \ {0}, IsFiniteSet(b),
         \A i \in b : specs[i] \in LayerSpecs, NEW n \in Nat \ {0}, n <= Cardinality(b)
  PROVE  GroupList(SplitOf(specs, b, n), b) /\ Full(SplitOf(specs, b, n))
<1> DEFINE names == BySpec(specs, b)
           list == SplitOf(specs, b, n)
<1>1. names \in Seq(Nat) /\ IsInjective(names) /\ ToSet(names) = b
  BY BySpecFacts
<1> HIDE DEF names
<1>2. Len(names) = Cardinality(b) /\ names \in Seq(b)
  BY <1>1, ListFacts, SeqIn
<1>3. list = [i \in 1 .. n |-> MergedGroup(specs, Every(names, i, n))]
  BY DEF SplitOf, names
<1> HIDE DEF list
<1>4. ASSUME NEW i \in 1 .. n
      PROVE  /\ list[i] = MergedGroup(specs, Every(names, i, n))
             /\ Sound(list[i], b) /\ list[i].layers = Every(names, i, n)
             /\ Len(list[i].layers) # 0
  <2> DEFINE e == Every(names, i, n)
  <2>1. e \in Seq(b) /\ Len(e) # 0
    <3>1. i <= Len(names)
      BY <1>2, FS_CardinalityType
    <3> QED BY <3>1, <1>2, EveryFacts
  <2>2. IsInjective(e) /\ ToSet(e) \subseteq b
    BY <1>1, EverySplits
  <2> HIDE DEF e
  <2>3. \A x \in ToSet(e) : specs[x] \in LayerSpecs
    BY <2>2
  <2>4. Sound(MergedGroup(specs, e), b) /\ MergedGroup(specs, e).layers = e
    BY <2>1, <2>2, <2>3, MergedSound
  <2>5. list[i] = MergedGroup(specs, e)
    BY <1>3 DEF e
  <2> QED BY <2>1, <2>4, <2>5 DEF e
<1>5. ASSUME NEW i \in 1 .. n, NEW j \in 1 .. n, Common(list[i], list[j])
      PROVE  i = j
  <2>1. ToSet(Every(names, i, n)) \cap ToSet(Every(names, j, n)) # {}
    BY <1>4, <1>5 DEF Common
  <2> QED BY <2>1, <1>1, EverySplits
<1>6. list = [i \in 1 .. n |-> list[i]]
  BY <1>3
<1>7. GroupList(list, b) /\ Len(list) = n
  BY <1>4, <1>5, <1>6, MadeGroups
<1> QED BY <1>4, <1>7 DEF Full, list

(* Layers by number, each with a spec.                                     *)
Layered(specs) ==
  /\ DOMAIN specs \in SUBSET Nat \ {0} /\ IsFiniteSet(DOMAIN specs)
  /\ \A i \in DOMAIN specs : specs[i] \in LayerSpecs

(* The buckets: sets of layers of some size.                               *)
LEMMA BucketLayers ==
  ASSUME NEW specs, Layered(specs), DOMAIN specs # {}, NEW merged \in BOOLEAN
  PROVE  /\ BucketsOver(Buckets(specs, merged), DOMAIN specs)
         /\ Len(Buckets(specs, merged)) \in Nat \ {0}
         /\ DOMAIN Buckets(specs, merged) = 1 .. Len(Buckets(specs, merged))
         /\ \A a \in 1 .. Len(Buckets(specs, merged)) :
              LET b == Buckets(specs, merged)[a] IN
              /\ b \in SUBSET Nat \ {0} /\ b \subseteq DOMAIN specs
              /\ IsFiniteSet(b) /\ Cardinality(b) \in Nat \ {0}
              /\ \A i \in b : specs[i] \in LayerSpecs
              /\ ~merged => \A i, j \in b : Same(specs[i], specs[j])
<1> DEFINE bs == Buckets(specs, merged)
<1>1. DOMAIN specs \in SUBSET Nat \ {0} /\ IsFiniteSet(DOMAIN specs)
  BY DEF Layered
<1>2. BucketsOver(bs, DOMAIN specs) /\ (~merged => Matched(specs, bs))
  BY <1>1, BucketsFacts
<1> HIDE DEF bs
<1>3. /\ Len(bs) \in Nat /\ DOMAIN bs = 1 .. Len(bs)
      /\ \A b \in 1 .. Len(bs) : bs[b] \in SUBSET DOMAIN specs /\ bs[b] # {}
      /\ \A x \in DOMAIN specs : \E b \in 1 .. Len(bs) : x \in bs[b]
  BY <1>2 DEF BucketsOver
<1>4. Len(bs) # 0
  <2>1. PICK x \in DOMAIN specs : TRUE
    OBVIOUS
  <2>2. PICK b \in 1 .. Len(bs) : x \in bs[b]
    BY <1>3
  <2> QED BY <1>3, <2>2
<1>5. ASSUME NEW a \in 1 .. Len(bs)
      PROVE  /\ bs[a] \in SUBSET Nat \ {0} /\ bs[a] \subseteq DOMAIN specs
             /\ IsFiniteSet(bs[a]) /\ Cardinality(bs[a]) \in Nat \ {0}
             /\ \A i \in bs[a] : specs[i] \in LayerSpecs
             /\ ~merged => \A i, j \in bs[a] : Same(specs[i], specs[j])
  <2>0. ~merged => \A i, j \in bs[a] : Same(specs[i], specs[j])
    BY <1>2 DEF Matched
  <2>1. bs[a] \in SUBSET DOMAIN specs /\ bs[a] # {}
    BY <1>3
  <2>2. IsFiniteSet(bs[a])
    BY <1>1, <2>1, FS_Subset
  <2>3. Cardinality(bs[a]) \in Nat /\ Cardinality(bs[a]) # 0
    BY <2>1, <2>2, FS_CardinalityType, FS_EmptySet
  <2> QED BY <1>1, <2>0, <2>1, <2>2, <2>3 DEF Layered
<1> QED BY <1>2, <1>3, <1>4, <1>5 DEF bs

(* n lists of at most group_size layers: none of them is empty.            *)
LEMMA FewLists ==
  ASSUME NEW c \in Nat \ {0}, NEW g \in Nat \ {0}
  PROVE  Cdiv(c, g) \in Nat \ {0} /\ Cdiv(c, g) <= c
<1> DEFINE q == Cdiv(c, g)
<1>1. q \in Nat /\ q # 0 /\ g * q \in Nat /\ g * q <= c + g - 1
  BY CdivFacts
<1> HIDE DEF q
<1>2. q <= c
  <2> SUFFICES ASSUME c + 1 <= q PROVE FALSE
    BY <1>1
  <2>1. (c + 1) * g <= q * g /\ (c + 1) * g = c * g + g /\ c * g \in Nat
    BY <1>1, Times
  <2>2. 1 * c <= g * c
    BY Times
  <2>3. c * g = g * c /\ q * g = g * q
    BY <1>1
  <2> QED BY <2>1, <2>2, <2>3, <1>1
<1> QED BY <1>1, <1>2 DEF q

(* _get_kv_cache_groups_uniform_page_size: every bucket split in groups.   *)
LEMMA UniformPageGroups ==
  ASSUME NEW specs, Layered(specs), DOMAIN specs # {}
  PROVE  GroupList(UniformPageSizeGroups(specs), DOMAIN specs)
         /\ Full(UniformPageSizeGroups(specs))
<1> DEFINE bs == Buckets(specs, TRUE)
           sizes == {Cardinality(bs[b]) : b \in DOMAIN bs}
           group_size == IF 2 * Max(sizes) < 3 * Min(sizes) THEN Max(sizes) ELSE Min(sizes)
           n(b) == Cdiv(Cardinality(bs[b]), group_size)
           lists == [b \in DOMAIN bs |-> SplitOf(specs, bs[b], n(b))]
<1>1. UniformPageSizeGroups(specs) = FlattenSeq(lists)
  BY DEF UniformPageSizeGroups, SplitOf
<1>2. /\ BucketsOver(bs, DOMAIN specs) /\ Len(bs) \in Nat \ {0} /\ DOMAIN bs = 1 .. Len(bs)
      /\ \A a \in 1 .. Len(bs) :
           /\ bs[a] \in SUBSET Nat \ {0} /\ bs[a] \subseteq DOMAIN specs
           /\ IsFiniteSet(bs[a]) /\ Cardinality(bs[a]) \in Nat \ {0}
           /\ \A i \in bs[a] : specs[i] \in LayerSpecs
  BY BucketLayers
<1> HIDE DEF bs
<1>3. group_size \in Nat \ {0}
  <2>1. sizes \in SUBSET Nat /\ sizes \subseteq Nat \ {0}
    BY <1>2
  <2>2. sizes # {}
    <3>1. 1 \in DOMAIN bs
      BY <1>2
    <3> QED BY <3>1
  <2>3. IsFiniteSet(sizes)
    <3> DEFINE card == [b \in DOMAIN bs |-> Cardinality(bs[b])]
    <3>1. IsFiniteSet(DOMAIN bs)
      BY <1>2, FS_Interval
    <3>2. sizes = {card[b] : b \in DOMAIN bs}
      OBVIOUS
    <3> HIDE DEF card
    <3>3. IsFiniteSet({card[b] : b \in DOMAIN bs})
      BY <3>1, ValuesFinite
    <3> QED BY <3>2, <3>3
  <2> HIDE DEF sizes
  <2>4. Max(sizes) \in sizes /\ Min(sizes) \in sizes
    BY <2>1, <2>2, <2>3, LargestIn, LeastIn
  <2> QED BY <2>1, <2>4
<1> HIDE DEF group_size
<1>4. ASSUME NEW a \in 1 .. Len(bs)
      PROVE  GroupList(lists[a], bs[a]) /\ Full(lists[a])
  <2>1. n(a) \in Nat \ {0} /\ n(a) <= Cardinality(bs[a])
    BY <1>2, <1>3, FewLists
  <2>2. lists[a] = SplitOf(specs, bs[a], n(a))
    BY <1>2
  <2> HIDE DEF n, lists
  <2>3. /\ bs[a] \in SUBSET Nat \ {0} /\ IsFiniteSet(bs[a])
        /\ \A i \in bs[a] : specs[i] \in LayerSpecs
    BY <1>2
  <2>4. GroupList(SplitOf(specs, bs[a], n(a)), bs[a]) /\ Full(SplitOf(specs, bs[a], n(a)))
    BY <2>1, <2>3, SplitGroups
  <2> QED BY <2>2, <2>4
<1>5. lists = [a \in 1 .. Len(bs) |-> lists[a]]
  BY <1>2
<1> HIDE DEF lists
<1> QED BY <1>1, <1>2, <1>4, <1>5, BucketGroups

-----------------------------------------------------------------------------
(* Packed groups: the repeats of a pattern, dealt out one list each.       *)
Cells(R) ==
  \A a, c \in 1 .. Len(R) : \A b \in 1 .. Len(R[a]), d \in 1 .. Len(R[c]) :
    R[a][b] = R[c][d] => a = c /\ b = d
Dealt(R, i, n) == FlattenSeq(Every(R, i, n))

Dealing(f, R, i, n, k, j) ==
  /\ \A p \in 1 .. Len(f) :
       /\ k[p] \in Nat /\ i + k[p] * n \in 1 .. Len(R)
       /\ j[p] \in 1 .. Len(R[i + k[p] * n]) /\ f[p] = R[i + k[p] * n][j[p]]
  /\ \A p, q \in 1 .. Len(f) : k[p] = k[q] /\ j[p] = j[q] => p = q

LEMMA DealtFrom ==
  ASSUME NEW T, NEW R \in Seq(Seq(T)), NEW n \in Nat \ {0}, NEW i \in 1 .. n
  PROVE  /\ Dealt(R, i, n) \in Seq(T)
         /\ \E k, j : Dealing(Dealt(R, i, n), R, i, n, k, j)
<1> DEFINE e == Every(R, i, n)
           f == Dealt(R, i, n)
<1>1. /\ e \in Seq(Seq(T)) /\ Len(e) \in Nat
      /\ \A k \in 1 .. Len(e) : i + (k - 1) * n \in 1 .. Len(R) /\ e[k] = R[i + (k - 1) * n]
  <2> DEFINE U == Seq(T)
  <2>1. R \in Seq(U)
    OBVIOUS
  <2> HIDE DEF U
  <2>2. Every(R, i, n) \in Seq(U) /\ Len(Every(R, i, n)) \in Nat
    BY <2>1, EveryFacts
  <2>3. \A k \in 1 .. Len(Every(R, i, n)) :
          /\ i + (k - 1) * n \in 1 .. Len(R)
          /\ Every(R, i, n)[k] = R[i + (k - 1) * n]
    BY <2>1, EveryFacts
  <2> QED BY <2>2, <2>3 DEF U
<1>2. f = FlattenSeq(e)
  BY DEF Dealt
<1> HIDE DEF e, f
<1>3. PICK k, j : f \in Seq(T) /\ Placing(f, e, Len(e), k, j)
  BY <1>1, <1>2, FlattenPlaces
<1>4. /\ \A p \in 1 .. Len(f) : /\ k[p] \in 1 .. Len(e) /\ j[p] \in 1 .. Len(e[k[p]])
                                /\ f[p] = e[k[p]][j[p]]
      /\ \A p, q \in 1 .. Len(f) : k[p] = k[q] /\ j[p] = j[q] => p = q
  BY <1>3 DEF Placing
<1> DEFINE m == [p \in 1 .. Len(f) |-> k[p] - 1]
<1>5. ASSUME NEW p \in 1 .. Len(f)
      PROVE  /\ m[p] \in Nat /\ k[p] = m[p] + 1 /\ i + m[p] * n \in 1 .. Len(R)
             /\ j[p] \in 1 .. Len(R[i + m[p] * n])
             /\ f[p] = R[i + m[p] * n][j[p]]
  <2>1. /\ k[p] \in 1 .. Len(e) /\ j[p] \in 1 .. Len(e[k[p]]) /\ f[p] = e[k[p]][j[p]]
    BY <1>4
  <2>2. m[p] = k[p] - 1
    OBVIOUS
  <2> HIDE DEF m
  <2>3. i + m[p] * n \in 1 .. Len(R) /\ e[k[p]] = R[i + m[p] * n]
    BY <2>1, <2>2, <1>1
  <2>4. m[p] \in Nat /\ k[p] = m[p] + 1
    <3> DEFINE c == k[p]
               L == Len(e)
    <3>1. c \in 1 .. L /\ L \in Nat
      BY <2>1, <1>1
    <3>2. m[p] = c - 1
      BY <2>2
    <3> HIDE DEF c, L
    <3>3. m[p] \in Nat /\ c = m[p] + 1
      BY <3>1, <3>2
    <3> QED BY <3>3 DEF c
  <2> QED BY <2>1, <2>3, <2>4
<1> HIDE DEF m
<1>6. ASSUME NEW p \in 1 .. Len(f), NEW q \in 1 .. Len(f), m[p] = m[q], j[p] = j[q]
      PROVE  p = q
  <2>1. k[p] = k[q]
    BY <1>5, <1>6
  <2> QED BY <2>1, <1>4, <1>6
<1>7. Dealing(f, R, i, n, m, j)
  BY <1>5, <1>6 DEF Dealing
<1> QED BY <1>3, <1>7 DEF f

(* Every n-th row: a place falls to one of n groups.                       *)
LEMMA DealtOnce ==
  ASSUME NEW T, NEW R \in Seq(Seq(T)), Cells(R), NEW n \in Nat \ {0}
  PROVE  /\ \A i \in 1 .. n : Dealt(R, i, n) \in Seq(T) /\ IsInjective(Dealt(R, i, n))
         /\ \A i, j \in 1 .. n :
              ToSet(Dealt(R, i, n)) \cap ToSet(Dealt(R, j, n)) # {} => i = j
<1>1. ASSUME NEW x \in 1 .. Len(R), NEW y \in 1 .. Len(R),
             NEW b \in 1 .. Len(R[x]), NEW d \in 1 .. Len(R[y]), R[x][b] = R[y][d]
      PROVE  x = y /\ b = d
  BY <1>1 DEF Cells
<1>2. ASSUME NEW i \in 1 .. n
      PROVE  Dealt(R, i, n) \in Seq(T) /\ IsInjective(Dealt(R, i, n))
  <2> DEFINE f == Dealt(R, i, n)
  <2>1. f \in Seq(T) /\ \E k, j : Dealing(f, R, i, n, k, j)
    BY DealtFrom
  <2> HIDE DEF f
  <2>2. PICK k, j : Dealing(f, R, i, n, k, j)
    BY <2>1
  <2>3. ASSUME NEW p \in 1 .. Len(f), NEW q \in 1 .. Len(f), f[p] = f[q]
        PROVE  p = q
    <3> DEFINE x == i + k[p] * n
               y == i + k[q] * n
    <3>1. /\ k[p] \in Nat /\ x \in 1 .. Len(R) /\ j[p] \in 1 .. Len(R[x]) /\ f[p] = R[x][j[p]]
          /\ k[q] \in Nat /\ y \in 1 .. Len(R) /\ j[q] \in 1 .. Len(R[y]) /\ f[q] = R[y][j[q]]
      BY <2>2 DEF Dealing
    <3> HIDE DEF x, y
    <3>2. x = y /\ j[p] = j[q]
      <4>1. R[x][j[p]] = R[y][j[q]]
        BY <3>1, <2>3
      <4>2. /\ x \in 1 .. Len(R) /\ j[p] \in 1 .. Len(R[x])
            /\ y \in 1 .. Len(R) /\ j[q] \in 1 .. Len(R[y])
        BY <3>1
      <4> QED BY <4>1, <4>2, <1>1
    <3>3. k[p] = k[q]
      <4>1. i + k[p] * n = i + k[q] * n
        BY <3>2 DEF x, y
      <4> QED BY <4>1, <3>1, Residues
    <3> QED BY <3>2, <3>3, <2>2 DEF Dealing
  <2>4. DOMAIN f = 1 .. Len(f)
    BY <2>1
  <2> QED BY <2>1, <2>3, <2>4 DEF IsInjective, f
<1>3. ASSUME NEW i \in 1 .. n, NEW j \in 1 .. n,
             NEW z \in ToSet(Dealt(R, i, n)) \cap ToSet(Dealt(R, j, n))
      PROVE  i = j
  <2> DEFINE f == Dealt(R, i, n)
             g == Dealt(R, j, n)
  <2>1. f \in Seq(T) /\ \E k, m : Dealing(f, R, i, n, k, m)
    BY DealtFrom
  <2>2. g \in Seq(T) /\ \E k, m : Dealing(g, R, j, n, k, m)
    BY DealtFrom
  <2>3. PICK p \in 1 .. Len(f) : z = f[p]
    BY <2>1, ListPlaces
  <2>4. PICK q \in 1 .. Len(g) : z = g[q]
    BY <2>2, ListPlaces
  <2> HIDE DEF f, g
  <2>5. PICK k, m : Dealing(f, R, i, n, k, m)
    BY <2>1
  <2>6. PICK l, o : Dealing(g, R, j, n, l, o)
    BY <2>2
  <2> DEFINE x == i + k[p] * n
             y == j + l[q] * n
  <2>7. /\ k[p] \in Nat /\ x \in 1 .. Len(R) /\ m[p] \in 1 .. Len(R[x]) /\ f[p] = R[x][m[p]]
        /\ l[q] \in Nat /\ y \in 1 .. Len(R) /\ o[q] \in 1 .. Len(R[y]) /\ g[q] = R[y][o[q]]
    BY <2>5, <2>6 DEF Dealing
  <2> HIDE DEF x, y
  <2>8. x = y
    <3>1. R[x][m[p]] = R[y][o[q]]
      BY <2>3, <2>4, <2>7
    <3>2. /\ x \in 1 .. Len(R) /\ m[p] \in 1 .. Len(R[x])
          /\ y \in 1 .. Len(R) /\ o[q] \in 1 .. Len(R[y])
      BY <2>7
    <3> QED BY <1>1, <3>1, <3>2
  <2> DEFINE a == k[p]
             b == l[q]
  <2>9. i + a * n = j + b * n /\ a \in Nat /\ b \in Nat
    BY <2>7, <2>8 DEF x, y
  <2> HIDE DEF a, b
  <2> QED BY <2>9, Residues
<1> QED BY <1>2, <1>3

LEMMA CountFacts ==
  ASSUME NEW specs, NEW b \in SUBSET Nat \ {0}, IsFiniteSet(b), b # {},
         \A i \in b : specs[i].page \in Nat \ {0}
  PROVE  /\ PagesOf(specs, b) \in SUBSET Nat \ {0} /\ IsFiniteSet(PagesOf(specs, b))
         /\ \A p \in PagesOf(specs, b) :
              /\ OfPage(specs, b, p) \in SUBSET b /\ OfPage(specs, b, p) # {}
              /\ IsFiniteSet(OfPage(specs, b, p))
              /\ Cardinality(OfPage(specs, b, p)) \in Nat \ {0}
              /\ Min(Counts(specs, b)) <= Cardinality(OfPage(specs, b, p))
         /\ Counts(specs, b) \in SUBSET Nat \ {0} /\ IsFiniteSet(Counts(specs, b))
         /\ Counts(specs, b) # {}
         /\ Max(Counts(specs, b)) \in Nat \ {0} /\ Min(Counts(specs, b)) \in Nat \ {0}
         /\ \A c \in Counts(specs, b) : c <= Max(Counts(specs, b))
<1> DEFINE P == PagesOf(specs, b)
           C == Counts(specs, b)
           page == [i \in b |-> specs[i].page]
           card == [p \in P |-> Cardinality(OfPage(specs, b, p))]
<1>1. P = {page[i] : i \in b}
  BY DEF PagesOf
<1>2. \A i \in b : page[i] = specs[i].page
  OBVIOUS
<1> HIDE DEF P, page
<1>3. P \in SUBSET Nat \ {0} /\ IsFiniteSet(P) /\ P # {}
  <2>1. IsFiniteSet({page[i] : i \in b})
    BY ValuesFinite
  <2>2. P \in SUBSET Nat \ {0} /\ P # {}
    BY <1>1, <1>2
  <2> QED BY <1>1, <2>1, <2>2
<1>4. ASSUME NEW p \in P
      PROVE  /\ OfPage(specs, b, p) \in SUBSET b /\ OfPage(specs, b, p) # {}
             /\ IsFiniteSet(OfPage(specs, b, p))
             /\ Cardinality(OfPage(specs, b, p)) \in Nat \ {0}
  <2> DEFINE O == OfPage(specs, b, p)
  <2>1. O \in SUBSET b /\ O # {}
    BY <1>1, <1>2 DEF OfPage
  <2> HIDE DEF O
  <2>2. IsFiniteSet(O)
    BY <2>1, FS_Subset
  <2> QED BY <2>1, <2>2, FS_CardinalityType, FS_EmptySet DEF O
<1>5. C = {card[p] : p \in P}
  BY DEF Counts, P
<1>6. \A p \in P : card[p] = Cardinality(OfPage(specs, b, p))
  OBVIOUS
<1> HIDE DEF C, card
<1>7. C \in SUBSET Nat \ {0} /\ IsFiniteSet(C) /\ C # {}
  BY <1>3, <1>4, <1>5, <1>6, ValuesFinite
<1>8. C \in SUBSET Nat
  BY <1>7
<1>9. Max(C) \in C /\ (\A c \in C : c <= Max(C)) /\ Min(C) \in C /\ \A c \in C : Min(C) <= c
  BY <1>7, <1>8, LargestIn, LeastIn
<1>10. \A p \in P : Min(C) <= Cardinality(OfPage(specs, b, p))
  BY <1>5, <1>6, <1>9
<1>11. Max(C) \in Nat \ {0} /\ Min(C) \in Nat \ {0}
  BY <1>7, <1>9
<1> QED BY <1>3, <1>4, <1>7, <1>9, <1>10, <1>11 DEF P, C

(* The rows of a bucket: each layer in at most one row, once.              *)
LEMMA PatternFacts ==
  ASSUME NEW specs, NEW b \in SUBSET Nat \ {0}, IsFiniteSet(b), b # {},
         \A i \in b : specs[i].page \in Nat \ {0}
  PROVE  PatternRepeats(specs, b) \in Seq(Seq(b)) /\ Cells(PatternRepeats(specs, b))
<1> DEFINE first(p) == Min(OfPage(specs, b, p))
           pages == {first(p) : p \in PagesOf(specs, b)}
           at == Ordered(pages)
           L == Min(Counts(specs, b))
           M == Cardinality(pages)
           list(q) == Ordered(OfPage(specs, b, specs[at[q]].page))
           R == PatternRepeats(specs, b)
<1>1. /\ \A p \in PagesOf(specs, b) :
           /\ OfPage(specs, b, p) \in SUBSET b /\ OfPage(specs, b, p) # {}
           /\ IsFiniteSet(OfPage(specs, b, p))
           /\ Cardinality(OfPage(specs, b, p)) \in Nat \ {0}
           /\ L <= Cardinality(OfPage(specs, b, p))
      /\ L \in Nat
  BY CountFacts
<1>2. R = [k \in 1 .. L |-> [q \in 1 .. M |-> list(q)[k]]]
  BY DEF PatternRepeats
<1>3. ASSUME NEW p \in PagesOf(specs, b)
      PROVE  first(p) \in b /\ specs[first(p)].page = p
  <2>1. OfPage(specs, b, p) \in SUBSET Nat
    BY <1>1
  <2>2. first(p) \in OfPage(specs, b, p)
    BY <1>1, <2>1, LeastIn
  <2> QED BY <2>2 DEF OfPage
<1>4. \A x \in pages : x \in b /\ specs[x].page \in PagesOf(specs, b)
  BY <1>3
<1>5. \A x, y \in pages : specs[x].page = specs[y].page => x = y
  <2> SUFFICES ASSUME NEW x \in pages, NEW y \in pages, specs[x].page = specs[y].page
               PROVE  x = y
    OBVIOUS
  <2>1. PICK p \in PagesOf(specs, b) : x = first(p)
    OBVIOUS
  <2>2. PICK r \in PagesOf(specs, b) : y = first(r)
    OBVIOUS
  <2>3. p = r
    BY <2>1, <2>2, <1>3
  <2> QED BY <2>1, <2>2, <2>3
<1> HIDE DEF first, pages, L, R
<1>6. pages \in SUBSET Nat \ {0} /\ IsFiniteSet(pages)
  BY <1>4, FS_Subset
<1>7. at \in Seq(Nat) /\ ToSet(at) = pages /\ IsInjective(at) /\ Len(at) = M /\ M \in Nat
  BY <1>6, OrderedAll, FS_CardinalityType
<1> HIDE DEF at, M
<1>8. /\ \A q \in 1 .. M : at[q] \in pages
      /\ \A q, r \in 1 .. M : at[q] = at[r] => q = r
  <2>1. \A q \in 1 .. Len(at) : at[q] \in ToSet(at)
    BY <1>7, ListPlaces
  <2>2. DOMAIN at = 1 .. Len(at)
    BY <1>7
  <2>3. \A q, r \in 1 .. Len(at) : at[q] = at[r] => q = r
    BY <1>7, <2>2 DEF IsInjective
  <2> QED BY <1>7, <2>1, <2>3
<1>9. ASSUME NEW q \in 1 .. M
      PROVE  /\ \A k \in 1 .. L : /\ list(q)[k] \in b
                                  /\ specs[list(q)[k]].page = specs[at[q]].page
             /\ \A k, l \in 1 .. L : list(q)[k] = list(q)[l] => k = l
  <2> DEFINE O == OfPage(specs, b, specs[at[q]].page)
             o == Ordered(O)
  <2>1. /\ O \in SUBSET b /\ IsFiniteSet(O) /\ Cardinality(O) \in Nat
        /\ L <= Cardinality(O)
    BY <1>1, <1>4, <1>8
  <2>2. \A x \in O : x \in b /\ specs[x].page = specs[at[q]].page
    BY DEF OfPage
  <2> HIDE DEF O
  <2>3. O \in SUBSET Nat \ {0}
    BY <2>1
  <2>4. /\ o \in Seq(Nat) /\ ToSet(o) = O /\ IsInjective(o) /\ Len(o) = Cardinality(O)
    BY <2>1, <2>3, OrderedAll
  <2> HIDE DEF o
  <2>5. /\ \A k \in 1 .. Len(o) : o[k] \in O
        /\ \A k, l \in 1 .. Len(o) : o[k] = o[l] => k = l
    BY <2>4, ListPlaces
  <2>6. \A k \in 1 .. L : k \in 1 .. Len(o)
    BY <2>1, <2>4, <1>1
  <2>7. list(q) = o
    BY DEF o, O
  <2> HIDE DEF list
  <2> QED BY <2>2, <2>5, <2>6, <2>7
<1>10. ASSUME NEW k \in 1 .. L
       PROVE  R[k] \in Seq(b) /\ Len(R[k]) = M /\ \A q \in 1 .. M : R[k][q] = list(q)[k]
  <2>1. R[k] = [q \in 1 .. M |-> list(q)[k]]
    BY <1>2
  <2>2. \A q \in 1 .. M : list(q)[k] \in b
    BY <1>9
  <2> HIDE DEF list
  <2>3. R[k] \in [1 .. M -> b]
    BY <2>1, <2>2
  <2> QED BY <1>7, <2>1, <2>3
<1>11. R \in Seq(Seq(b)) /\ Len(R) = L
  <2>1. DOMAIN R = 1 .. L /\ R = [k \in 1 .. L |-> R[k]]
    BY <1>2
  <2>2. R \in [1 .. L -> Seq(b)]
    BY <2>1, <1>10
  <2> QED BY <2>2, <1>1
<1>12. ASSUME NEW k \in 1 .. L, NEW l \in 1 .. L, NEW q \in 1 .. M, NEW r \in 1 .. M,
              R[k][q] = R[l][r]
       PROVE  k = l /\ q = r
  <2>1. list(q)[k] = list(r)[l]
    BY <1>10, <1>12
  <2>2. specs[at[q]].page = specs[at[r]].page
    <3>1. /\ specs[list(q)[k]].page = specs[at[q]].page
          /\ specs[list(r)[l]].page = specs[at[r]].page
      BY <1>9
    <3> HIDE DEF list
    <3> QED BY <2>1, <3>1
  <2>3. q = r
    BY <2>2, <1>5, <1>8
  <2> QED BY <2>1, <2>3, <1>9
<1>13. Cells(R)
  <2> SUFFICES ASSUME NEW k \in 1 .. Len(R), NEW l \in 1 .. Len(R),
                      NEW q \in 1 .. Len(R[k]), NEW r \in 1 .. Len(R[l]), R[k][q] = R[l][r]
               PROVE  k = l /\ q = r
    BY DEF Cells
  <2>1. k \in 1 .. L /\ l \in 1 .. L
    BY <1>11
  <2>2. q \in 1 .. M /\ r \in 1 .. M
    BY <2>1, <1>10
  <2> QED BY <2>1, <2>2, <1>12
<1> QED BY <1>11, <1>13 DEF R

(* Two more sums: what padding to a chunk wastes, and a block's width.     *)
PadOf(values, d, x) == (d - (values[x] % d)) % d
WidthOf(specs, b, n, p) == p * Cdiv(Cardinality(OfPage(specs, b, p)), n)

AddsPads(values, d, g, s) ==
  IF s = {} THEN 0
  ELSE PadOf(values, d, (CHOOSE x \in s : TRUE)) + g[s \ {CHOOSE x \in s : TRUE}]

LEMMA PadsTotal ==
  ASSUME NEW S, IsFiniteSet(S), NEW values, NEW d, NEW f,
         \A x \in S : f[x] = PadOf(values, d, x)
  PROVE  Sum(LAMBDA x : PadOf(values, d, x), S) = Total(f, S)
<1> DEFINE h == CHOOSE g : g = [s \in SUBSET S |-> AddsPads(values, d, g, s)]
<1>1. Sum(LAMBDA x : PadOf(values, d, x), S) = h[S]
  BY DEF Sum, MapThenSumSet, MapThenFoldSet, AddsPads
<1>2. ASSUME NEW g, NEW s \in SUBSET S
      PROVE  AddsPads(values, d, g, s) = Adds(f, g, s)
  <2>1. CASE s = {}
    BY <2>1 DEF Adds, AddsPads
  <2>2. CASE s # {}
    <3>1. (CHOOSE x \in s : TRUE) \in S
      BY <2>2
    <3> QED BY <2>2, <3>1 DEF Adds, AddsPads, Choice
  <2> QED BY <2>1, <2>2
<1>3. PICK g : Adding(f, g, S)
  BY Recursion
<1>4. g = [s \in SUBSET S |-> AddsPads(values, d, g, s)]
  BY <1>2, <1>3 DEF Adding
<1>5. h = [s \in SUBSET S |-> AddsPads(values, d, h, s)]
  BY <1>4
<1> HIDE DEF h
<1>6. \A s \in SUBSET S : h[s] = Adds(f, h, s)
  BY <1>2, <1>5
<1>7. \A s \in SUBSET S : h[s] = Total(f, s)
  <2>1. IsFiniteSet(S)
    OBVIOUS
  <2> QED BY ONLY <1>6, <2>1, TotalOf
<1> QED BY <1>1, <1>7

AddsWidths(specs, b, n, g, s) ==
  IF s = {} THEN 0
  ELSE WidthOf(specs, b, n, (CHOOSE x \in s : TRUE)) + g[s \ {CHOOSE x \in s : TRUE}]

LEMMA WidthsTotal ==
  ASSUME NEW S, IsFiniteSet(S), NEW specs, NEW b, NEW n, NEW f,
         \A x \in S : f[x] = WidthOf(specs, b, n, x)
  PROVE  Sum(LAMBDA x : WidthOf(specs, b, n, x), S) = Total(f, S)
<1> DEFINE h == CHOOSE g : g = [s \in SUBSET S |-> AddsWidths(specs, b, n, g, s)]
<1>1. Sum(LAMBDA x : WidthOf(specs, b, n, x), S) = h[S]
  BY DEF Sum, MapThenSumSet, MapThenFoldSet, AddsWidths
<1>2. ASSUME NEW g, NEW s \in SUBSET S
      PROVE  AddsWidths(specs, b, n, g, s) = Adds(f, g, s)
  <2>1. CASE s = {}
    BY <2>1 DEF Adds, AddsWidths
  <2>2. CASE s # {}
    <3>1. (CHOOSE x \in s : TRUE) \in S
      BY <2>2
    <3> QED BY <2>2, <3>1 DEF Adds, AddsWidths, Choice
  <2> QED BY <2>1, <2>2
<1>3. PICK g : Adding(f, g, S)
  BY Recursion
<1>4. g = [s \in SUBSET S |-> AddsWidths(specs, b, n, g, s)]
  BY <1>2, <1>3 DEF Adding
<1>5. h = [s \in SUBSET S |-> AddsWidths(specs, b, n, h, s)]
  BY <1>4
<1> HIDE DEF h
<1>6. \A s \in SUBSET S : h[s] = Adds(f, h, s)
  BY <1>2, <1>5
<1>7. \A s \in SUBSET S : h[s] = Total(f, s)
  <2>1. IsFiniteSet(S)
    OBVIOUS
  <2> QED BY ONLY <1>6, <2>1, TotalOf
<1> QED BY <1>1, <1>7

PadSum(values, d) == Sum(LAMBDA k : (d - (values[k] % d)) % d, DOMAIN values)
LeastPad(values, sizes, d) ==
  d \in sizes /\ \A e \in sizes : \/ PadSum(values, d) < PadSum(values, e)
                                  \/ PadSum(values, d) = PadSum(values, e) /\ d >= e

LEMMA PadSumNat ==
  ASSUME NEW values, IsFiniteSet(DOMAIN values), \A k \in DOMAIN values : values[k] \in Nat,
         NEW d \in Nat \ {0}
  PROVE  PadSum(values, d) \in Nat
<1> DEFINE S == DOMAIN values
           f == [x \in S |-> PadOf(values, d, x)]
<1>1. \A x \in S : f[x] = PadOf(values, d, x)
  OBVIOUS
<1>2. ASSUME NEW x \in S PROVE f[x] \in Nat
  <2> DEFINE v == values[x]
             r == v % d
             m == d - r
  <2>1. v \in Nat
    OBVIOUS
  <2> HIDE DEF v
  <2>2. r \in 0 .. d - 1
    BY <2>1, DivFacts
  <2> HIDE DEF r
  <2>3. m \in Nat
    BY <2>2
  <2> HIDE DEF m
  <2>4. m % d \in Nat
    BY <2>3, DivFacts
  <2> QED BY <1>1, <2>4 DEF PadOf, v, r, m
<1> HIDE DEF f, S
<1>3. IsFiniteSet(S)
  BY DEF S
<1>4. Sum(LAMBDA x : PadOf(values, d, x), S) = Total(f, S)
  BY <1>1, <1>3, PadsTotal
<1>5. Total(f, S) \in Nat
  BY <1>2, <1>3, TotalFacts
<1>6. PadSum(values, d) = Sum(LAMBDA x : PadOf(values, d, x), S)
  BY DEF PadSum, PadOf, S
<1> QED BY <1>4, <1>5, <1>6

LEMMA GcdIn ==
  ASSUME NEW values, IsFiniteSet(DOMAIN values), \A k \in DOMAIN values : values[k] \in Nat,
         NEW lower \in Nat \ {0}, Max(Range(values)) \in Nat, lower <= Max(Range(values))
  PROVE  ApproximateGcd(values, lower) \in Nat \ {0}
<1> DEFINE top == Max(Range(values))
           sizes == lower .. top
           P(d) == PadSum(values, d)
           pads == {P(d) : d \in sizes}
           least == Min(pads)
           best == {d \in sizes : P(d) = least}
           g == Max(best)
<1>1. \A d \in sizes : d \in Nat \ {0}
  OBVIOUS
<1>2. lower \in sizes /\ IsFiniteSet(sizes)
  BY FS_Interval
<1> HIDE DEF sizes
<1>3. \A d \in sizes : P(d) \in Nat
  BY <1>1, PadSumNat
<1> HIDE DEF P
<1>4. pads \in SUBSET Nat /\ pads # {}
  BY <1>2, <1>3
<1>5. least \in pads /\ \A x \in pads : least <= x
  BY <1>4, LeastIn
<1>6. best # {} /\ best \in SUBSET Nat /\ IsFiniteSet(best)
  <2>1. best \subseteq sizes
    OBVIOUS
  <2>2. best # {}
    BY <1>5
  <2> QED BY <1>1, <1>2, <2>1, <2>2, FS_Subset
<1> HIDE DEF best
<1>7. g \in best /\ \A x \in best : x <= g
  BY <1>6, LargestIn
<1> HIDE DEF g, least
<1>8. LeastPad(values, sizes, g)
  <2>1. g \in sizes /\ P(g) = least
    BY <1>7 DEF best
  <2>2. ASSUME NEW e \in sizes PROVE P(g) < P(e) \/ (P(g) = P(e) /\ g >= e)
    <3>1. least <= P(e) /\ P(e) \in Nat /\ P(g) \in Nat
      BY <1>3, <1>5, <2>1
    <3>2. CASE P(e) = least
      <4>1. e <= g
        BY <3>2, <1>7 DEF best
      <4> QED BY <4>1, <3>2, <2>1, <1>1
    <3>3. CASE P(e) # least
      BY <3>1, <3>3, <2>1
    <3> QED BY <3>2, <3>3
  <2> QED BY <2>1, <2>2 DEF LeastPad, P
<1>9. ApproximateGcd(values, lower) = CHOOSE d : LeastPad(values, sizes, d)
  BY DEF ApproximateGcd, LeastPad, PadSum, sizes
<1>10. LeastPad(values, sizes, ApproximateGcd(values, lower))
  BY <1>8, <1>9
<1> QED BY <1>1, <1>10 DEF LeastPad

LEMMA RepeatsIn ==
  ASSUME NEW specs, NEW A, NEW bs, BucketsOver(bs, A), NEW fine \in BOOLEAN,
         \A a \in 1 .. Len(bs) :
           /\ Counts(specs, bs[a]) \in SUBSET Nat \ {0}
           /\ Max(Counts(specs, bs[a])) \in Nat \ {0}
           /\ \A c \in Counts(specs, bs[a]) : c <= Max(Counts(specs, bs[a]))
           /\ IsFiniteSet(Counts(specs, bs[a])) /\ Counts(specs, bs[a]) # {}
  PROVE  RepeatsPerGroup(specs, bs, fine) \in Nat
<1> DEFINE B == {b \in ToSet(bs) : Balanced(specs, b)}
           balanced == Only(bs, B)
           mixed == {b \in ToSet(balanced) : Cardinality(PagesOf(specs, b)) > 1}
           repeats == [k \in DOMAIN balanced |-> Max(Counts(specs, balanced[k]))]
           most == Max(UNION {Counts(specs, b) : b \in mixed})
           lower == IF fine THEN 1 ELSE most
<1>1. RepeatsPerGroup(specs, bs, fine) = IF mixed = {} THEN 0 ELSE ApproximateGcd(repeats, lower)
  BY DEF RepeatsPerGroup
<1>2. bs \in Seq(SUBSET A) /\ Len(bs) \in Nat
  BY DEF BucketsOver
<1>3. balanced \in Seq(SUBSET A) /\ ToSet(balanced) \subseteq ToSet(bs)
  BY <1>2, OnlyFacts
<1> HIDE DEF balanced
<1>4. /\ Len(balanced) \in Nat /\ DOMAIN balanced = 1 .. Len(balanced)
      /\ \A k \in 1 .. Len(balanced) : balanced[k] \in ToSet(balanced)
      /\ \A b \in ToSet(balanced) : \E k \in 1 .. Len(balanced) : b = balanced[k]
  BY <1>3, ListPlaces
<1>5. ASSUME NEW b \in ToSet(bs)
      PROVE  /\ Counts(specs, b) \in SUBSET Nat \ {0} /\ Max(Counts(specs, b)) \in Nat \ {0}
             /\ \A c \in Counts(specs, b) : c <= Max(Counts(specs, b))
             /\ IsFiniteSet(Counts(specs, b)) /\ Counts(specs, b) # {}
  <2>1. PICK a \in 1 .. Len(bs) : b = bs[a]
    BY <1>2, ListPlaces
  <2> QED BY <2>1
<1>6. \A k \in DOMAIN balanced : repeats[k] \in Nat \ {0}
  BY <1>3, <1>4, <1>5
<1>7. IsFiniteSet(DOMAIN balanced) /\ DOMAIN repeats = DOMAIN balanced
  BY <1>4, FS_Interval
<1>8. \A k \in DOMAIN balanced : repeats[k] = Max(Counts(specs, balanced[k]))
  OBVIOUS
<1> HIDE DEF repeats
<1> SUFFICES ASSUME mixed # {} PROVE ApproximateGcd(repeats, lower) \in Nat \ {0}
  BY <1>1
<1> DEFINE top == Max(Range(repeats))
<1>9. /\ Range(repeats) \in SUBSET Nat \ {0}
      /\ top \in Range(repeats) /\ \A v \in Range(repeats) : v <= top
  <2>1. Range(repeats) = {repeats[k] : k \in DOMAIN balanced}
    BY <1>7 DEF Range
  <2>2. IsFiniteSet(Range(repeats))
    BY <1>7, <2>1, ValuesFinite
  <2>3. PICK b \in mixed : TRUE
    OBVIOUS
  <2>4. PICK k \in 1 .. Len(balanced) : b = balanced[k]
    BY <1>4
  <2>5. Range(repeats) \in SUBSET Nat \ {0} /\ Range(repeats) # {} /\ Range(repeats) \in SUBSET Nat
    BY <1>4, <1>6, <2>1, <2>4
  <2> QED BY <2>2, <2>5, LargestIn
<1>10. most \in Nat \ {0} /\ most <= top
  <2> DEFINE U == UNION {Counts(specs, b) : b \in mixed}
             all(b) == Counts(specs, b)
  <2>1. \A b \in mixed : b \in ToSet(balanced) /\ b \in ToSet(bs)
    BY <1>3
  <2>2. ASSUME NEW c \in U PROVE c \in Nat \ {0} /\ c <= top
    <3>1. PICK b \in mixed : c \in Counts(specs, b)
      OBVIOUS
    <3>2. PICK k \in 1 .. Len(balanced) : b = balanced[k]
      BY <1>4, <2>1
    <3>3. Max(Counts(specs, b)) \in Range(repeats)
      BY <1>4, <1>7, <1>8, <3>2 DEF Range
    <3>4. /\ c \in Nat \ {0} /\ c <= Max(Counts(specs, b))
          /\ Max(Counts(specs, b)) \in Nat /\ top \in Nat
          /\ Max(Counts(specs, b)) <= top
      BY <1>5, <1>9, <2>1, <3>1, <3>3
    <3> QED BY <3>4
  <2>3. U # {}
    BY <1>5, <2>1
  <2>4. U \subseteq 1 .. top
    BY <1>9, <2>2
  <2>5. IsFiniteSet(U)
    <3>1. top \in Int /\ 1 \in Int
      BY <1>9
    <3> HIDE DEF U, top
    <3>2. IsFiniteSet(1 .. top)
      BY <3>1, FS_Interval
    <3> QED BY <2>4, <3>2, FS_Subset
  <2> HIDE DEF U
  <2>6. U \in SUBSET Nat
    BY <2>2
  <2>7. Max(U) \in U
    BY <2>3, <2>5, <2>6, LargestIn
  <2> QED BY <2>2, <2>7 DEF U
<1> HIDE DEF top, most
<1>11. lower \in Nat \ {0} /\ lower <= top /\ top \in Nat
  BY <1>9, <1>10
<1> HIDE DEF lower
<1>12. \A k \in DOMAIN repeats : repeats[k] \in Nat
  BY <1>6, <1>7
<1> QED BY <1>7, <1>11, <1>12, GcdIn DEF top

LEMMA MaxTwo ==
  ASSUME NEW a \in Nat, NEW b \in Nat
  PROVE  Max({a, b}) \in Nat /\ a <= Max({a, b}) /\ b <= Max({a, b})
<1>1. IsFiniteSet({a} \cup {b})
  BY FS_Singleton, FS_AddElement
<1>2. {a} \cup {b} = {a, b}
  OBVIOUS
<1>3. IsFiniteSet({a, b}) /\ {a, b} \in SUBSET Nat /\ {a, b} # {}
  BY <1>1, <1>2
<1> QED BY <1>3, LargestIn

PackedOf(specs, b, n) ==
  IF n = 1 THEN <<UniformGroup(specs, Ordered(b))>>
  ELSE [i \in 1 .. n |-> UniformGroup(specs, Dealt(PatternRepeats(specs, b), i, n))]

(* A bucket as one group, or as n.                                         *)
LEMMA PackedBucket ==
  ASSUME NEW specs, NEW b \in SUBSET Nat \ {0}, IsFiniteSet(b), b # {},
         \A i \in b : specs[i] \in LayerSpecs, \A i, j \in b : Same(specs[i], specs[j]),
         NEW n \in Nat \ {0}
  PROVE  GroupList(PackedOf(specs, b, n), b)
<1> DEFINE list == PackedOf(specs, b, n)
           R == PatternRepeats(specs, b)
<1>1. CASE n = 1
  <2> DEFINE o == Ordered(b)
             g == UniformGroup(specs, o)
  <2>1. o \in Seq(Nat) /\ ToSet(o) = b /\ IsInjective(o)
    BY OrderedAll
  <2>2. o \in Seq(b)
    BY <2>1, SeqIn
  <2> HIDE DEF o
  <2>3. Sound(g, b)
    BY <2>1, <2>2, UniformSound
  <2>4. list = <<g>>
    BY <1>1 DEF PackedOf, o
  <2> HIDE DEF g, list
  <2>5. list = [i \in 1 .. n |-> list[i]] /\ \A i \in 1 .. n : list[i] = g
    BY <1>1, <2>4
  <2>6. \A i, j \in 1 .. n : Common(list[i], list[j]) => i = j
    BY <1>1
  <2>7. n \in Nat /\ list = [i \in 1 .. n |-> list[i]] /\ \A i \in 1 .. n : Sound(list[i], b)
    BY <2>3, <2>5
  <2>8. GroupList(list, b) /\ GroupsOver(list, b)
    BY ONLY <2>6, <2>7, <1>1, MadeGroups
  <2> QED BY <2>8 DEF list
<1>2. CASE n # 1
  <2>1. R \in Seq(Seq(b)) /\ Cells(R)
    BY PatternFacts, SpecFacts
  <2>2. list = [i \in 1 .. n |-> UniformGroup(specs, Dealt(R, i, n))]
    BY <1>2 DEF PackedOf
  <2> HIDE DEF R, list
  <2>3. ASSUME NEW i \in 1 .. n
        PROVE  Sound(list[i], b) /\ list[i].layers = Dealt(R, i, n)
    <3> DEFINE d == Dealt(R, i, n)
    <3>1. d \in Seq(b) /\ IsInjective(d)
      BY <2>1, DealtOnce
    <3>2. list[i] = UniformGroup(specs, d)
      BY <2>2
    <3> HIDE DEF d
    <3>3. /\ \A x \in ToSet(d) : specs[x] \in LayerSpecs
          /\ \A x, y \in ToSet(d) : Same(specs[x], specs[y])
      BY <3>1, ListFacts
    <3>4. Sound(UniformGroup(specs, d), b) /\ UniformGroup(specs, d).layers = d
      BY <3>1, <3>3, UniformSound
    <3> QED BY <3>2, <3>4 DEF d
  <2>4. ASSUME NEW i \in 1 .. n, NEW j \in 1 .. n, Common(list[i], list[j])
        PROVE  i = j
    <3>1. ToSet(Dealt(R, i, n)) \cap ToSet(Dealt(R, j, n)) # {}
      BY <2>3, <2>4 DEF Common
    <3> QED BY <2>1, <3>1, DealtOnce
  <2>5. list = [i \in 1 .. n |-> list[i]]
    BY <2>2
  <2> QED BY <2>3, <2>4, <2>5, MadeGroups DEF list
<1> QED BY <1>1, <1>2

(* The bytes of a bucket in n groups, one page size after the other.       *)
LEMMA WidestNat ==
  ASSUME NEW specs, NEW b, NEW n \in Nat \ {0}, PagesOf(specs, b) \in SUBSET Nat \ {0},
         IsFiniteSet(PagesOf(specs, b)),
         \A p \in PagesOf(specs, b) : Cardinality(OfPage(specs, b, p)) \in Nat
  PROVE  Sum(LAMBDA p : p * Cdiv(Cardinality(OfPage(specs, b, p)), n), PagesOf(specs, b)) \in Nat
<1> DEFINE S == PagesOf(specs, b)
           f == [p \in S |-> WidthOf(specs, b, n, p)]
<1>1. \A p \in S : f[p] = WidthOf(specs, b, n, p)
  OBVIOUS
<1>2. ASSUME NEW p \in S PROVE f[p] \in Nat
  <2>1. p \in Nat /\ Cdiv(Cardinality(OfPage(specs, b, p)), n) \in Nat
    BY CdivFacts
  <2>2. p * Cdiv(Cardinality(OfPage(specs, b, p)), n) \in Nat
    BY <2>1, Times
  <2> QED BY <1>1, <2>2 DEF WidthOf
<1> HIDE DEF f, S
<1>3. IsFiniteSet(S)
  BY DEF S
<1>4. Sum(LAMBDA p : WidthOf(specs, b, n, p), S) = Total(f, S)
  BY <1>1, <1>3, WidthsTotal
<1>5. Total(f, S) \in Nat
  BY <1>2, <1>3, TotalFacts
<1>6. Sum(LAMBDA p : p * Cdiv(Cardinality(OfPage(specs, b, p)), n), PagesOf(specs, b))
        = Sum(LAMBDA p : WidthOf(specs, b, n, p), S)
  BY DEF WidthOf, S
<1> QED BY <1>4, <1>5, <1>6

(* _get_packed_kv_cache_groups: however many groups each bucket gets.      *)
LEMMA PackedList ==
  ASSUME NEW specs, Layered(specs), DOMAIN specs # {}, NEW fine \in BOOLEAN
  PROVE  GroupList(PackedGroups(specs, fine), DOMAIN specs)
<1> DEFINE bs == Buckets(specs, FALSE)
           repeats == RepeatsPerGroup(specs, bs, fine)
           first(b) == specs[Min(b)]
           pattern_groups(b) == IF Balanced(specs, b) /\ repeats # 0
                                THEN Cdiv(Max(Counts(specs, b)), repeats) ELSE 1
           is_state(b) == first(b).kind = "mamba" \/ (repeats = 0 /\ IsWindow(first(b)))
           widest(b, n) == Sum(LAMBDA p : p * Cdiv(Cardinality(OfPage(specs, b, p)), n),
                               PagesOf(specs, b))
           share(b) == IF is_state(b) THEN Cardinality(b) ELSE pattern_groups(b)
           anchor == Max({widest(b, share(b)) : b \in ToSet(bs)})
           states_per_block(b) == Max({anchor \div first(b).page, 1})
           num_groups(b) == IF is_state(b)
                            THEN Max({pattern_groups(b),
                                      Cdiv(Cardinality(b), states_per_block(b))})
                            ELSE pattern_groups(b)
           lists == [k \in DOMAIN bs |-> PackedOf(specs, bs[k], num_groups(bs[k]))]
<1>1. PackedGroups(specs, fine) = FlattenSeq(lists)
  BY DEF PackedGroups, PackedOf, Dealt
<1>2. /\ BucketsOver(bs, DOMAIN specs) /\ Len(bs) \in Nat \ {0} /\ DOMAIN bs = 1 .. Len(bs)
      /\ \A a \in 1 .. Len(bs) :
           /\ bs[a] \in SUBSET Nat \ {0} /\ bs[a] \subseteq DOMAIN specs
           /\ IsFiniteSet(bs[a]) /\ Cardinality(bs[a]) \in Nat \ {0}
           /\ \A i \in bs[a] : specs[i] \in LayerSpecs
           /\ \A i, j \in bs[a] : Same(specs[i], specs[j])
  BY BucketLayers
<1> HIDE DEF bs
<1>3. ASSUME NEW a \in 1 .. Len(bs)
      PROVE  /\ bs[a] # {} /\ \A i \in bs[a] : specs[i].page \in Nat \ {0}
  BY <1>2, FS_EmptySet, SpecFacts
<1>4. repeats \in Nat
  <2>1. ASSUME NEW a \in 1 .. Len(bs)
        PROVE  /\ Counts(specs, bs[a]) \in SUBSET Nat \ {0}
               /\ Max(Counts(specs, bs[a])) \in Nat \ {0}
               /\ \A c \in Counts(specs, bs[a]) : c <= Max(Counts(specs, bs[a]))
               /\ IsFiniteSet(Counts(specs, bs[a])) /\ Counts(specs, bs[a]) # {}
    BY <1>2, <1>3, CountFacts
  <2> QED BY <1>2, <2>1, RepeatsIn
<1> HIDE DEF repeats
<1>5. ASSUME NEW a \in 1 .. Len(bs)
      PROVE  pattern_groups(bs[a]) \in Nat \ {0} /\ share(bs[a]) \in Nat \ {0}
  <2>1. Max(Counts(specs, bs[a])) \in Nat \ {0}
    BY <1>2, <1>3, CountFacts
  <2>2. repeats # 0 => Cdiv(Max(Counts(specs, bs[a])), repeats) \in Nat \ {0}
    BY <1>4, <2>1, CdivFacts
  <2> QED BY <1>2, <2>2
<1> HIDE DEF pattern_groups, is_state
<1>6. ASSUME NEW a \in 1 .. Len(bs)
      PROVE  widest(bs[a], share(bs[a])) \in Nat
  <2>1. /\ PagesOf(specs, bs[a]) \in SUBSET Nat \ {0} /\ IsFiniteSet(PagesOf(specs, bs[a]))
        /\ \A p \in PagesOf(specs, bs[a]) : Cardinality(OfPage(specs, bs[a], p)) \in Nat
    BY <1>2, <1>3, CountFacts
  <2>2. share(bs[a]) \in Nat \ {0}
    BY <1>5
  <2> HIDE DEF share
  <2> QED BY <2>1, <2>2, WidestNat
<1> HIDE DEF share, widest
<1>7. anchor \in Nat
  <2> DEFINE width == [a \in 1 .. Len(bs) |-> widest(bs[a], share(bs[a]))]
             W == {widest(b, share(b)) : b \in ToSet(bs)}
  <2>1. ToSet(bs) = {bs[a] : a \in 1 .. Len(bs)}
    BY <1>2 DEF ToSet
  <2>2. W = {width[a] : a \in 1 .. Len(bs)}
    BY <2>1
  <2>3. \A a \in 1 .. Len(bs) : width[a] \in Nat
    BY <1>6
  <2>4. IsFiniteSet(1 .. Len(bs)) /\ 1 \in 1 .. Len(bs)
    BY <1>2, FS_Interval
  <2> HIDE DEF W, width
  <2>5. W \in SUBSET Nat /\ IsFiniteSet(W) /\ W # {}
    BY <2>2, <2>3, <2>4, ValuesFinite
  <2>6. Max(W) \in Nat
    BY <2>5, LargestIn
  <2> QED BY <2>6 DEF W
<1> HIDE DEF anchor
<1>8. ASSUME NEW a \in 1 .. Len(bs)
      PROVE  num_groups(bs[a]) \in Nat \ {0}
  <2> DEFINE b == bs[a]
             page == specs[Min(b)].page
             pattern == pattern_groups(b)
             states == Cdiv(Cardinality(b), states_per_block(b))
  <2>1. page \in Nat \ {0}
    <3>1. b \in SUBSET Nat
      BY <1>2
    <3> QED BY <1>3, <3>1, LeastIn
  <2>2. anchor \div page \in Nat
    <3> HIDE DEF page
    <3> QED BY <1>7, <2>1, DivFacts
  <2>3. states_per_block(b) \in Nat \ {0}
    <3> DEFINE x == anchor \div page
               m == Max({x, 1})
    <3>1. x \in Nat
      BY <2>2
    <3> HIDE DEF x
    <3>2. m \in Nat /\ 1 <= m
      BY <3>1, MaxTwo
    <3>3. states_per_block(b) = m
      BY DEF x
    <3> HIDE DEF m, states_per_block
    <3> QED BY <3>2, <3>3
  <2> HIDE DEF states_per_block
  <2>4. states \in Nat
    BY <1>2, <2>3, CdivFacts
  <2>5. pattern \in Nat \ {0}
    BY <1>5
  <2> HIDE DEF states, pattern
  <2>6. Max({pattern, states}) \in Nat /\ pattern <= Max({pattern, states})
    BY <2>4, <2>5, MaxTwo
  <2>7. num_groups(b) = IF is_state(b) THEN Max({pattern, states}) ELSE pattern
    BY DEF pattern, states
  <2> HIDE DEF num_groups
  <2> QED BY <2>5, <2>6, <2>7
<1> HIDE DEF num_groups
<1>9. ASSUME NEW a \in 1 .. Len(bs)
      PROVE  GroupList(lists[a], bs[a])
  <2>1. lists[a] = PackedOf(specs, bs[a], num_groups(bs[a]))
    BY <1>2
  <2>2. GroupList(PackedOf(specs, bs[a], num_groups(bs[a])), bs[a])
    BY <1>2, <1>3, <1>8, PackedBucket
  <2> QED BY <2>1, <2>2
<1>10. lists = [a \in 1 .. Len(bs) |-> lists[a]]
  BY <1>2
<1> HIDE DEF lists
<1> QED BY <1>1, <1>2, <1>9, <1>10, BucketGroups

-----------------------------------------------------------------------------
(* get_kv_cache_groups, case by case.                                      *)
Groups(all, A) == Listed(all) /\ GroupsOver(all, A)

LEMMA JoinLists ==
  ASSUME NEW x, NEW y, NEW A, NEW B, NEW C,
         Groups(x, A), Groups(y, B), A \cap B = {}, A \cup B \subseteq C
  PROVE  Groups(x \o y, C)
<1>1. PICK T : x \in Seq(T)
  BY DEF Groups, Listed
<1>2. PICK U : y \in Seq(U)
  BY DEF Groups, Listed
<1> DEFINE V == T \cup U
<1>3. x \in Seq(V) /\ y \in Seq(V)
  <2>1. ToSet(x) \subseteq V /\ ToSet(y) \subseteq V
    BY <1>1, <1>2, ListFacts
  <2> HIDE DEF V
  <2> QED BY <1>1, <1>2, <2>1, SeqIn
<1> HIDE DEF V
<1>4. x \o y \in Seq(V)
  BY <1>3
<1>5. GroupsOver(x \o y, C)
  BY <1>3, JoinGroups DEF Groups
<1> QED BY <1>4, <1>5 DEF Groups, Listed

(* One group of some layers.                                               *)
LEMMA OneGroup ==
  ASSUME NEW g, NEW A, Sound(g, A)
  PROVE  Groups(<<g>>, A)
<1> DEFINE list == <<g>>
<1>1. list = [i \in 1 .. 1 |-> list[i]] /\ \A i \in 1 .. 1 : list[i] = g
  OBVIOUS
<1> HIDE DEF list
<1>2. \A i, j \in 1 .. 1 : Common(list[i], list[j]) => i = j
  OBVIOUS
<1> QED BY <1>1, <1>2, MadeGroups DEF Groups, list

LEMMA NoGroup ==
  ASSUME NEW A
  PROVE  Groups(<<>>, A) /\ Groups(Raise, A)
<1>1. Groups(<<>>, A)
  <2> DEFINE list == <<>>
  <2>1. list = [i \in 1 .. 0 |-> list[i]] /\ 1 .. 0 = {} /\ 0 \in Nat
    OBVIOUS
  <2> HIDE DEF list
  <2> QED BY <2>1, MadeGroups DEF Groups, list
<1>2. <<>> \in Seq(A) /\ IsInjective(<<>>) /\ ToSet(<<>>) = {}
  BY DEF IsInjective, ToSet
<1>3. Sound(UniformGroup(<<>>, <<>>), A)
  BY <1>2, UniformSound
<1> QED BY <1>1, <1>3, OneGroup DEF Raise

(* All layers as one group, of one spec or of one type.                    *)
LEMMA AllLayers ==
  ASSUME NEW specs, Layered(specs)
  PROVE  /\ UniformType(specs) =>
              Groups(<<UniformGroup(specs, Ordered(DOMAIN specs))>>, DOMAIN specs)
         /\ Groups(<<MergedGroup(specs, Ordered(DOMAIN specs))>>, DOMAIN specs)
<1> DEFINE D == DOMAIN specs
           o == Ordered(D)
<1>1. /\ D \in SUBSET Nat \ {0} /\ IsFiniteSet(D)
      /\ \A i \in D : specs[i] \in LayerSpecs
      /\ UniformType(specs) => \A i, j \in D : Same(specs[i], specs[j])
  BY DEF Layered, UniformType, Same
<1> HIDE DEF D
<1>2. o \in Seq(Nat) /\ ToSet(o) = D /\ IsInjective(o)
  BY <1>1, OrderedAll
<1>3. o \in Seq(D)
  BY <1>2, SeqIn
<1> HIDE DEF o
<1>4. UniformType(specs) => Sound(UniformGroup(specs, o), D)
  BY <1>1, <1>2, <1>3, UniformSound
<1>5. Sound(MergedGroup(specs, o), D)
  BY <1>1, <1>2, <1>3, MergedSound
<1> QED BY <1>4, <1>5, OneGroup DEF o, D

(* A group for each of some layers.                                        *)
LEMMA AloneGroups ==
  ASSUME NEW S \in SUBSET Nat \ {0}, IsFiniteSet(S), NEW list,
         list = [k \in 1 .. Cardinality(S) |-> list[k]],
         \A k \in 1 .. Cardinality(S) :
           Ordered(S)[k] \in S =>
             Sound(list[k], S) /\ list[k].layers = <<Ordered(S)[k]>>
  PROVE  Groups(list, S)
<1> DEFINE n == Cardinality(S)
           o == Ordered(S)
<1>1. n \in Nat /\ o \in Seq(Nat) /\ ToSet(o) = S /\ IsInjective(o) /\ Len(o) = n
  BY OrderedAll, FS_CardinalityType
<1>2. \A k \in 1 .. n : o[k] \in S => Sound(list[k], S) /\ list[k].layers = <<o[k]>>
  OBVIOUS
<1>3. list = [k \in 1 .. n |-> list[k]]
  OBVIOUS
<1> HIDE DEF n, o
<1>4. /\ \A k \in 1 .. n : o[k] \in S
      /\ \A k, l \in 1 .. n : o[k] = o[l] => k = l
  BY <1>1, ListPlaces
<1>5. \A x : ToSet(<<x>>) = {x}
  BY DEF ToSet
<1>6. ASSUME NEW k \in 1 .. n, NEW l \in 1 .. n, Common(list[k], list[l])
      PROVE  k = l
  <2>1. list[k].layers = <<o[k]>> /\ list[l].layers = <<o[l]>>
    BY <1>2, <1>4
  <2>2. {o[k]} \cap {o[l]} # {}
    BY <1>5, <1>6, <2>1 DEF Common
  <2> QED BY <2>2, <1>4
<1>7. \A k \in 1 .. n : Sound(list[k], S)
  BY <1>2, <1>4
<1> QED BY <1>1, <1>3, <1>6, <1>7, MadeGroups DEF Groups

LEMMA AloneMerged ==
  ASSUME NEW specs, NEW S, NEW i \in S, specs[i] \in LayerSpecs
  PROVE  /\ Sound(MergedGroup(specs, <<i>>), S)
         /\ MergedGroup(specs, <<i>>).layers = <<i>>
<1>1. <<i>> \in Seq(S) /\ IsInjective(<<i>>) /\ ToSet(<<i>>) = {i}
  BY DEF IsInjective, ToSet
<1> QED BY <1>1, MergedSound

(* Layers whose tokens have bytes where the grouping divides by them.      *)
Paged(specs) ==
  /\ Layered(specs)
  /\ \A i \in DOMAIN specs :
       IsWindow(specs[i]) \/ specs[i].kind = "hidden" => specs[i].block <= specs[i].page

LEMMA DivOne ==
  ASSUME NEW a \in Nat, NEW b \in Nat \ {0}, b <= a
  PROVE  a \div b \in Nat \ {0}
<1>1. a \div b \in Nat /\ a % b \in 0 .. b - 1 /\ a = b * (a \div b) + (a % b)
  BY DivFacts
<1>2. a \div b = 0 => b * (a \div b) = 0
  OBVIOUS
<1> QED BY <1>1, <1>2

LEMMA ModelLayers ==
  ASSUME NEW specs, ModelOK(specs)
  PROVE  Paged(specs)
<1>1. /\ Len(specs) \in Nat /\ DOMAIN specs = 1 .. Len(specs)
      /\ \A i \in 1 .. Len(specs) : specs[i] \in LayerSpecs
  BY DEF ModelOK
<1>2. IsFiniteSet(1 .. Len(specs)) /\ 1 .. Len(specs) \in SUBSET Nat \ {0}
  <2> DEFINE n == Len(specs)
  <2>1. n \in Nat /\ n \in Int /\ 1 \in Int
    BY <1>1
  <2> HIDE DEF n
  <2>2. IsFiniteSet(1 .. n)
    BY <2>1, FS_Interval
  <2>3. 1 .. n \in SUBSET Nat \ {0}
    BY <2>1
  <2> QED BY <2>2, <2>3 DEF n
<1>3. \A i \in DOMAIN specs :
        IsWindow(specs[i]) \/ specs[i].kind = "hidden" => specs[i].block <= specs[i].page
  BY DEF ModelOK
<1> QED BY <1>1, <1>2, <1>3 DEF Paged, Layered

(* Without the hybrid manager: blocks and pages stay positive.             *)
LEMMA PromotedLayers ==
  ASSUME NEW specs, Paged(specs)
  PROVE  /\ Paged(Promoted(specs)) /\ DOMAIN Promoted(specs) = DOMAIN specs
         /\ \A i \in DOMAIN specs : Promoted(specs)[i].kind = "hidden" <=> specs[i].kind = "hidden"
<1> DEFINE F == {j \in DOMAIN specs : IsFull(specs[j])}
           blocks == {specs[i].block : i \in F}
           block_of(s) == IF Cardinality(blocks) = 1 THEN Max(blocks) ELSE s.block
           kept(s) == IF s.kind = "window" THEN "full" ELSE "mla"
           promote(s) == [s EXCEPT !.kind = kept(s), !.block = block_of(s),
                                   !.page = (@ * block_of(s)) \div s.block]
           p == [i \in DOMAIN specs |->
                   IF IsWindow(specs[i]) THEN promote(specs[i]) ELSE specs[i]]
<1>2. /\ DOMAIN specs \in SUBSET Nat \ {0} /\ IsFiniteSet(DOMAIN specs)
      /\ \A i \in DOMAIN specs : specs[i] \in LayerSpecs
      /\ \A i \in DOMAIN specs :
           IsWindow(specs[i]) \/ specs[i].kind = "hidden" => specs[i].block <= specs[i].page
  BY DEF Paged, Layered
<1>3. Promoted(specs) = specs \/ Promoted(specs) = p
  BY DEF Promoted
<1>4. \A i \in DOMAIN specs : /\ specs[i].block \in Nat \ {0} /\ specs[i].page \in Nat \ {0}
                              /\ specs[i].kind \in Kinds /\ specs[i].window \in Nat
  BY <1>2, SpecFacts
<1>5. Cardinality(blocks) = 1 => Max(blocks) \in Nat \ {0}
  <2> DEFINE f == [i \in F |-> specs[i].block]
  <2>1. blocks = {f[i] : i \in F} /\ \A i \in F : f[i] \in Nat \ {0}
    BY <1>4
  <2> HIDE DEF f
  <2>2. F \in SUBSET DOMAIN specs
    OBVIOUS
  <2> HIDE DEF F, blocks
  <2>3. IsFiniteSet(F)
    BY <1>2, <2>2, FS_Subset
  <2>4. IsFiniteSet(blocks) /\ blocks \in SUBSET Nat /\ \A x \in blocks : x \in Nat \ {0}
    BY <2>1, <2>3, ValuesFinite
  <2>5. Cardinality(blocks) = 1 => blocks # {}
    BY FS_EmptySet
  <2> QED BY <2>4, <2>5, LargestIn
<1> HIDE DEF blocks
<1>6. ASSUME NEW i \in DOMAIN specs
      PROVE  block_of(specs[i]) \in Nat \ {0}
  BY <1>4, <1>5
<1> HIDE DEF block_of
<1>7. ASSUME NEW i \in DOMAIN specs, IsWindow(specs[i])
      PROVE  promote(specs[i]) \in LayerSpecs /\ IsFull(promote(specs[i]))
  <2> DEFINE s == specs[i]
             a == s.page
             c == s.block
             b == block_of(s)
             q == (a * b) \div c
  <2>1. /\ a \in Nat \ {0} /\ c \in Nat \ {0} /\ b \in Nat \ {0} /\ c <= a
        /\ s.window \in Nat /\ s \in LayerSpecs
    BY <1>2, <1>4, <1>6, <1>7
  <2>2. promote(s) = [s EXCEPT !.kind = kept(s), !.block = b, !.page = q]
    OBVIOUS
  <2> HIDE DEF s, a, b, c, promote
  <2>3. q \in Nat \ {0}
    <3> DEFINE m == a * b
    <3>1. m \in Nat /\ c <= m
      <4>1. a * 1 <= a * b /\ a * b \in Nat /\ a * 1 = a
        BY <2>1, Times
      <4> QED BY <4>1, <2>1
    <3> HIDE DEF m
    <3>2. /\ m \div c \in Nat /\ m % c \in 0 .. c - 1
          /\ m = c * (m \div c) + (m % c)
      BY <2>1, <3>1, DivFacts
    <3>3. m \div c = 0 => c * (m \div c) = 0
      BY <2>1
    <3>4. m \div c # 0
      BY <2>1, <3>1, <3>2, <3>3
    <3> QED BY <3>2, <3>4 DEF m
  <2> HIDE DEF q
  <2> DEFINE full == kept(s)
             t == [s EXCEPT !.kind = full, !.block = b, !.page = q]
  <2>4. promote(s) = t
    BY <2>2
  <2>5. full \in Kinds
    BY DEF Kinds
  <2>7. full \notin {"window", "window_mla"} /\ full \in {"full", "mla"}
    OBVIOUS
  <2> HIDE DEF full
  <2>8. s \in LayerSpecs /\ b \in Nat \ {0}
    BY <2>1
  <2>9. t \in LayerSpecs
    BY <2>3, <2>5, <2>7, <2>8, SpecWith
  <2>10. t.kind = full
    BY <2>8 DEF LayerSpecs
  <2>6. t \in LayerSpecs /\ t.kind = full
    BY <2>9, <2>10
  <2> HIDE DEF t
  <2> QED BY <2>4, <2>6, <2>7 DEF s, IsFull
<1> HIDE DEF promote
<1>8. ASSUME NEW i \in DOMAIN specs
      PROVE  /\ p[i] \in LayerSpecs /\ (p[i].kind = "hidden" <=> specs[i].kind = "hidden")
             /\ IsWindow(p[i]) \/ p[i].kind = "hidden" => p[i].block <= p[i].page
  <2>1. CASE IsWindow(specs[i])
    <3>1. p[i] = promote(specs[i])
      BY <2>1
    <3> QED BY <2>1, <3>1, <1>7 DEF IsFull, IsWindow
  <2>2. CASE ~IsWindow(specs[i])
    <3>1. p[i] = specs[i]
      BY <2>2
    <3> QED BY <2>2, <3>1, <1>2
  <2> QED BY <2>1, <2>2
<1>9. DOMAIN p = DOMAIN specs
  OBVIOUS
<1> HIDE DEF p
<1>10. Paged(p)
  BY <1>2, <1>8, <1>9 DEF Paged, Layered
<1> QED BY <1>3, <1>8, <1>9, <1>10

(* Pages made equal: blocks and pages stay positive.                       *)
LEMMA UnifiedLayers ==
  ASSUME NEW specs, Layered(specs), DOMAIN specs # {}
  PROVE  Layered(UnifyPageSize(specs)) /\ DOMAIN UnifyPageSize(specs) = DOMAIN specs
<1> DEFINE D == DOMAIN specs
           page == [i \in D |-> specs[i].page]
           P == PageSizes(specs)
           top == Max(P)
           new(s) == IF s.kind # "mamba" /\ top % s.page = 0
                     THEN [s EXCEPT !.page = top, !.block = @ * (top \div s.page)]
                     ELSE [s EXCEPT !.page = top]
           u == UnifyPageSize(specs)
<1>1. /\ D \in SUBSET Nat \ {0} /\ IsFiniteSet(D) /\ D # {}
      /\ \A i \in D : specs[i] \in LayerSpecs /\ specs[i].page \in Nat \ {0}
  BY SpecFacts DEF Layered
<1>2. P = {page[i] : i \in D} /\ \A i \in D : page[i] = specs[i].page
  BY DEF PageSizes
<1>3. u = [i \in D |-> new(specs[i])]
  BY DEF UnifyPageSize
<1> HIDE DEF D, P, page, u
<1>4. top \in Nat \ {0} /\ \A i \in D : specs[i].page <= top
  <2>1. P \in SUBSET Nat /\ (\A x \in P : x \in Nat \ {0}) /\ P # {}
    BY <1>1, <1>2
  <2>2. \A i \in D : specs[i].page \in P
    BY <1>2
  <2>3. IsFiniteSet({page[i] : i \in D})
    BY <1>1, ValuesFinite
  <2>4. IsFiniteSet(P)
    BY <1>2, <2>3
  <2> QED BY <2>1, <2>2, <2>4, LargestIn
<1> HIDE DEF top
<1>5. ASSUME NEW s \in LayerSpecs, s.page <= top
      PROVE  new(s) \in LayerSpecs
  <2>1. s.page \in Nat \ {0} /\ s.block \in Nat \ {0} /\ s.kind \in Kinds
    BY SpecFacts
  <2> DEFINE k == s.page
             q == top \div k
             b == s.block * q
  <2>2. q \in Nat \ {0}
    <3>1. k \in Nat \ {0} /\ k <= top
      BY <2>1, <1>5
    <3> HIDE DEF k
    <3> QED BY <1>4, <3>1, DivOne
  <2> HIDE DEF q
  <2>3. b \in Nat \ {0}
    <3>1. s.block * 1 <= s.block * q /\ s.block * q \in Nat /\ s.block * 1 = s.block
      BY <2>1, <2>2, Times
    <3> QED BY <2>1, <3>1
  <2>4. \/ new(s) = [s EXCEPT !.page = top, !.block = b]
        \/ new(s) = [s EXCEPT !.page = top]
    BY DEF q
  <2> HIDE DEF b, new
  <2>5. /\ [s EXCEPT !.page = top, !.block = b] \in LayerSpecs
        /\ [s EXCEPT !.page = top] \in LayerSpecs
    BY <1>4, <2>1, <2>3, SpecWith
  <2> QED BY <2>4, <2>5
<1> HIDE DEF new
<1>6. DOMAIN u = D /\ \A i \in D : u[i] \in LayerSpecs
  BY <1>1, <1>3, <1>4, <1>5
<1> QED BY <1>1, <1>6 DEF Layered, D, u

(* The first layer of a group that has one.                                *)
LEMMA FirstLayer ==
  ASSUME NEW A, NEW g, Sound(g, A), Len(g.layers) # 0
  PROVE  g.spec[g.layers[1]] \in LayerSpecs /\ g.layers[1] \in ToSet(g.layers)
<1>1. g.layers \in Seq(A) /\ Len(g.layers) \in Nat
  BY DEF Sound
<1>2. 1 \in 1 .. Len(g.layers)
  BY <1>1
<1>3. g.layers[1] \in ToSet(g.layers)
  BY <1>1, <1>2, ListPlaces
<1> QED BY <1>3 DEF Sound

(* A hidden-state layer: the divisor that is its block is positive.        *)
LEMMA AlignedSound ==
  ASSUME NEW specs, NEW S, NEW i \in S, i \in DOMAIN specs, specs[i] \in LayerSpecs,
         specs[i].block <= specs[i].page,
         NEW made, NEW A, GroupList(made, A), Full(made)
  PROVE  /\ Sound(AlignedHidden(specs, i, made), S)
         /\ AlignedHidden(specs, i, made).layers = <<i>>
<1> DEFINE common == made[1].spec[made[1].layers[1]].page
           per_token == specs[i].page \div specs[i].block
           size_of == [k \in 1 .. Len(made) |-> made[k].spec[made[k].layers[1]].block]
           sizes == {g.spec[g.layers[1]].block : g \in ToSet(made)}
           divides(d) == \A size \in sizes : size % d = 0
           limit == Max({common \div per_token, 1})
           top == Smaller(Min(sizes), limit)
           candidates == {d \in 1 .. top : divides(d)}
           block == Max(candidates)
           aligned == [specs[i] EXCEPT !.block = block, !.page = common]
           new == [specs EXCEPT ![i] = aligned]
<1>1. AlignedHidden(specs, i, made) = MergedGroup(new, <<i>>)
  BY DEF AlignedHidden
<1>2. /\ Len(made) \in Nat \ {0} /\ Listed(made)
      /\ \A k \in 1 .. Len(made) : made[k].spec[made[k].layers[1]] \in LayerSpecs
  <2>1. /\ Len(made) \in Nat \ {0} /\ Listed(made)
        /\ \A k \in 1 .. Len(made) : Sound(made[k], A) /\ Len(made[k].layers) # 0
    BY DEF GroupList, GroupsOver, Full
  <2> QED BY <2>1, FirstLayer
<1>3. common \in Nat \ {0}
  <2>1. made[1].spec[made[1].layers[1]] \in LayerSpecs
    BY <1>2
  <2> QED BY <2>1, SpecFacts
<1>4. sizes \in SUBSET Nat /\ sizes # {} /\ \A x \in sizes : x \in Nat \ {0}
  <2>1. ToSet(made) = {made[k] : k \in 1 .. Len(made)}
    BY <1>2, ListFacts DEF Listed
  <2>2. sizes = {made[k].spec[made[k].layers[1]].block : k \in 1 .. Len(made)}
    BY <2>1
  <2>3. \A k \in 1 .. Len(made) : made[k].spec[made[k].layers[1]].block \in Nat \ {0}
    BY <1>2, SpecFacts
  <2>4. 1 \in 1 .. Len(made)
    BY <1>2
  <2> HIDE DEF sizes
  <2>5. \A x \in sizes : x \in Nat \ {0}
    BY <2>2, <2>3
  <2>6. sizes # {}
    BY <2>2, <2>4
  <2> QED BY <2>5, <2>6
<1>5. per_token \in Nat \ {0}
  <2> DEFINE a == specs[i].page
             c == specs[i].block
  <2>1. a \in Nat \ {0} /\ c \in Nat \ {0} /\ c <= a
    BY SpecFacts
  <2> HIDE DEF a, c
  <2>2. a \div c \in Nat \ {0}
    BY <2>1, DivOne
  <2> QED BY <2>2 DEF a, c
<1> HIDE DEF common, per_token, sizes
<1>6. common \div per_token \in Nat
  BY <1>3, <1>5, DivFacts
<1>7. limit \in Nat \ {0}
  BY <1>6, MaxTwo
<1> HIDE DEF limit
<1>8. Min(sizes) \in Nat \ {0}
  BY <1>4, LeastIn
<1>9. top \in Nat \ {0}
  BY <1>7, <1>8 DEF Smaller
<1> HIDE DEF top
<1>10. block \in Nat \ {0}
  <2>1. \A x \in Nat : x % 1 = 0
    OBVIOUS
  <2>2. 1 \in candidates /\ candidates \subseteq 1 .. top
    BY <1>4, <1>9, <2>1
  <2> HIDE DEF candidates
  <2>3. IsFiniteSet(1 .. top) /\ \A x \in 1 .. top : x \in Nat \ {0}
    <3>1. 1 \in Int /\ top \in Int
      BY <1>9
    <3> QED BY <1>9, <3>1, FS_Interval
  <2>4. IsFiniteSet(candidates) /\ candidates \in SUBSET Nat
    BY <2>2, <2>3, FS_Subset
  <2>5. Max(candidates) \in candidates
    BY <2>2, <2>4, LargestIn
  <2> QED BY <2>2, <2>3, <2>5
<1> HIDE DEF block
<1>11. aligned \in LayerSpecs
  BY <1>3, <1>10, SpecFacts, SpecWith
<1> HIDE DEF aligned
<1>12. new[i] = aligned
  OBVIOUS
<1> HIDE DEF new
<1> QED BY <1>1, <1>11, <1>12, AloneMerged

(* Whatever branch is taken, the groups are of the layers registered.      *)
LEMMA GroupsFound ==
  ASSUME NEW registered, ModelOK(registered),
         NEW hybrid_off \in BOOLEAN, NEW outermost \in BOOLEAN, NEW fine \in BOOLEAN
  PROVE  Groups(KvCacheGroups(registered, hybrid_off, outermost, fine), DOMAIN registered)
<1> DEFINE specs == IF hybrid_off THEN Promoted(registered) ELSE registered
           D == DOMAIN specs
           hidden == {i \in D : specs[i].kind = "hidden"}
           attn == Restrict(specs, D \ hidden)
           merged == [k \in 1 .. Cardinality(hidden) |-> MergedGroup(specs, <<Ordered(hidden)[k]>>)]
           packed == PackedGroups(attn, fine) \o merged
           uniform == UniformPageSizeGroups(UnifyPageSize(attn))
           aligned == [k \in 1 .. Cardinality(hidden) |->
                         AlignedHidden(specs, Ordered(hidden)[k], uniform)]
           found == KvCacheGroups(registered, hybrid_off, outermost, fine)
<1>1. /\ Layered(specs) /\ D = DOMAIN registered /\ Paged(specs)
      /\ (\E i \in D : specs[i].kind = "hidden") => \E i \in D : specs[i].kind # "hidden"
  <2>1. Paged(registered)
    BY ModelLayers
  <2>2. /\ (\E i \in DOMAIN registered : registered[i].kind = "hidden")
             => \E i \in DOMAIN registered : registered[i].kind # "hidden"
    BY DEF ModelOK
  <2> QED BY <2>1, <2>2, PromotedLayers DEF Paged
<1> DEFINE one == <<MergedGroup(specs, Ordered(D))>>
           each == <<UniformGroup(specs, Ordered(D))>>
           uniform_type == UniformType(specs)
           joined == uniform \o aligned
           fallback == FallbackGroups(specs)
           several == Cardinality(PageSizes(attn)) > 1
<1>2. found = CASE hybrid_off /\ ~Unified(specs) -> Raise
                [] D = {} -> <<>>
                [] D # {} /\ Mergeable(specs) -> one
                [] ~Mergeable(specs) /\ uniform_type -> each
                [] ~Unified(specs) /\ outermost /\ several -> packed
                [] OTHER -> IF ~Unifiable(attn) THEN fallback ELSE joined
  BY DEF KvCacheGroups
<1>3. \/ found = Raise \/ found = <<>> \/ found = one \/ found = fallback
      \/ found = each /\ uniform_type
      \/ found = packed /\ several
      \/ found = joined /\ D # {}
  <2> HIDE DEF specs, D, hidden, attn, merged, packed, uniform, aligned, found, one, each,
               joined, fallback, several, uniform_type
  <2> QED BY <1>2
<1> HIDE DEF specs, found
<1>4. /\ D \in SUBSET Nat \ {0} /\ IsFiniteSet(D)
      /\ \A i \in D : specs[i] \in LayerSpecs
  BY <1>1 DEF Layered
<1> HIDE DEF D
<1>5. /\ hidden \in SUBSET Nat \ {0} /\ IsFiniteSet(hidden) /\ hidden \in SUBSET D
      /\ \A i \in hidden : specs[i] \in LayerSpecs /\ specs[i].block <= specs[i].page
  <2>1. hidden \in SUBSET D
    OBVIOUS
  <2>2. \A i \in hidden : specs[i].block <= specs[i].page
    BY <1>1 DEF Paged, D
  <2> HIDE DEF hidden
  <2> QED BY <1>4, <2>1, <2>2, FS_Subset
<1>6. /\ DOMAIN attn = D \ hidden /\ Layered(attn)
      /\ DOMAIN attn \cap hidden = {} /\ DOMAIN attn \cup hidden = D
      /\ D # {} => DOMAIN attn # {}
  <2>1. D # {} => D \ hidden # {}
    BY <1>1 DEF D
  <2> HIDE DEF hidden
  <2>2. DOMAIN attn = D \ hidden /\ \A i \in D \ hidden : attn[i] = specs[i]
    BY DEF Restrict
  <2> HIDE DEF attn
  <2>3. IsFiniteSet(D \ hidden)
    BY <1>4, FS_Subset
  <2> QED BY <1>4, <1>5, <2>1, <2>2, <2>3 DEF Layered
<1> HIDE DEF hidden, attn
<1>7. Groups(one, D) /\ (uniform_type => Groups(each, D))
  BY <1>1, AllLayers DEF D
<1>8. Groups(fallback, D)
  <2>1. \/ fallback = Raise
        \/ /\ fallback = <<UniformGroup(Promoted(specs), Ordered(D))>>
           /\ UniformType(Promoted(specs))
    BY DEF FallbackGroups, D
  <2>2. Layered(Promoted(specs)) /\ DOMAIN Promoted(specs) = D
    BY <1>1, PromotedLayers DEF D, Paged
  <2>3. UniformType(Promoted(specs))
          => Groups(<<UniformGroup(Promoted(specs), Ordered(D))>>, D)
    BY <2>2, AllLayers
  <2> HIDE DEF fallback
  <2> QED BY <2>1, <2>3, NoGroup
<1>9. Groups(merged, hidden)
  <2>1. ASSUME NEW k \in 1 .. Cardinality(hidden), Ordered(hidden)[k] \in hidden
        PROVE  /\ Sound(merged[k], hidden) /\ merged[k].layers = <<Ordered(hidden)[k]>>
    BY <1>5, <2>1, AloneMerged
  <2>2. merged = [k \in 1 .. Cardinality(hidden) |-> merged[k]]
    OBVIOUS
  <2> HIDE DEF merged
  <2> QED BY <1>5, <2>1, <2>2, AloneGroups
<1>10. ASSUME several
       PROVE  Groups(packed, D)
  <2>1. DOMAIN attn # {}
    <3>1. PageSizes(attn) # {}
      <4>1. Cardinality({}) = 0
        BY FS_EmptySet
      <4> QED BY <1>10, <4>1
    <3> QED BY <3>1 DEF PageSizes
  <2>2. GroupList(PackedGroups(attn, fine), DOMAIN attn)
    BY <1>6, <2>1, PackedList
  <2>3. Groups(PackedGroups(attn, fine), DOMAIN attn)
    BY <2>2 DEF GroupList, Groups
  <2> HIDE DEF merged
  <2> QED BY <1>6, <1>9, <2>3, JoinLists
<1>11. ASSUME D # {}
       PROVE  Groups(joined, D)
  <2>1. Layered(UnifyPageSize(attn)) /\ DOMAIN UnifyPageSize(attn) = DOMAIN attn
    BY <1>6, <1>11, UnifiedLayers
  <2>2. GroupList(uniform, DOMAIN attn) /\ Full(uniform)
    BY <1>6, <1>11, <2>1, UniformPageGroups
  <2>3. Groups(uniform, DOMAIN attn)
    BY <2>2 DEF GroupList, Groups
  <2> HIDE DEF uniform
  <2>5. ASSUME NEW k \in 1 .. Cardinality(hidden), Ordered(hidden)[k] \in hidden
        PROVE  /\ Sound(aligned[k], hidden) /\ aligned[k].layers = <<Ordered(hidden)[k]>>
    <3> DEFINE i == Ordered(hidden)[k]
    <3>1. aligned[k] = AlignedHidden(specs, i, uniform)
      OBVIOUS
    <3>2. /\ i \in hidden /\ i \in DOMAIN specs /\ specs[i] \in LayerSpecs
          /\ specs[i].block <= specs[i].page
      BY <1>5, <2>5 DEF D
    <3> HIDE DEF i, aligned
    <3>3. /\ Sound(AlignedHidden(specs, i, uniform), hidden)
          /\ AlignedHidden(specs, i, uniform).layers = <<i>>
      BY <2>2, <3>2, AlignedSound
    <3> QED BY <3>1, <3>3 DEF i
  <2>6. aligned = [k \in 1 .. Cardinality(hidden) |-> aligned[k]]
    OBVIOUS
  <2> HIDE DEF aligned
  <2>7. Groups(aligned, hidden)
    BY <1>5, <2>5, <2>6, AloneGroups
  <2> QED BY <1>6, <2>3, <2>7, JoinLists
<1>12. Groups(found, D)
  <2> HIDE DEF one, each, fallback, packed, joined, several, uniform_type
  <2> QED BY <1>3, <1>7, <1>8, <1>10, <1>11, NoGroup
<1> QED BY <1>1, <1>12 DEF found, D

(* The grouping of any model, with the hybrid manager or without, in any   *)
(* layout, fine grained or not (get_kv_cache_groups): no layer is in two   *)
(* groups or twice in one, and each has a spec whose page has bytes.       *)
THEOREM GroupsOfModel ==
  ASSUME NEW x, ModelOK(x.specs), x.hybrid_off \in BOOLEAN, x.layout.outermost \in BOOLEAN,
         x.fine \in BOOLEAN,
         AllGroups(x) = KvCacheGroups(x.specs, x.hybrid_off, x.layout.outermost, x.fine)
  PROVE  GroupsDisjoint(x)
<1> DEFINE all == AllGroups(x)
           A == DOMAIN x.specs
<1>1. GroupsOver(all, A)
  BY GroupsFound DEF Groups
<1> HIDE DEF all, A
<1>2. /\ Len(all) \in Nat /\ DOMAIN all = 1 .. Len(all)
      /\ \A k \in 1 .. Len(all) :
           /\ all[k].layers \in Seq(A) /\ IsInjective(all[k].layers)
           /\ DOMAIN all[k].spec = ToSet(all[k].layers)
           /\ \A i \in ToSet(all[k].layers) : all[k].spec[i].page \in Nat \ {0}
      /\ \A k, l \in 1 .. Len(all) : Common(all[k], all[l]) => k = l
  BY <1>1, SpecFacts DEF GroupsOver, Sound
<1>3. ASSUME NEW k \in 1 .. Len(all), NEW i \in ToSet(all[k].layers),
             NEW l \in 1 .. Len(all), i \in ToSet(all[l].layers)
      PROVE  l = k
  BY <1>2, <1>3 DEF Common
<1> QED BY <1>2, <1>3 DEF GroupsDisjoint, all, A

-----------------------------------------------------------------------------
(* What requests need of the groups the code makes.                        *)
LEMMA CdivGrows ==
  ASSUME NEW a \in Nat, NEW b \in Nat, a <= b, NEW n \in Nat \ {0}
  PROVE  Cdiv(a, n) \in Nat /\ Cdiv(b, n) \in Nat /\ Cdiv(a, n) <= Cdiv(b, n)
<1> DEFINE p == Cdiv(a, n)
           q == Cdiv(b, n)
<1>1. /\ p \in Nat /\ q \in Nat /\ n * p \in Nat /\ n * q \in Nat
      /\ n * p <= a + n - 1 /\ b <= n * q
  BY CdivFacts
<1> HIDE DEF p, q
<1>2. q + 1 <= p => n * (q + 1) <= n * p /\ n * (q + 1) = n * q + n
  BY <1>1, Times
<1>3. p <= q
  BY <1>1, <1>2
<1> QED BY <1>1, <1>3 DEF p, q

(* A request's blocks in one layer: no fewer for a longer one, and as many *)
(* in a layer of the same type.                                            *)
LEMMA RequestFacts ==
  ASSUME NEW s \in LayerSpecs, NEW f \in Nat, NEW len \in Nat
  PROVE  /\ RequestBlocks(s, len, f) \in Nat
         /\ \A more \in Nat :
              len <= more => RequestBlocks(s, len, f) <= RequestBlocks(s, more, f)
         /\ \A t \in LayerSpecs :
              Same(s, t) => RequestBlocks(t, len, f) = RequestBlocks(s, len, f)
<1>1. /\ s.block \in Nat \ {0} /\ s.window \in Nat
      /\ (IsWindow(s) => s.window # 0)
  BY SpecFacts
<1>2. CASE s.kind = "mamba"
  <2>1. \A more : RequestBlocks(s, more, f) = 1
    BY <1>2 DEF RequestBlocks, IsWindow
  <2>2. \A t : Same(s, t) => t.kind = "mamba"
    BY <1>2 DEF Same, Family, IsFull, IsWindow
  <2>3. \A t : Same(s, t) => RequestBlocks(t, len, f) = 1
    BY <2>2 DEF RequestBlocks, IsWindow
  <2> QED BY <2>1, <2>3
<1>3. CASE IsWindow(s)
  <2> DEFINE seen(l) == Smaller(s.window - 1 + f, l)
  <2>1. \A more : RequestBlocks(s, more, f) = Cdiv(seen(more), s.block) + 1
    BY <1>3 DEF RequestBlocks, IsWindow
  <2>2. \A t : Same(s, t) => IsWindow(t) /\ t.window = s.window /\ t.block = s.block
    BY <1>3 DEF Same, Family, IsFull, IsWindow
  <2>3. \A t : Same(s, t) => RequestBlocks(t, len, f) = Cdiv(seen(len), s.block) + 1
    BY <2>2 DEF RequestBlocks
  <2>4. \A more \in Nat : seen(more) \in Nat
    BY <1>1, <1>3 DEF Smaller
  <2>5. \A more \in Nat : len <= more => seen(len) <= seen(more)
    BY <1>1, <1>3 DEF Smaller
  <2> HIDE DEF seen
  <2>6. \A more \in Nat : Cdiv(seen(more), s.block) \in Nat
    BY <1>1, <2>4, CdivFacts
  <2>7. \A more \in Nat : len <= more =>
          Cdiv(seen(len), s.block) <= Cdiv(seen(more), s.block)
    BY <1>1, <2>4, <2>5, CdivGrows
  <2> QED BY <2>1, <2>3, <2>6, <2>7
<1>4. CASE s.kind # "mamba" /\ ~IsWindow(s)
  <2>1. \A more : RequestBlocks(s, more, f) = Cdiv(more, s.block)
    BY <1>4 DEF RequestBlocks
  <2>2. \A t : Same(s, t) => t.kind # "mamba" /\ ~IsWindow(t) /\ t.block = s.block
    BY <1>4 DEF Same, Family, IsFull, IsWindow
  <2>3. \A t : Same(s, t) => RequestBlocks(t, len, f) = Cdiv(len, s.block)
    BY <2>2 DEF RequestBlocks
  <2>4. \A more \in Nat : Cdiv(more, s.block) \in Nat
    BY <1>1, CdivFacts
  <2>5. \A more \in Nat : len <= more => Cdiv(len, s.block) <= Cdiv(more, s.block)
    BY <1>1, CdivGrows
  <2> QED BY <2>1, <2>3, <2>4, <2>5
<1> QED BY <1>2, <1>3, <1>4

(* A worker's part of a group, of none of its layers too, needs what the   *)
(* group needs.                                                            *)
LEMMA PartNeeds ==
  ASSUME NEW A, NEW g, Sound(g, A), Len(g.layers) # 0, NEW owned,
         NEW f \in Nat, NEW len \in Nat
  PROVE  GroupBlocks(Project(g, owned), len, f)
           = RequestBlocks(g.spec[g.layers[1]], len, f)
<1> DEFINE q == Project(g, owned)
           mine == Only(g.layers, owned)
           s == g.spec[g.layers[1]]
           r == RequestBlocks(s, len, f)
           S == {RequestBlocks(q.spec[i], len, f) : i \in DOMAIN q.spec}
<1>1. /\ g.layers \in Seq(A) /\ DOMAIN g.spec = ToSet(g.layers)
      /\ UniformType(g.spec) /\ \A i \in ToSet(g.layers) : g.spec[i] \in LayerSpecs
  BY DEF Sound
<1>2. s \in LayerSpecs /\ g.layers[1] \in ToSet(g.layers)
  BY FirstLayer
<1>3. \A i \in ToSet(g.layers) : Same(s, g.spec[i])
  BY <1>1, <1>2 DEF UniformType, Same
<1>4. mine \in Seq(A) /\ ToSet(mine) = ToSet(g.layers) \cap owned
  BY <1>1, OnlyFacts
<1>5. q.spec = IF mine # <<>> THEN Restrict(g.spec, ToSet(mine)) ELSE g.spec
  BY DEF Project
<1> HIDE DEF q, mine, s
<1>6. /\ DOMAIN q.spec \subseteq ToSet(g.layers) /\ DOMAIN q.spec # {}
      /\ \A i \in DOMAIN q.spec : q.spec[i] = g.spec[i]
  <2>1. CASE mine # <<>>
    <3>1. q.spec = [i \in ToSet(mine) |-> g.spec[i]]
      BY <1>5, <2>1 DEF Restrict
    <3>2. ToSet(mine) # {}
      <4>1. Len(mine) \in Nat /\ Len(mine) # 0
        BY <1>4, <2>1
      <4>2. 1 \in 1 .. Len(mine)
        BY <4>1
      <4> QED BY <1>4, <4>2, ListPlaces
    <3> QED BY <1>4, <3>1, <3>2
  <2>2. CASE mine = <<>>
    BY <1>1, <1>2, <1>5, <2>2
  <2> QED BY <2>1, <2>2
<1>7. \A i \in DOMAIN q.spec : RequestBlocks(q.spec[i], len, f) = r
  <2> TAKE i \in DOMAIN q.spec
  <2>1. q.spec[i] \in LayerSpecs /\ Same(s, q.spec[i])
    BY <1>1, <1>3, <1>6
  <2> QED BY <1>2, <2>1, RequestFacts
<1>8. S = {r}
  BY <1>6, <1>7
<1>9. r \in Nat
  BY <1>2, RequestFacts
<1> HIDE DEF r
<1>10. Max({r}) = r
  <2>1. IsFiniteSet({r}) /\ {r} \in SUBSET Nat /\ {r} # {}
    BY <1>9, FS_Singleton
  <2> QED BY <2>1, LargestIn
<1>11. GroupBlocks(q, len, f) = Max(S)
  BY DEF GroupBlocks
<1> QED BY <1>8, <1>10, <1>11 DEF q, r, s

(* The blocks of a request, group by group.                                *)
AddsBlocks(gs, len, f, g, s) ==
  IF s = {} THEN 0
  ELSE GroupBlocks(gs[CHOOSE x \in s : TRUE], len, f) + g[s \ {CHOOSE x \in s : TRUE}]

LEMMA RequestTotal ==
  ASSUME NEW gs, IsFiniteSet(DOMAIN gs), NEW len, NEW f,
         NEW n, \A x \in DOMAIN gs : n[x] = GroupBlocks(gs[x], len, f)
  PROVE  BlocksPerRequest(gs, len, f) = Total(n, DOMAIN gs)
<1> DEFINE S == DOMAIN gs
           h == CHOOSE g : g = [s \in SUBSET S |-> AddsBlocks(gs, len, f, g, s)]
<1>1. BlocksPerRequest(gs, len, f) = h[S]
  BY DEF BlocksPerRequest, Sum, MapThenSumSet, MapThenFoldSet, AddsBlocks
<1>2. \A x \in S : n[x] = GroupBlocks(gs[x], len, f)
  OBVIOUS
<1>3. IsFiniteSet(S)
  OBVIOUS
<1> HIDE DEF S
<1>4. ASSUME NEW g, NEW s \in SUBSET S
      PROVE  AddsBlocks(gs, len, f, g, s) = Adds(n, g, s)
  <2>1. CASE s = {}
    BY <2>1 DEF Adds, AddsBlocks
  <2>2. CASE s # {}
    <3>1. (CHOOSE x \in s : TRUE) \in S
      BY <2>2
    <3> QED BY <1>2, <2>2, <3>1 DEF Adds, AddsBlocks, Choice
  <2> QED BY <2>1, <2>2
<1>5. PICK g : Adding(n, g, S)
  BY <1>3, Recursion
<1>6. g = [s \in SUBSET S |-> AddsBlocks(gs, len, f, g, s)]
  BY <1>4, <1>5 DEF Adding
<1>7. h = [s \in SUBSET S |-> AddsBlocks(gs, len, f, h, s)]
  BY <1>6
<1> HIDE DEF h
<1>8. \A s \in SUBSET S : h[s] = Adds(n, h, s)
  BY <1>4, <1>7
<1>9. \A s \in SUBSET S : h[s] = Total(n, s)
  BY <1>3, <1>8, TotalOf
<1> QED BY <1>1, <1>9 DEF S

(* A sum of no larger numbers is no larger.                                *)
LEMMA TotalLess ==
  ASSUME NEW S, IsFiniteSet(S), NEW f, NEW g,
         \A x \in S : f[x] \in Nat /\ g[x] \in Nat /\ f[x] <= g[x]
  PROVE  Total(f, S) <= Total(g, S)
<1> DEFINE T(r) == Total(f, r)
           U(r) == Total(g, r)
<1>0. IsFiniteSet(S) /\ (\A x \in S : f[x] \in Nat) /\ (\A x \in S : g[x] \in Nat)
  OBVIOUS
<1>1. /\ T({}) = 0
      /\ \A r \in SUBSET S : T(r) \in Nat
      /\ \A r \in SUBSET S : \A x \in r : T(r) = f[x] + T(r \ {x})
  BY ONLY <1>0, TotalFacts
<1>2. /\ U({}) = 0
      /\ \A r \in SUBSET S : U(r) \in Nat
      /\ \A r \in SUBSET S : \A x \in r : U(r) = g[x] + U(r \ {x})
  BY ONLY <1>0, TotalFacts
<1> DEFINE G == {r \in SUBSET S : T(r) <= U(r)}
<1>3. ASSUME NEW r \in SUBSET S,
             \A q \in SUBSET S : Cardinality(q) < Cardinality(r) => q \in G
      PROVE  r \in G
  <2> HIDE DEF T, U
  <2>1. CASE r = {}
    BY <1>1, <1>2, <2>1
  <2>2. CASE r # {}
    <3> DEFINE c == Choice(r)
               q == r \ {c}
    <3>1. c \in r /\ q \in SUBSET S /\ Cardinality(q) < Cardinality(r)
      BY <2>2, ChosenLess
    <3>2. T(q) <= U(q)
      BY <1>3, <3>1
    <3>3. T(r) = f[c] + T(q) /\ U(r) = g[c] + U(q)
      BY <1>1, <1>2, <3>1
    <3>4. T(q) \in Nat /\ U(q) \in Nat /\ f[c] \in Nat /\ g[c] \in Nat /\ f[c] <= g[c]
      BY <1>1, <1>2, <3>1
    <3> HIDE DEF c, q
    <3>5. T(r) <= U(r)
      BY <3>2, <3>3, <3>4
    <3> QED BY <3>5
  <2> QED BY <2>1, <2>2
<1>4. S \in G
  <2> HIDE DEF G
  <2> QED BY <1>3, SetInduct
<1> QED BY <1>4

(* A worker's part gs of the groups over A, and the blocks n that a        *)
(* request needs in each group.                                            *)
Needing(all, A, owned, gs, len, f, n) ==
  /\ GroupsOver(all, A) /\ f \in Nat /\ len \in Nat
  /\ DOMAIN gs = 1 .. Len(all)
  /\ \A k \in 1 .. Len(all) :
       /\ Len(all[k].layers) # 0 /\ gs[k] = Project(all[k], owned)
       /\ n[k] = RequestBlocks(all[k].spec[all[k].layers[1]], len, f)

LEMMA WorkerNeeds ==
  ASSUME NEW all, NEW A, NEW owned, NEW gs, NEW len, NEW f, NEW n,
         Needing(all, A, owned, gs, len, f, n)
  PROVE  /\ BlocksPerRequest(gs, len, f) = Total(n, 1 .. Len(all))
         /\ \A k \in 1 .. Len(all) : n[k] \in Nat
<1> DEFINE N == 1 .. Len(all)
<1>0. GroupsOver(all, A) /\ f \in Nat /\ len \in Nat
  BY DEF Needing
<1>1. DOMAIN all = N /\ IsFiniteSet(N)
  <2> DEFINE m == Len(all)
  <2>1. m \in Int /\ 1 \in Int /\ DOMAIN all = 1 .. m
    BY <1>0 DEF GroupsOver
  <2> HIDE DEF m
  <2> QED BY <2>1, FS_Interval DEF m
<1>2. \A k \in N : Sound(all[k], A) /\ Len(all[k].layers) # 0
  BY <1>0 DEF GroupsOver, Needing
<1>3. \A k \in N : n[k] = RequestBlocks(all[k].spec[all[k].layers[1]], len, f)
  BY DEF Needing
<1>4. DOMAIN gs = N /\ \A k \in N : gs[k] = Project(all[k], owned)
  BY DEF Needing
<1> HIDE DEF N
<1>5. \A k \in N : n[k] = GroupBlocks(gs[k], len, f)
  <2> TAKE k \in N
  <2>1. GroupBlocks(Project(all[k], owned), len, f)
          = RequestBlocks(all[k].spec[all[k].layers[1]], len, f)
    BY <1>0, <1>2, PartNeeds
  <2> QED BY <1>3, <1>4, <2>1
<1>6. \A k \in N : n[k] \in Nat
  <2> TAKE k \in N
  <2>1. all[k].spec[all[k].layers[1]] \in LayerSpecs
    BY <1>2, FirstLayer
  <2>2. RequestBlocks(all[k].spec[all[k].layers[1]], len, f) \in Nat
    BY <1>0, <2>1, RequestFacts
  <2> QED BY <1>3, <2>2
<1>7. BlocksPerRequest(gs, len, f) = Total(n, N)
  <2>1. IsFiniteSet(DOMAIN gs) /\ \A k \in DOMAIN gs : n[k] = GroupBlocks(gs[k], len, f)
    BY <1>1, <1>4, <1>5
  <2>2. BlocksPerRequest(gs, len, f) = Total(n, DOMAIN gs)
    BY ONLY <2>1, RequestTotal
  <2> QED BY <1>4, <2>2
<1> QED BY <1>6, <1>7 DEF N

(* A block of a worker with a layer in some group has bytes.               *)
LEMMA WorkerBytes ==
  ASSUME NEW gs, NEW owned, Laid(gs, owned), NEW k \in DOMAIN gs,
         NEW i \in ToSet(gs[k].layers)
  PROVE  BytesPerBlock(gs) \in Nat \ {0}
<1> DEFINE U == ToSet(gs[k].layers)
           spec == gs[k].spec
<1>1. IsFiniteSet(U) /\ U \subseteq DOMAIN spec /\ \A j \in DOMAIN spec : spec[j].page \in Nat \ {0}
  BY ListFacts DEF Laid
<1>2. \A j \in U : spec[j].page \in Nat
  BY <1>1
<1>3. {i} \in SUBSET U /\ U \in SUBSET U /\ i \in DOMAIN spec
  BY <1>1
<1> HIDE DEF U, spec
<1>4. Pages(spec, {i}) <= Pages(spec, U) /\ Pages(spec, U) \in Nat
  BY <1>1, <1>2, <1>3, PagesFacts
<1>5. Pages(spec, {i}) = spec[i].page * Cardinality({i})
  <2>1. spec[i].page \in Nat /\ \A j \in {i} : spec[j].page = spec[i].page
    BY <1>1, <1>3
  <2> QED BY <1>1, <1>2, <1>3, <2>1, PagesFacts
<1>6. Cardinality({i}) = 1
  BY FS_Singleton
<1>7. spec[i].page \in Nat \ {0} /\ spec[i].page * 1 = spec[i].page
  BY <1>1, <1>3
<1>8. BytesPerBlock(gs) \in Nat /\ Pages(spec, U) <= BytesPerBlock(gs)
  BY WidestFacts DEF spec, U
<1> QED BY <1>4, <1>5, <1>6, <1>7, <1>8

(* What the sizing takes of the grouping, of the grouping of any model     *)
(* (get_kv_cache_groups, max_memory_usage_bytes): on workers that each own *)
(* a layer of some group, a block has bytes, and a request needs as many   *)
(* blocks on all of them, no fewer the longer it is.                       *)
THEOREM SizesOfModel ==
  ASSUME NEW x, ModelOK(x.specs), x.hybrid_off \in BOOLEAN, x.layout.outermost \in BOOLEAN,
         x.fine \in BOOLEAN, x.len \in Nat, x.in_flight \in Nat, x.owned \in Seq(SUBSET Nat),
         AllGroups(x) = KvCacheGroups(x.specs, x.hybrid_off, x.layout.outermost, x.fine),
         ~Empty(x),
         \A v \in DOMAIN x.owned : \E k \in DOMAIN AllGroups(x) :
           ToSet(AllGroups(x)[k].layers) \cap x.owned[v] # {}
  PROVE  SizesAgree(x)
<1> DEFINE all == AllGroups(x)
           A == DOMAIN x.specs
           own(v) == x.owned[v]
           part(v) == [k \in DOMAIN all |-> Project(all[k], own(v))]
           f == x.in_flight
           first(k) == all[k].spec[all[k].layers[1]]
           needs(len) == [k \in 1 .. Len(all) |-> RequestBlocks(first(k), len, f)]
           N == 1 .. Len(all)
<1>1. GroupsDisjoint(x)
  BY GroupsOfModel
<1>2. GroupsOver(all, A)
  BY GroupsFound DEF Groups
<1>3. A \in SUBSET Nat
  <2>1. A = 1 .. Len(x.specs) /\ Len(x.specs) \in Nat
    BY DEF ModelOK
  <2> QED BY <2>1
<1>4. \A v \in DOMAIN x.owned : \E k \in DOMAIN all : ToSet(all[k].layers) \cap own(v) # {}
  OBVIOUS
<1>5. WorkerGroups(x) = [v \in DOMAIN x.owned |-> part(v)]
  BY DEF WorkerGroups
<1>6. \A k \in DOMAIN all : all[k].layers # <<>>
  BY DEF Empty, Range
<1>7. \A v : Laid(part(v), own(v))
  BY <1>1, <1>3, LaidParts
<1>8. /\ Len(all) \in Nat /\ DOMAIN all = N
      /\ \A k \in N : Sound(all[k], A)
  BY <1>2 DEF GroupsOver
<1>9. f \in Nat
  OBVIOUS
<1>10. /\ Len(x.owned) \in Nat /\ DOMAIN x.owned = 1 .. Len(x.owned)
  OBVIOUS
<1> HIDE DEF all, A, own, f
<1>11. \A k \in N : Len(all[k].layers) # 0
  <2> TAKE k \in N
  <2>1. all[k].layers \in Seq(A) /\ all[k].layers # <<>>
    BY <1>6, <1>8 DEF Sound
  <2> QED BY <2>1
<1>12. ASSUME NEW v, NEW len \in Nat
       PROVE  /\ BlocksPerRequest(part(v), len, f) = Total(needs(len), N)
              /\ \A k \in N : needs(len)[k] \in Nat
  <2> DEFINE n == needs(len)
  <2>1. \A k \in 1 .. Len(all) :
          n[k] = RequestBlocks(all[k].spec[all[k].layers[1]], len, f)
    OBVIOUS
  <2> HIDE DEF n
  <2> DEFINE o == own(v)
             gs == part(v)
  <2>5. DOMAIN gs = 1 .. Len(all) /\ \A k \in 1 .. Len(all) : gs[k] = Project(all[k], o)
    BY <1>8
  <2> HIDE DEF o, gs
  <2>2. \A k \in 1 .. Len(all) : Len(all[k].layers) # 0
    BY <1>11
  <2>3. len \in Nat
    OBVIOUS
  <2>4. /\ BlocksPerRequest(gs, len, f) = Total(n, 1 .. Len(all))
        /\ \A k \in 1 .. Len(all) : n[k] \in Nat
    <3>1. Needing(all, A, o, gs, len, f, n)
      BY <1>2, <1>9, <2>1, <2>2, <2>3, <2>5 DEF Needing
    <3> QED BY <3>1, WorkerNeeds
  <2> QED BY <2>4 DEF n, gs
<1>13. IsFiniteSet(N)
  <2> DEFINE m == Len(all)
  <2>1. m \in Int /\ 1 \in Int
    BY <1>8
  <2> HIDE DEF m
  <2> QED BY <2>1, FS_Interval DEF m
<1>14. ASSUME NEW len \in Nat
       PROVE  /\ Total(needs(len), N) \in Nat
              /\ \A more \in Nat :
                   len <= more => Total(needs(len), N) <= Total(needs(more), N)
  <2>1. \A k \in N : first(k) \in LayerSpecs
    BY <1>8, <1>11, FirstLayer
  <2>2. \A more \in Nat : \A k \in N :
          needs(more)[k] = RequestBlocks(first(k), more, f) /\ needs(more)[k] \in Nat
    BY <1>12
  <2>3. \A more \in Nat : len <= more => \A k \in N : needs(len)[k] <= needs(more)[k]
    BY <1>9, <2>1, <2>2, RequestFacts
  <2> HIDE DEF needs, N, first
  <2>4. Total(needs(len), N) \in Nat
    <3>1. \A k \in N : needs(len)[k] \in Nat
      BY <2>2
    <3> DEFINE n == needs(len)
    <3> HIDE DEF n
    <3>2. \A k \in N : n[k] \in Nat
      BY <3>1 DEF n
    <3>3. N \in SUBSET N
      OBVIOUS
    <3>4. Total(n, N) \in Nat
      BY <1>13, <3>2, <3>3, TotalFacts
    <3> QED BY <3>4 DEF n
  <2>5. ASSUME NEW more \in Nat, len <= more
        PROVE  Total(needs(len), N) <= Total(needs(more), N)
    <3> DEFINE a == needs(len)
               b == needs(more)
    <3>1. \A k \in N : a[k] \in Nat /\ b[k] \in Nat /\ a[k] <= b[k]
      BY <2>2, <2>3, <2>5
    <3> HIDE DEF a, b
    <3>2. Total(a, N) <= Total(b, N)
      BY <1>13, <3>1, TotalLess
    <3> QED BY <3>2 DEF a, b
  <2> QED BY <2>4, <2>5
<1>15. ASSUME NEW v \in DOMAIN x.owned
       PROVE  part(v) # <<>> /\ BytesPerBlock(part(v)) \in Nat \ {0}
  <2>1. PICK k \in DOMAIN all : ToSet(all[k].layers) \cap own(v) # {}
    BY <1>4
  <2> DEFINE gs == part(v)
  <2>2. k \in DOMAIN gs /\ gs[k] = Project(all[k], own(v))
    OBVIOUS
  <2>3. Laid(gs, own(v))
    BY <1>7
  <2> HIDE DEF gs
  <2>4. ToSet(gs[k].layers) = ToSet(all[k].layers) \cap own(v)
    <3>1. gs[k].layers = Only(all[k].layers, own(v))
      BY <2>2 DEF Project
    <3>2. all[k].layers \in Seq(A)
      BY <1>8 DEF Sound
    <3> QED BY <3>1, <3>2, OnlyFacts
  <2>5. PICK i \in ToSet(gs[k].layers) : TRUE
    BY <2>1, <2>4
  <2>6. BytesPerBlock(gs) \in Nat \ {0}
    BY <2>2, <2>3, <2>5, WorkerBytes
  <2>7. gs # <<>>
    BY <2>2
  <2> QED BY <2>6, <2>7 DEF gs
<1> DEFINE blocks(v, len) == BlocksPerRequest(WorkerGroups(x)[v], len, x.in_flight)
<1>16. ASSUME NEW v \in DOMAIN x.owned, NEW len \in 1 .. x.len
       PROVE  /\ blocks(v, len) \in Nat
              /\ blocks(v, len) = blocks(1, len)
              /\ \A more \in len .. x.len : blocks(v, len) <= blocks(v, more)
  <2>1. 1 \in DOMAIN x.owned
    BY <1>10
  <2>2. len \in Nat /\ \A more \in len .. x.len : more \in Nat /\ len <= more
    OBVIOUS
  <2>3. \A more \in Nat : /\ blocks(v, more) = Total(needs(more), N)
                          /\ blocks(1, more) = Total(needs(more), N)
    <3>1. WorkerGroups(x)[v] = part(v) /\ WorkerGroups(x)[1] = part(1)
      BY <1>5, <2>1
    <3> HIDE DEF part, needs, N
    <3> QED BY <1>12, <3>1 DEF f
  <2> HIDE DEF blocks, needs, N
  <2> QED BY <1>14, <2>2, <2>3
<1>17. \A v \in DOMAIN x.owned :
         WorkerGroups(x)[v] # <<>> /\ BytesPerBlock(WorkerGroups(x)[v]) \in Nat \ {0}
  <2> HIDE DEF part
  <2> QED BY <1>5, <1>15
<1> QED BY <1>1, <1>16, <1>17 DEF SizesAgree
===============================================================================
