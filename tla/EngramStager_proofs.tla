-------------------------- MODULE EngramStager_proofs --------------------------
(***************************************************************************)
(* Proofs, for every number of layers, tokens and steps, that each forward *)
(* reads the rows of its own step, that the host reads rows for the hashes *)
(* of the step it stages, and that it leaves a pinned buffer alone while a *)
(* copy from it is enqueued.                                               *)
(***************************************************************************)
EXTENDS EngramStager, TLAPS

(* The first n rows of a buffer are those of step s.                       *)
Good(buf, s, n) == \A i \in 1 .. n : buf[i] = <<s, i>>

Same(o, s, n) == o.step = s /\ o.n = n

(* Operation k comes right after that of the same step it depends on.      *)
After(k, name) == /\ k > 1 /\ stream[k - 1].op = name
                  /\ Same(stream[k - 1], stream[k].step, stream[k].n)

(* Layer l holds step s when operation k begins: now, or by a copy before. *)
Staged(k, l, s, n) ==
  \/ Good(staged_rows[l], s, n)
  \/ \E j \in 1 .. k - 1 : /\ stream[j].op = "h2d" /\ stream[j].layer = l
                           /\ Same(stream[j], s, n)

(* What operation k finds when its turn comes.                             *)
Ordered(k) ==
  LET o == stream[k] IN
  /\ o.op = "hash" => IF k = 1 THEN input_ids = o.step ELSE After(k, "inputs")
  /\ o.op = "d2h" => IF k = 1 THEN Good(hashes, o.step, o.n) ELSE After(k, "hash")
  /\ o.op = "event" => IF k = 1 THEN Good(hash_host, o.step, o.n) ELSE After(k, "d2h")
  /\ o.op \in {"hash", "d2h", "event"} => pc = "synchronize" /\ Same(o, step, num_tokens)
  /\ o.op = "event" => k = Len(stream)
  /\ o.op = "h2d" => o.layer \in Layers /\ Good(rows_host[o.layer], o.step, o.n)
  /\ o.op = "forward" =>
       /\ \A l \in Layers : Staged(k, l, o.step, o.n)
       /\ \A j \in 1 .. k - 1 : stream[j].op = "h2d" => Same(stream[j], o.step, o.n)

OnlyCopies ==
  \A k \in 1 .. Len(stream) : stream[k].op = "h2d" /\ Same(stream[k], step, num_tokens)

(* What the host knows of the stream at each place: the wait empties it.   *)
HostKnows ==
  LET last == stream[Len(stream)] IN
  /\ pc \notin {"idle", "failed"} => step > 0
  /\ hashes_ready.reached <= step
  /\ pc = "stage" =>
       /\ hashes_ready.reached < step
       /\ IF stream = <<>> THEN input_ids = step
          ELSE last.op = "inputs" /\ Same(last, step, num_tokens)
  /\ pc = "synchronize" =>
       /\ hashes_ready.recorded = step
       /\ IF hashes_ready.reached = step
          THEN stream = <<>> /\ Good(hash_host, step, num_tokens)
          ELSE stream # <<>> /\ last.op = "event"
  /\ pc = "read" => stream = <<>> /\ Good(hash_host, step, num_tokens)
  /\ pc = "copy" =>
       /\ Good(rows, step, num_tokens) /\ OnlyCopies
       /\ \A k \in 1 .. Len(stream) : stream[k].layer < layer
       /\ \A l \in 1 .. layer - 1 : Staged(Len(stream) + 1, l, step, num_tokens)
  /\ pc = "launch" /\ num_tokens # 0 /\ bound =>
       OnlyCopies /\ \A l \in Layers : Staged(Len(stream) + 1, l, step, num_tokens)

StreamOrdered == \A k \in 1 .. Len(stream) : Ordered(k)

IInv == TypeOK /\ ForwardReadsOwnStep /\ StreamOrdered /\ HostKnows

-----------------------------------------------------------------------------

LEMMA TailFacts ==
  ASSUME NEW S, NEW s \in Seq(S), s # <<>>
  PROVE  /\ Tail(s) \in Seq(S) /\ Len(s) \in Nat /\ Len(s) > 0
         /\ Len(Tail(s)) = Len(s) - 1 /\ Head(s) = s[1] /\ s[1] \in S
         /\ \A k \in 1 .. Len(s) - 1 : Tail(s)[k] = s[k + 1]
OBVIOUS

LEMMA AppendFacts ==
  ASSUME NEW S, NEW s \in Seq(S), NEW e \in S
  PROVE  /\ Append(s, e) \in Seq(S) /\ Len(s) \in Nat
         /\ Len(Append(s, e)) = Len(s) + 1 /\ Append(s, e)[Len(s) + 1] = e
         /\ Append(s, e) # <<>>
         /\ \A k \in 1 .. Len(s) : Append(s, e)[k] = s[k]
OBVIOUS

LEMMA ThreeMoreFacts ==
  ASSUME NEW S, NEW s \in Seq(S), NEW a \in S, NEW b \in S, NEW c \in S
  PROVE  LET t == s \o <<a, b, c>> IN
         /\ t \in Seq(S) /\ Len(s) \in Nat /\ Len(t) = Len(s) + 3 /\ t # <<>>
         /\ t[Len(s) + 1] = a /\ t[Len(s) + 2] = b /\ t[Len(s) + 3] = c
         /\ \A k \in 1 .. Len(s) : t[k] = s[k]
OBVIOUS

(* A copy of typed rows is typed, and good where its source is.            *)
LEMMA CopyFacts ==
  ASSUME NEW buf \in Buffer, NEW src \in Buffer, NEW n \in 0 .. MaxTokens
  PROVE  /\ CopyRows(buf, src, n) \in Buffer
         /\ \A s : Good(src, s, n) => Good(CopyRows(buf, src, n), s, n)
<1>1. CopyRows(buf, src, n) \in Buffer
  BY DEF CopyRows, Buffer
<1>2. ASSUME NEW s, Good(src, s, n) PROVE Good(CopyRows(buf, src, n), s, n)
  BY <1>2, StagerBounds DEF CopyRows, Good, Rows
<1> QED BY <1>1, <1>2

LEMMA TypeInit == Init => TypeOK
<1>1. Empty \in Buffer /\ 1 \in Layers
  BY StagerBounds DEF Empty, Zero, Buffer, Layers
<1>2. <<>> \in Seq(Operations) /\ [l \in Layers |-> Empty] \in [Layers -> Buffer]
  BY <1>1
<1>3. /\ [step |-> 0, n |-> 0, saw |-> [l \in Layers |-> Empty]]
           \in [step : 0 .. MaxSteps, n : 0 .. MaxTokens, saw : [Layers -> Buffer]]
      /\ [recorded |-> 0, reached |-> 0] \in [recorded : 0 .. MaxSteps, reached : 0 .. MaxSteps]
  BY <1>2, StagerBounds
<1> HIDE DEF Empty
<1> QED BY <1>1, <1>2, <1>3, StagerBounds DEF Init, TypeOK

LEMMA TypeStep == TypeOK /\ HostKnows /\ [Next]_vars => TypeOK'
<1> SUFFICES ASSUME TypeOK, HostKnows, [Next]_vars PROVE TypeOK'
  OBVIOUS
<1> USE StagerBounds
<1>1. /\ stream \in Seq(Operations) /\ num_tokens \in 0 .. MaxTokens /\ step \in 0 .. MaxSteps
      /\ NumLayers \in Nat
  BY DEF TypeOK
<1>2. ASSUME step > 0 PROVE \A l \in 0 .. NumLayers :
        \A name \in {"hash", "d2h", "event", "h2d", "forward"} : Op(name, l) \in Operations
  BY <1>1, <1>2 DEF Op, Operations
<1>3. ASSUME NEW n \in 0 .. MaxTokens, Prepare(n) PROVE TypeOK'
  <2>1. [op |-> "inputs", step |-> step + 1, n |-> n, layer |-> 0] \in Operations
        /\ step' \in 0 .. MaxSteps
    BY <1>1, <1>3 DEF Prepare, Operations
  <2>2. stream' \in Seq(Operations)
    BY <1>1, <1>3, <2>1, AppendFacts DEF Prepare
  <2> QED BY <1>3, <2>1, <2>2 DEF Prepare, TypeOK, buffers
<1>4. CASE BindKvCache
  BY <1>4 DEF BindKvCache, TypeOK, buffers
<1>5. CASE StageHashes
  <2>1. step > 0
    BY <1>5 DEF StageHashes, HostKnows
  <2>2. stream \o <<Op("hash", 0), Op("d2h", 0), Op("event", 0)>> \in Seq(Operations)
    <3>1. Op("hash", 0) \in Operations /\ Op("d2h", 0) \in Operations
          /\ Op("event", 0) \in Operations
      BY <1>2, <2>1
    <3> QED BY <1>1, <3>1, ThreeMoreFacts
  <2>3. stream' \in Seq(Operations)
    BY <1>1, <1>5, <2>2 DEF StageHashes
  <2> QED BY <1>5, <2>3 DEF StageHashes, TypeOK, buffers
<1>6. CASE Synchronize
  BY <1>6 DEF Synchronize, TypeOK, buffers
<1>7. CASE ReadRows
  BY <1>7 DEF ReadRows, TypeOK, Layers
<1>8. CASE ReadFails
  BY <1>8 DEF ReadFails, TypeOK, buffers
<1>9. CASE CopyLayer
  <2>1. step > 0 /\ layer \in 0 .. NumLayers /\ layer \in Layers
    BY <1>9 DEF CopyLayer, HostKnows, TypeOK, Layers
  <2>2. stream' \in Seq(Operations)
    BY <1>1, <1>2, <1>9, <2>1, AppendFacts DEF CopyLayer
  <2>3. CopyRows(rows_host[layer], rows, num_tokens) \in Buffer
    BY <2>1, CopyFacts DEF TypeOK
  <2>4. rows_host' \in [Layers -> Buffer]
    BY <1>9, <2>3 DEF CopyLayer, TypeOK
  <2>5. layer' \in Layers /\ pc' \in {"copy", "launch"}
    BY <1>9, <2>1 DEF CopyLayer, Layers
  <2> QED BY <1>9, <2>2, <2>4, <2>5 DEF CopyLayer, TypeOK
<1>10. CASE Launch
  <2>1. step > 0
    BY <1>10 DEF Launch, HostKnows
  <2>2. Op("forward", 0) \in Operations
    BY <1>2, <2>1
  <2>3. stream' \in Seq(Operations)
    BY <1>1, <1>10, <2>2, AppendFacts DEF Launch
  <2> QED BY <1>10, <2>3 DEF Launch, TypeOK, buffers
<1>11. CASE GpuStep
  <2> DEFINE o == Head(stream)
  <2>1. o \in Operations /\ stream' \in Seq(Operations)
    BY <1>1, <1>11, TailFacts DEF GpuStep
  <2> HIDE DEF o
  <2>2. /\ input_ids' = (IF o.op = "inputs" THEN o.step ELSE input_ids)
        /\ hashes' = (IF o.op = "hash"
                      THEN [i \in Rows |-> IF i <= o.n THEN <<input_ids, i>> ELSE Zero] ELSE hashes)
        /\ hash_host' = (IF o.op = "d2h" THEN CopyRows(hash_host, hashes, o.n) ELSE hash_host)
        /\ hashes_ready' = (IF o.op = "event" THEN [hashes_ready EXCEPT !.reached = o.step]
                            ELSE hashes_ready)
        /\ staged_rows' = (IF o.op = "h2d"
                           THEN [staged_rows EXCEPT ![o.layer] =
                                   CopyRows(@, rows_host[o.layer], o.n)]
                           ELSE staged_rows)
        /\ forward' = (IF o.op = "forward" THEN [step |-> o.step, n |-> o.n, saw |-> staged_rows]
                       ELSE forward)
        /\ UNCHANGED <<pc, layer, step, num_tokens, bound, rows, rows_host>>
    BY <1>11 DEF GpuStep, o
  <2>3. /\ o.step \in 0 .. MaxSteps /\ o.n \in 0 .. MaxTokens /\ o.layer \in 0 .. NumLayers
    BY <2>1 DEF Operations
  <2>4. input_ids' \in 0 .. MaxSteps
    BY <2>2, <2>3 DEF TypeOK
  <2>5. hashes' \in Buffer
    <3>1. \A i \in Rows : <<input_ids, i>> \in (0 .. MaxSteps) \X (0 .. MaxTokens)
      BY DEF TypeOK, Rows
    <3>2. Zero \in (0 .. MaxSteps) \X (0 .. MaxTokens)
      BY DEF Zero
    <3>3. [i \in Rows |-> IF i <= o.n THEN <<input_ids, i>> ELSE Zero] \in Buffer
      BY <3>1, <3>2 DEF Buffer
    <3> QED BY <2>2, <3>3 DEF TypeOK
  <2>6. hash_host' \in Buffer
    BY <2>2, <2>3, CopyFacts DEF TypeOK
  <2>7. hashes_ready' \in [recorded : 0 .. MaxSteps, reached : 0 .. MaxSteps]
    BY <2>2, <2>3 DEF TypeOK
  <2>8. staged_rows' \in [Layers -> Buffer]
    <3>1. CASE o.layer \in Layers
      <4>1. CopyRows(staged_rows[o.layer], rows_host[o.layer], o.n) \in Buffer
        BY <2>3, <3>1, CopyFacts DEF TypeOK
      <4> QED BY <2>2, <4>1 DEF TypeOK
    <3>2. CASE o.layer \notin Layers
      BY <2>2, <3>2 DEF TypeOK
    <3> QED BY <3>1, <3>2
  <2>9. forward' \in [step : 0 .. MaxSteps, n : 0 .. MaxTokens, saw : [Layers -> Buffer]]
    BY <2>2, <2>3 DEF TypeOK
  <2> QED BY <2>1, <2>2, <2>4, <2>5, <2>6, <2>7, <2>8, <2>9 DEF TypeOK
<1>12. CASE UNCHANGED vars
  BY <1>12 DEF vars, TypeOK, buffers
<1> QED BY <1>3, <1>4, <1>5, <1>6, <1>7, <1>8, <1>9, <1>10, <1>11, <1>12 DEF Next, Host

-----------------------------------------------------------------------------
(* Steps of the host.                                                      *)

(* What is enqueued behind operation k, and what the host does with        *)
(* buffers that k does not read, is nothing to it.                         *)
LEMMA KeepsOrder ==
  ASSUME NEW k \in 1 .. Len(stream), Ordered(k), Len(stream) \in Nat, Len(stream') \in Nat,
         stream[k].op \in {"hash", "d2h", "event"} =>
           /\ pc' = "synchronize" /\ Same(stream[k], step, num_tokens)'
           /\ stream' = stream,
         \A j \in 1 .. k : stream'[j] = stream[j],
         UNCHANGED <<input_ids, hashes, hash_host, staged_rows>>,
         stream[k].op = "h2d" =>
           rows_host'[stream[k].layer] = rows_host[stream[k].layer]
  PROVE  Ordered(k)'
<1> DEFINE o == stream[k]
<1>1. stream'[k] = stream[k] /\ k \in Nat /\ k >= 1
  OBVIOUS
<1>2. \A name : After(k, name) => After(k, name)'
  <2> SUFFICES ASSUME NEW name, After(k, name) PROVE After(k, name)'
    OBVIOUS
  <2>1. k - 1 \in 1 .. k /\ stream'[k - 1] = stream[k - 1]
    BY <1>1 DEF After
  <2> QED BY <1>1, <2>1 DEF After, Same
<1>3. \A l, s, n : Staged(k, l, s, n) => Staged(k, l, s, n)'
  <2>1. \A j \in 1 .. k - 1 : stream'[j] = stream[j]
    BY <1>1
  <2> QED BY <2>1 DEF Staged, Good, Same
<1>4. o.op = "forward" =>
        /\ (\A l \in Layers : Staged(k, l, o.step, o.n))'
        /\ (\A j \in 1 .. k - 1 : stream[j].op = "h2d" => Same(stream[j], o.step, o.n))'
  <2> SUFFICES ASSUME o.op = "forward"
               PROVE  /\ (\A l \in Layers : Staged(k, l, o.step, o.n))'
                      /\ (\A j \in 1 .. k - 1 : stream[j].op = "h2d" => Same(stream[j], o.step, o.n))'
    OBVIOUS
  <2>1. /\ \A l \in Layers : Staged(k, l, o.step, o.n)
        /\ \A j \in 1 .. k - 1 : stream[j].op = "h2d" => Same(stream[j], o.step, o.n)
    BY DEF Ordered
  <2>2. \A j \in 1 .. k - 1 : stream'[j] = stream[j]
    BY <1>1
  <2> QED BY <1>1, <1>3, <2>1, <2>2 DEF Same, Layers
<1>5. o.op = "h2d" => o.layer \in Layers /\ Good(rows_host[o.layer], o.step, o.n)'
  BY <1>1 DEF Ordered, Good
<1>6. o.op = "hash" => IF k = 1 THEN (input_ids = o.step)' ELSE After(k, "inputs")'
  BY <1>1, <1>2 DEF Ordered
<1>7. o.op = "d2h" => IF k = 1 THEN Good(hashes, o.step, o.n)' ELSE After(k, "hash")'
  BY <1>1, <1>2 DEF Ordered, Good
<1>8. o.op = "event" => IF k = 1 THEN Good(hash_host, o.step, o.n)' ELSE After(k, "d2h")'
  BY <1>1, <1>2 DEF Ordered, Good
<1> QED BY <1>1, <1>4, <1>5, <1>6, <1>7, <1>8 DEF Ordered, Layers

(* Outside of the wait no hash, copy to the host or event is enqueued.     *)
LEMMA Waiting ==
  ASSUME StreamOrdered, pc # "synchronize", NEW k \in 1 .. Len(stream)
  PROVE  stream[k].op \notin {"hash", "d2h", "event"}
BY DEF StreamOrdered, Ordered

LEMMA PrepareStep ==
  ASSUME IInv, NEW n \in 0 .. MaxTokens, Prepare(n)
  PROVE  (StreamOrdered /\ HostKnows)'
<1> DEFINE e == [op |-> "inputs", step |-> step + 1, n |-> n, layer |-> 0]
<1>1. /\ stream \in Seq(Operations) /\ e \in Operations /\ pc = "idle"
      /\ stream' = Append(stream, e) /\ pc' = "stage" /\ step' = step + 1 /\ num_tokens' = n
      /\ UNCHANGED <<hashes_ready, input_ids, hashes, hash_host, rows_host, staged_rows>>
  BY StagerBounds DEF IInv, TypeOK, Prepare, Operations, buffers
<1>0. PICK m \in Nat : m = Len(stream)
  BY <1>1
<1>2. /\ Len(stream) \in Nat /\ Len(stream') = m + 1 /\ stream' # <<>>
      /\ stream'[m + 1] = e /\ \A k \in 1 .. m : stream'[k] = stream[k]
  <2> HIDE DEF e
  <2> QED BY <1>0, <1>1, AppendFacts
<1>3. ASSUME NEW k \in 1 .. m PROVE Ordered(k)'
  <2>1. stream[k].op \notin {"hash", "d2h", "event"}
    BY <1>0, <1>1, Waiting DEF IInv
  <2>2. Ordered(k) /\ \A j \in 1 .. k : stream'[j] = stream[j]
    BY <1>0, <1>2 DEF IInv, StreamOrdered
  <2> QED BY <1>0, <1>1, <1>2, <2>1, <2>2, KeepsOrder
<1>4. Ordered(m + 1)'
  BY <1>2 DEF Ordered
<1>5. StreamOrdered'
  BY <1>2, <1>3, <1>4 DEF StreamOrdered
<1>6. HostKnows'
  <2>1. step \in Nat /\ hashes_ready.reached \in Nat /\ hashes_ready.reached <= step
    BY DEF IInv, TypeOK, HostKnows
  <2> QED BY <1>1, <1>2, <2>1 DEF HostKnows, Same
<1> QED BY <1>5, <1>6

LEMMA StageHashesStep ==
  ASSUME IInv, StageHashes
  PROVE  (StreamOrdered /\ HostKnows)'
<1> DEFINE a == Op("hash", 0)
           b == Op("d2h", 0)
           c == Op("event", 0)
<1>0. PICK n \in Nat : n = Len(stream)
  BY DEF IInv, TypeOK
<1>1. /\ pc = "stage" /\ stream \in Seq(Operations) /\ step \in 0 .. MaxSteps
      /\ num_tokens \in 0 .. MaxTokens /\ hashes_ready.reached \in Nat
      /\ step > 0 /\ hashes_ready.reached < step /\ n = Len(stream)
      /\ hashes_ready \in [recorded : 0 .. MaxSteps, reached : 0 .. MaxSteps]
      /\ IF stream = <<>> THEN input_ids = step
         ELSE stream[n].op = "inputs" /\ Same(stream[n], step, num_tokens)
  BY <1>0 DEF IInv, TypeOK, HostKnows, StageHashes
<1>2. UNCHANGED <<layer, step, num_tokens, bound, input_ids, hashes, hash_host, rows, rows_host,
                  staged_rows>>
  BY DEF StageHashes, buffers
<1>3. CASE num_tokens = 0 \/ ~bound
  <2>1. pc' = "launch" /\ UNCHANGED <<stream, hashes_ready>>
    BY <1>3 DEF StageHashes
  <2>2. ASSUME NEW k \in 1 .. Len(stream') PROVE Ordered(k)'
    <3>1. stream[k].op \notin {"hash", "d2h", "event"} /\ k \in 1 .. Len(stream)
      BY <1>1, <2>1, Waiting DEF IInv
    <3>2. Ordered(k)
      BY <3>1 DEF IInv, StreamOrdered
    <3> QED BY <1>1, <1>2, <2>1, <3>1, <3>2, KeepsOrder
  <2>3. HostKnows'
    BY <1>1, <1>2, <1>3, <2>1 DEF HostKnows
  <2> QED BY <2>2, <2>3 DEF StreamOrdered
<1>4. CASE ~(num_tokens = 0 \/ ~bound)
  <2>1. /\ stream' = stream \o <<a, b, c>> /\ pc' = "synchronize"
        /\ hashes_ready' = [hashes_ready EXCEPT !.recorded = step]
    BY <1>4 DEF StageHashes
  <2>2. a \in Operations /\ b \in Operations /\ c \in Operations
    BY <1>1, StagerBounds DEF Op, Operations
  <2>3. /\ a.op = "hash" /\ b.op = "d2h" /\ c.op = "event"
        /\ Same(a, step, num_tokens) /\ Same(b, step, num_tokens) /\ Same(c, step, num_tokens)
    BY DEF Op, Same
  <2> HIDE DEF a, b, c
  <2>4. /\ Len(stream') = n + 3 /\ stream' # <<>>
        /\ stream'[n + 1] = a /\ stream'[n + 2] = b /\ stream'[n + 3] = c
        /\ \A k \in 1 .. n : stream'[k] = stream[k]
    BY <1>1, <2>1, <2>2, ThreeMoreFacts
  <2>5. ASSUME NEW k \in 1 .. n PROVE Ordered(k)'
    <3>1. stream[k].op \notin {"hash", "d2h", "event"} /\ k \in 1 .. Len(stream)
      BY <1>1, Waiting DEF IInv
    <3>2. Ordered(k) /\ \A j \in 1 .. k : stream'[j] = stream[j]
      BY <1>1, <3>1, <2>4 DEF IInv, StreamOrdered
    <3> QED BY <1>1, <1>2, <2>4, <3>1, <3>2, KeepsOrder
  <2>6. Ordered(n + 1)'
    <3>1. CASE stream = <<>>
      <4>1. n = 0
        BY <1>0, <3>1
      <4> QED BY <1>1, <1>2, <2>1, <2>3, <2>4, <3>1, <4>1 DEF Ordered, Same
    <3>2. CASE stream # <<>>
      <4>1. n \in 1 .. n /\ (n + 1) - 1 = n /\ n + 1 > 1 /\ n + 1 # 1
        BY <1>1, <3>2
      <4>2. stream'[n].op = "inputs" /\ Same(stream'[n], step, num_tokens)
        BY <1>1, <2>4, <3>2, <4>1
      <4>3. After(n + 1, "inputs")'
        BY <2>3, <2>4, <4>1, <4>2 DEF After, Same
      <4> QED BY <1>2, <2>1, <2>3, <2>4, <4>1, <4>3 DEF Ordered, Same
    <3> QED BY <3>1, <3>2
  <2>7. Ordered(n + 2)'
    <3>1. n + 2 # 1 /\ n + 2 > 1 /\ (n + 2) - 1 = n + 1
      BY <1>1
    <3>2. After(n + 2, "hash")'
      BY <2>3, <2>4, <3>1 DEF After, Same
    <3> QED BY <1>2, <2>1, <2>3, <2>4, <3>1, <3>2 DEF Ordered, Same
  <2>8. Ordered(n + 3)'
    <3>1. n + 3 # 1 /\ n + 3 > 1 /\ (n + 3) - 1 = n + 2
      BY <1>1
    <3>2. After(n + 3, "d2h")'
      BY <2>3, <2>4, <3>1 DEF After, Same
    <3> QED BY <1>2, <2>1, <2>3, <2>4, <3>1, <3>2 DEF Ordered, Same
  <2>9. StreamOrdered'
    BY <1>1, <2>4, <2>5, <2>6, <2>7, <2>8 DEF StreamOrdered
  <2>10. hashes_ready'.recorded = step /\ hashes_ready'.reached = hashes_ready.reached
    BY <1>1, <2>1
  <2>11. HostKnows'
    BY <1>1, <1>2, <2>1, <2>3, <2>4, <2>10 DEF HostKnows
  <2> QED BY <2>9, <2>11
<1> QED BY <1>3, <1>4

(* Steps that enqueue nothing.                                             *)
LEMMA QuietSteps ==
  ASSUME IInv, BindKvCache \/ Synchronize \/ ReadRows \/ ReadFails
  PROVE  (StreamOrdered /\ HostKnows)'
<1>1. /\ UNCHANGED <<stream, step, num_tokens, input_ids, hashes, hash_host, rows_host,
                      staged_rows, hashes_ready>>
      /\ Len(stream) \in Nat
  BY DEF IInv, TypeOK, BindKvCache, Synchronize, ReadRows, ReadFails, buffers
<1>2. CASE BindKvCache
  <2>1. pc = "idle" /\ pc' = "idle"
    BY <1>2 DEF BindKvCache
  <2>2. ASSUME NEW k \in 1 .. Len(stream) PROVE Ordered(k)'
    <3>1. stream[k].op \notin {"hash", "d2h", "event"} /\ Ordered(k)
      BY <2>1, Waiting DEF IInv, StreamOrdered
    <3> QED BY <1>1, <3>1, KeepsOrder
  <2>3. StreamOrdered'
    BY <1>1, <2>2 DEF StreamOrdered
  <2>4. HostKnows'
    BY <1>1, <2>1 DEF HostKnows, IInv
  <2> QED BY <2>3, <2>4
<1>3. CASE Synchronize \/ ReadRows \/ ReadFails
  <2>1. stream = <<>> /\ stream' = <<>> /\ Good(hash_host, step, num_tokens) /\ step > 0
    BY <1>1, <1>3 DEF IInv, HostKnows, Synchronize, ReadRows, ReadFails
  <2>2. Len(stream) = 0 /\ Len(stream') = 0
    BY <2>1
  <2>3. StreamOrdered'
    BY <2>2 DEF StreamOrdered
  <2>4. HostKnows'
    <3>1. hashes_ready.reached <= step
      BY DEF IInv, HostKnows
    <3>2. CASE Synchronize
      BY <1>1, <2>1, <3>1, <3>2 DEF HostKnows, Synchronize, Good
    <3>3. CASE ReadRows
      BY <1>1, <2>1, <2>2, <3>1, <3>3 DEF HostKnows, ReadRows, Good, OnlyCopies
    <3>4. CASE ReadFails
      BY <1>1, <2>1, <3>1, <3>4 DEF HostKnows, ReadFails
    <3> QED BY <1>3, <3>2, <3>3, <3>4
  <2> QED BY <2>3, <2>4
<1> QED BY <1>2, <1>3

(* The copy of a layer: the copies enqueued so far are of layers below, so *)
(* the pinned buffer being rewritten is not one they still have to read.   *)
LEMMA CopyLayerStep ==
  ASSUME IInv, CopyLayer
  PROVE  (StreamOrdered /\ HostKnows)'
<1> DEFINE e == Op("h2d", layer)
<1>0. PICK m \in Nat : m = Len(stream)
  BY DEF IInv, TypeOK
<1>1. /\ pc = "copy" /\ stream \in Seq(Operations) /\ layer \in Layers /\ NumLayers \in Nat
      /\ num_tokens \in 0 .. MaxTokens /\ step \in 0 .. MaxSteps /\ step > 0
      /\ rows \in Buffer /\ rows_host \in [Layers -> Buffer]
      /\ hashes_ready.reached <= step
      /\ Good(rows, step, num_tokens) /\ OnlyCopies
      /\ \A k \in 1 .. m : stream[k].layer < layer
      /\ \A l \in 1 .. layer - 1 : Staged(m + 1, l, step, num_tokens)
  BY <1>0, StagerBounds DEF IInv, TypeOK, HostKnows, CopyLayer
<1>2. /\ stream' = Append(stream, e)
      /\ rows_host' = [rows_host EXCEPT ![layer] = CopyRows(@, rows, num_tokens)]
      /\ UNCHANGED <<step, num_tokens, bound, input_ids, hashes, hash_host, rows, staged_rows,
                      hashes_ready>>
      /\ IF layer < NumLayers THEN layer' = layer + 1 /\ pc' = "copy"
         ELSE layer' = layer /\ pc' = "launch"
  BY DEF CopyLayer
<1>3. e \in Operations /\ e.op = "h2d" /\ e.layer = layer /\ Same(e, step, num_tokens)
  BY <1>1 DEF Op, Operations, Layers, Same
<1> HIDE DEF e
<1>4. /\ Len(stream') = m + 1 /\ stream' # <<>> /\ stream'[m + 1] = e
      /\ \A k \in 1 .. m : stream'[k] = stream[k]
  BY <1>0, <1>1, <1>2, <1>3, AppendFacts
<1>5. Good(rows_host'[layer], step, num_tokens)
  <2>1. rows_host'[layer] = CopyRows(rows_host[layer], rows, num_tokens)
    BY <1>1, <1>2
  <2>2. rows_host[layer] \in Buffer
    BY <1>1
  <2> QED BY <1>1, <2>1, <2>2, CopyFacts
<1>6. ASSUME NEW k \in 1 .. m PROVE Ordered(k)'
  <2>1. Ordered(k) /\ \A j \in 1 .. k : stream'[j] = stream[j]
    BY <1>0, <1>4 DEF IInv, StreamOrdered
  <2>2. stream[k].op = "h2d" /\ stream[k].layer < layer
    BY <1>0, <1>1 DEF OnlyCopies
  <2>3. stream[k].layer \in Layers
    BY <2>1, <2>2 DEF Ordered
  <2>4. rows_host'[stream[k].layer] = rows_host[stream[k].layer]
    BY <1>1, <1>2, <2>2, <2>3 DEF Layers
  <2> QED BY <1>0, <1>2, <1>4, <2>1, <2>2, <2>4, KeepsOrder
<1>7. Ordered(m + 1)'
  BY <1>1, <1>2, <1>3, <1>4, <1>5 DEF Ordered, Same, Good, Layers
<1>8. StreamOrdered'
  BY <1>4, <1>6, <1>7 DEF StreamOrdered
<1>9. OnlyCopies'
  <2>1. \A k \in 1 .. m + 1 : stream'[k].op = "h2d" /\ Same(stream'[k], step, num_tokens)
    BY <1>0, <1>1, <1>3, <1>4 DEF OnlyCopies
  <2> QED BY <1>2, <1>4, <2>1 DEF OnlyCopies, Same
<1>10. ASSUME NEW l \in 1 .. layer PROVE Staged(m + 2, l, step, num_tokens)'
  <2>1. CASE l = layer
    <3>1. m + 1 \in 1 .. (m + 2) - 1
      OBVIOUS
    <3> QED BY <1>2, <1>3, <1>4, <2>1, <3>1 DEF Staged, Same
  <2>2. CASE l # layer
    <3>1. Staged(m + 1, l, step, num_tokens) /\ l \in 1 .. layer - 1
      BY <1>1, <2>2 DEF Layers
    <3>2. CASE Good(staged_rows[l], step, num_tokens)
      BY <1>2, <3>2 DEF Staged, Good
    <3>3. ASSUME NEW j \in 1 .. m, stream[j].op = "h2d" /\ stream[j].layer = l
                                   /\ Same(stream[j], step, num_tokens)
          PROVE Staged(m + 2, l, step, num_tokens)'
      <4>1. j \in 1 .. (m + 2) - 1
        OBVIOUS
      <4> QED BY <1>2, <1>4, <3>3, <4>1 DEF Staged, Same
    <3> QED BY <3>1, <3>2, <3>3 DEF Staged
  <2> QED BY <2>1, <2>2
<1>11. HostKnows'
  <2>1. ASSUME NEW k \in 1 .. m + 1 PROVE stream'[k].layer < layer + 1
    <3>1. CASE k = m + 1
      BY <1>1, <1>3, <1>4, <3>1 DEF Layers
    <3>2. CASE k # m + 1
      <4>1. k \in 1 .. m /\ stream[k] \in Operations
        BY <1>0, <1>1, <3>2
      <4>2. stream[k].layer \in Nat
        BY <1>1, <4>1 DEF Operations
      <4>3. stream[k].layer < layer /\ stream'[k] = stream[k]
        BY <1>1, <1>4, <4>1
      <4> QED BY <1>1, <4>2, <4>3 DEF Layers
    <3> QED BY <3>1, <3>2
  <2>2. \A l \in 1 .. layer : Staged(Len(stream) + 1, l, step, num_tokens)'
    BY <1>4, <1>10
  <2>3. Good(rows, step, num_tokens)'
    BY <1>1, <1>2 DEF Good
  <2>4. CASE layer < NumLayers
    BY <1>1, <1>2, <1>4, <1>9, <2>1, <2>2, <2>3, <2>4 DEF HostKnows, Layers
  <2>5. CASE ~(layer < NumLayers)
    <3>1. layer = NumLayers
      BY <1>1, <2>5 DEF Layers
    <3> QED BY <1>1, <1>2, <1>9, <2>2, <2>5, <3>1 DEF HostKnows, Layers
  <2> QED BY <2>4, <2>5
<1> QED BY <1>8, <1>11

LEMMA LaunchStep ==
  ASSUME IInv, Launch
  PROVE  (StreamOrdered /\ HostKnows)'
<1> DEFINE e == Op("forward", 0)
<1>0. PICK m \in Nat : m = Len(stream)
  BY DEF IInv, TypeOK
<1>1. /\ pc = "launch" /\ pc' = "idle" /\ stream \in Seq(Operations)
      /\ num_tokens \in 0 .. MaxTokens /\ step \in 0 .. MaxSteps /\ step > 0
      /\ hashes_ready.reached <= step
      /\ UNCHANGED <<step, num_tokens, bound, input_ids, hashes, hash_host, rows, rows_host,
                      staged_rows, hashes_ready>>
  BY DEF IInv, TypeOK, HostKnows, Launch, buffers
<1>2. HostKnows'
  BY <1>1 DEF HostKnows
<1>3. CASE num_tokens = 0 \/ ~bound
  <2>1. stream' = stream
    BY <1>3 DEF Launch
  <2>2. ASSUME NEW k \in 1 .. Len(stream) PROVE Ordered(k)'
    <3>1. stream[k].op \notin {"hash", "d2h", "event"} /\ Ordered(k)
      BY <1>1, Waiting DEF IInv, StreamOrdered
    <3> QED BY <1>0, <1>1, <2>1, <3>1, KeepsOrder
  <2> QED BY <1>2, <2>1, <2>2 DEF StreamOrdered
<1>4. CASE ~(num_tokens = 0 \/ ~bound)
  <2>1. /\ OnlyCopies
        /\ \A l \in Layers : Staged(m + 1, l, step, num_tokens)
    BY <1>0, <1>1, <1>4 DEF IInv, HostKnows
  <2>2. stream' = Append(stream, e)
    BY <1>4 DEF Launch
  <2>3. e \in Operations /\ e.op = "forward" /\ Same(e, step, num_tokens)
    BY <1>1, StagerBounds DEF Op, Operations, Same
  <2> HIDE DEF e
  <2>4. /\ Len(stream') = m + 1 /\ stream'[m + 1] = e
        /\ \A k \in 1 .. m : stream'[k] = stream[k]
    BY <1>0, <1>1, <2>2, <2>3, AppendFacts
  <2>5. ASSUME NEW k \in 1 .. m PROVE Ordered(k)'
    <3>1. stream[k].op \notin {"hash", "d2h", "event"} /\ Ordered(k)
      BY <1>0, <1>1, Waiting DEF IInv, StreamOrdered
    <3>2. \A j \in 1 .. k : stream'[j] = stream[j]
      BY <2>4
    <3> QED BY <1>0, <1>1, <2>4, <3>1, <3>2, KeepsOrder
  <2>6. ASSUME NEW l \in Layers PROVE Staged(m + 1, l, step, num_tokens)'
    <3>1. CASE Good(staged_rows[l], step, num_tokens)
      BY <1>1, <3>1 DEF Staged, Good
    <3>2. ASSUME NEW j \in 1 .. m, stream[j].op = "h2d" /\ stream[j].layer = l
                                   /\ Same(stream[j], step, num_tokens)
          PROVE Staged(m + 1, l, step, num_tokens)'
      <4>1. j \in 1 .. (m + 1) - 1
        OBVIOUS
      <4> QED BY <1>1, <2>4, <3>2, <4>1 DEF Staged, Same
    <3>3. (m + 1) - 1 = m
      OBVIOUS
    <3> QED BY <2>1, <3>1, <3>2, <3>3 DEF Staged
  <2>7. Ordered(m + 1)'
    <3>1. \A j \in 1 .. m : Same(stream'[j], step, num_tokens)
      BY <1>0, <2>1, <2>4 DEF OnlyCopies
    <3>2. (m + 1) - 1 = m
      OBVIOUS
    <3> QED BY <1>1, <2>3, <2>4, <2>6, <3>1, <3>2 DEF Ordered, Same, Layers
  <2> QED BY <1>2, <2>4, <2>5, <2>7 DEF StreamOrdered
<1> QED BY <1>3, <1>4

-----------------------------------------------------------------------------
(* The step of the device.                                                 *)

LEMMA GpuStepRest ==
  ASSUME IInv, GpuStep
  PROVE  (StreamOrdered /\ HostKnows /\ ForwardReadsOwnStep)'
<1> DEFINE o == stream[1]
<1>0. PICK m \in Nat : m = Len(stream)
  BY DEF IInv, TypeOK
<1>1. /\ stream \in Seq(Operations) /\ stream # <<>> /\ m > 0 /\ o \in Operations
      /\ Head(stream) = o /\ stream' = Tail(stream) /\ Len(stream') = m - 1
      /\ \A k \in 1 .. m - 1 : stream'[k] = stream[k + 1]
  BY <1>0, TailFacts DEF IInv, TypeOK, GpuStep
<1> HIDE DEF o
<1>2. /\ input_ids' = (IF o.op = "inputs" THEN o.step ELSE input_ids)
      /\ hashes' = (IF o.op = "hash"
                    THEN [i \in Rows |-> IF i <= o.n THEN <<input_ids, i>> ELSE Zero] ELSE hashes)
      /\ hash_host' = (IF o.op = "d2h" THEN CopyRows(hash_host, hashes, o.n) ELSE hash_host)
      /\ hashes_ready' = (IF o.op = "event" THEN [hashes_ready EXCEPT !.reached = o.step]
                          ELSE hashes_ready)
      /\ staged_rows' = (IF o.op = "h2d"
                         THEN [staged_rows EXCEPT ![o.layer] =
                                 CopyRows(@, rows_host[o.layer], o.n)]
                         ELSE staged_rows)
      /\ forward' = (IF o.op = "forward" THEN [step |-> o.step, n |-> o.n, saw |-> staged_rows]
                     ELSE forward)
      /\ UNCHANGED <<pc, layer, step, num_tokens, bound, rows, rows_host>>
  BY <1>1 DEF GpuStep
<1>3. /\ o.step \in 1 .. MaxSteps /\ o.n \in 0 .. MaxTokens /\ o.layer \in 0 .. NumLayers
      /\ hashes \in Buffer /\ hash_host \in Buffer
      /\ rows_host \in [Layers -> Buffer] /\ staged_rows \in [Layers -> Buffer]
      /\ hashes_ready \in [recorded : 0 .. MaxSteps, reached : 0 .. MaxSteps]
      /\ step \in 0 .. MaxSteps
  BY <1>1 DEF Operations, IInv, TypeOK
<1>4. \A k \in 1 .. m : Ordered(k)
  BY <1>0 DEF IInv, StreamOrdered
<1>5. Ordered(1)
  BY <1>1, <1>4
(* What the head of the stream leaves for the operation that follows it.   *)
<1>6. o.op = "inputs" => input_ids' = o.step
  BY <1>2
<1>7. o.op = "hash" => Good(hashes', o.step, o.n)
  <2> SUFFICES ASSUME o.op = "hash" PROVE Good(hashes', o.step, o.n)
    OBVIOUS
  <2>1. input_ids = o.step
    BY <1>5 DEF Ordered, o
  <2> QED BY <1>2, <1>3, <2>1, StagerBounds DEF Good, Rows
<1>8. o.op = "d2h" => Good(hash_host', o.step, o.n)
  <2> SUFFICES ASSUME o.op = "d2h" PROVE Good(hash_host', o.step, o.n)
    OBVIOUS
  <2>1. Good(hashes, o.step, o.n)
    BY <1>5 DEF Ordered, o
  <2>2. hash_host' = CopyRows(hash_host, hashes, o.n)
    BY <1>2
  <2> QED BY <1>3, <2>1, <2>2, CopyFacts
<1>9. o.op = "h2d" => /\ o.layer \in Layers /\ Good(staged_rows'[o.layer], o.step, o.n)
  <2> SUFFICES ASSUME o.op = "h2d"
               PROVE  o.layer \in Layers /\ Good(staged_rows'[o.layer], o.step, o.n)
    OBVIOUS
  <2>1. o.layer \in Layers /\ Good(rows_host[o.layer], o.step, o.n)
    BY <1>5 DEF Ordered, o
  <2>2. staged_rows'[o.layer] = CopyRows(staged_rows[o.layer], rows_host[o.layer], o.n)
    BY <1>2, <1>3, <2>1
  <2>3. staged_rows[o.layer] \in Buffer /\ rows_host[o.layer] \in Buffer
    BY <1>3, <2>1
  <2>4. Good(CopyRows(staged_rows[o.layer], rows_host[o.layer], o.n), o.step, o.n)
    BY <1>3, <2>1, <2>3, CopyFacts
  <2> QED BY <2>1, <2>2, <2>4
(* A layer staged for operation k + 1 is so when that has become k.        *)
<1>10. ASSUME NEW k \in 0 .. m, NEW l \in Layers, NEW s, NEW n, k > 0,
              Staged(k + 1, l, s, n),
              \A j \in 1 .. k : stream[j].op = "h2d" => Same(stream[j], s, n)
       PROVE  Staged(k, l, s, n)'
  <2>1. k \in Nat /\ 1 \in 1 .. k /\ (k + 1) - 1 = k
    BY <1>10
  <2>2. CASE o.op = "h2d" /\ o.layer = l
    <3>1. Same(o, s, n)
      BY <1>10, <2>1, <2>2 DEF o
    <3> QED BY <1>9, <2>2, <3>1 DEF Staged, Same
  <2>3. CASE ~(o.op = "h2d" /\ o.layer = l)
    <3>1. staged_rows'[l] = staged_rows[l]
      BY <1>2, <1>3, <2>3
    <3>2. CASE Good(staged_rows[l], s, n)
      BY <3>1, <3>2 DEF Staged
    <3>3. ASSUME NEW j \in 1 .. k, stream[j].op = "h2d" /\ stream[j].layer = l
                                   /\ Same(stream[j], s, n)
          PROVE Staged(k, l, s, n)'
      <4>1. j # 1
        BY <2>3, <3>3 DEF o
      <4>2. j - 1 \in 1 .. k - 1 /\ stream'[j - 1] = stream[j]
        BY <1>0, <1>1, <1>10, <4>1
      <4> QED BY <3>3, <4>2 DEF Staged, Same
    <3> QED BY <1>10, <2>1, <3>2, <3>3 DEF Staged
  <2> QED BY <2>2, <2>3
<1>11. ASSUME NEW k \in 1 .. m - 1 PROVE Ordered(k)'
  <2>0. /\ k \in Nat /\ k > 0 /\ k + 1 \in 1 .. m /\ k + 1 # 1 /\ (k + 1) - 1 = k
        /\ stream'[k] = stream[k + 1] /\ k \in 0 .. m /\ k \in 1 .. m
    BY <1>1
  <2>1. Ordered(k + 1)
    BY <1>4, <2>0
  <2>2. ASSUME NEW name, After(k + 1, name), k # 1 PROVE After(k, name)'
    <3>1. k - 1 \in 1 .. m - 1 /\ k > 1 /\ (k - 1) + 1 = k
      BY <2>0, <2>2
    <3>2. stream'[k - 1] = stream[k]
      BY <1>1, <3>1
    <3> QED BY <2>0, <2>2, <3>1, <3>2 DEF After, Same
  <2>3. ASSUME NEW name, After(k + 1, name), k = 1
        PROVE o.op = name /\ Same(o, stream[k + 1].step, stream[k + 1].n)
    BY <2>0, <2>3 DEF After, o
  <2> PICK q \in Operations : q = stream[k + 1]
    BY <1>0, <1>1, <2>0
  <2>4. q.op = "hash" => IF k = 1 THEN input_ids' = q.step ELSE After(k, "inputs")'
    <3>1. q.op = "hash" => After(k + 1, "inputs")
      BY <2>0, <2>1 DEF Ordered
    <3> QED BY <1>6, <2>2, <2>3, <3>1 DEF Same
  <2>5. q.op = "d2h" => IF k = 1 THEN Good(hashes', q.step, q.n) ELSE After(k, "hash")'
    <3>1. q.op = "d2h" => After(k + 1, "hash")
      BY <2>0, <2>1 DEF Ordered
    <3> QED BY <1>7, <2>2, <2>3, <3>1 DEF Same
  <2>6. q.op = "event" => IF k = 1 THEN Good(hash_host', q.step, q.n) ELSE After(k, "d2h")'
    <3>1. q.op = "event" => After(k + 1, "d2h")
      BY <2>0, <2>1 DEF Ordered
    <3> QED BY <1>8, <2>2, <2>3, <3>1 DEF Same
  <2>7. /\ q.op \in {"hash", "d2h", "event"} => pc = "synchronize" /\ Same(q, step, num_tokens)
        /\ q.op = "event" => k = m - 1
        /\ q.op = "h2d" => q.layer \in Layers /\ Good(rows_host[q.layer], q.step, q.n)
    BY <1>0, <2>0, <2>1 DEF Ordered
  <2>8. q.op = "forward" =>
          /\ \A l \in Layers : Staged(k, l, q.step, q.n)'
          /\ \A j \in 1 .. k - 1 : stream'[j].op = "h2d" => Same(stream'[j], q.step, q.n)
    <3> SUFFICES ASSUME q.op = "forward"
                 PROVE  /\ \A l \in Layers : Staged(k, l, q.step, q.n)'
                        /\ \A j \in 1 .. k - 1 :
                             stream'[j].op = "h2d" => Same(stream'[j], q.step, q.n)
      OBVIOUS
    <3>1. /\ \A l \in Layers : Staged(k + 1, l, q.step, q.n)
          /\ \A j \in 1 .. k : stream[j].op = "h2d" => Same(stream[j], q.step, q.n)
      BY <2>0, <2>1 DEF Ordered
    <3>2. ASSUME NEW j \in 1 .. k - 1 PROVE j + 1 \in 1 .. k /\ stream'[j] = stream[j + 1]
      BY <1>1, <2>0
    <3>3. ASSUME NEW l \in Layers PROVE Staged(k, l, q.step, q.n)'
      BY <1>10, <2>0, <3>1
    <3> QED BY <3>1, <3>2, <3>3
  <2>9. stream'[k] = q /\ pc' = pc /\ step' = step /\ num_tokens' = num_tokens
        /\ rows_host' = rows_host /\ Len(stream') = m - 1
    BY <1>1, <1>2, <2>0
  <2>10. q.op = "event" => k = Len(stream')
    BY <2>7, <2>9
  <2>11. q.op \in {"hash", "d2h", "event"} => (pc = "synchronize")' /\ Same(q, step', num_tokens')
    BY <2>7, <2>9
  <2>12. q.op = "h2d" => q.layer \in Layers /\ Good(rows_host'[q.layer], q.step, q.n)
    BY <2>7, <2>9
  <2> QED BY <2>4, <2>5, <2>6, <2>8, <2>9, <2>10, <2>11, <2>12 DEF Ordered, Same, Good, Layers
<1>12. StreamOrdered'
  BY <1>1, <1>11 DEF StreamOrdered
<1>13. ForwardReadsOwnStep'
  <2>1. CASE o.op = "forward"
    <3>1. \A l \in Layers : Good(staged_rows[l], o.step, o.n)
      BY <1>5, <2>1 DEF Ordered, Staged, o
    <3>2. forward'.step = o.step /\ forward'.n = o.n /\ forward'.saw = staged_rows
      BY <1>2, <2>1
    <3> QED BY <3>1, <3>2 DEF ForwardReadsOwnStep, Good, Layers
  <2>2. CASE o.op # "forward"
    BY <1>2, <2>2 DEF IInv, ForwardReadsOwnStep, Layers
  <2> QED BY <2>1, <2>2
(* The operations that copy a step, one of them executed.                  *)
<1>14. OnlyCopies => OnlyCopies'
  <2> SUFFICES ASSUME OnlyCopies PROVE OnlyCopies'
    OBVIOUS
  <2>1. \A k \in 1 .. m - 1 : k + 1 \in 1 .. Len(stream)
    BY <1>0
  <2>2. \A k \in 1 .. m - 1 : stream'[k].op = "h2d" /\ Same(stream'[k], step, num_tokens)
    BY <1>1, <2>1 DEF OnlyCopies
  <2> QED BY <1>1, <1>2, <2>2 DEF OnlyCopies, Same
<1>15. ASSUME OnlyCopies, NEW l \in Layers, Staged(m + 1, l, step, num_tokens)
       PROVE  Staged(Len(stream) + 1, l, step, num_tokens)'
  <2>1. \A j \in 1 .. m : stream[j].op = "h2d" => Same(stream[j], step, num_tokens)
    BY <1>0, <1>15 DEF OnlyCopies
  <2>2. ASSUME NEW s, NEW n, s = step, n = num_tokens PROVE Staged(m, l, s, n)'
    BY <1>1, <1>10, <1>15, <2>1, <2>2
  <2>3. ASSUME NEW j \in Nat, j = m PROVE Staged(j, l, step, num_tokens)'
    BY <1>2, <2>2, <2>3 DEF Staged
  <2> QED BY <1>1, <2>3
<1>16. HostKnows'
  <2>1. step' > 0 \/ pc' \in {"idle", "failed"}
    BY <1>2 DEF IInv, HostKnows
  <2>2. pc # "synchronize" => o.op # "event"
    BY <1>0, <1>1, Waiting DEF IInv, o
  <2>3. o.op = "event" => o.step = step /\ pc = "synchronize"
    BY <1>5 DEF Ordered, Same, o
  <2>4. hashes_ready'.reached = (IF o.op = "event" THEN step ELSE hashes_ready.reached)
        /\ hashes_ready'.recorded = hashes_ready.recorded
    BY <1>2, <1>3, <2>3
  <2>5. hashes_ready'.reached <= step'
    BY <1>2, <1>3, <2>4 DEF IInv, HostKnows
  <2>6. m > 1 => stream'[Len(stream')] = stream[m] /\ stream' # <<>>
    <3> SUFFICES ASSUME m > 1 PROVE stream'[m - 1] = stream[m] /\ stream' # <<>>
      BY <1>1
    <3>1. m - 1 \in 1 .. m - 1 /\ (m - 1) + 1 = m /\ Len(stream') # 0
      BY <1>1
    <3> QED BY <1>1, <3>1
  <2>7. m = 1 => stream' = <<>> /\ stream[m] = o
    BY <1>0, <1>1 DEF o
  <2>8. CASE pc = "stage"
    <3>1. /\ hashes_ready.reached < step
          /\ stream[m].op = "inputs" /\ Same(stream[m], step, num_tokens)
      BY <1>0, <1>1, <2>8 DEF IInv, HostKnows
    <3>2. hashes_ready'.reached < step
      BY <2>2, <2>4, <2>8, <3>1
    <3>3. IF stream' = <<>> THEN input_ids' = step
          ELSE stream'[Len(stream')].op = "inputs"
               /\ Same(stream'[Len(stream')], step, num_tokens)
      BY <1>1, <1>6, <2>6, <2>7, <3>1 DEF Same
    <3> QED BY <1>2, <2>1, <2>5, <2>8, <3>2, <3>3 DEF HostKnows, Same
  <2>9. CASE pc = "synchronize"
    <3>1. /\ hashes_ready.recorded = step /\ hashes_ready.reached # step
          /\ stream[m].op = "event"
      BY <1>0, <1>1, <2>9 DEF IInv, HostKnows
    <3>2. CASE m = 1
      <4>1. o.op = "event" /\ stream' = <<>>
        BY <2>7, <3>1, <3>2
      <4>2. Good(hash_host, step, num_tokens)
        BY <1>5, <4>1 DEF Ordered, Same, o
      <4> QED BY <1>2, <2>1, <2>4, <2>5, <2>9, <3>1, <4>1, <4>2 DEF HostKnows, Good
    <3>3. CASE m # 1
      <4>1. o.op # "event"
        BY <1>0, <1>5, <3>3 DEF Ordered, o
      <4>2. stream' # <<>> /\ stream'[Len(stream')].op = "event"
        BY <1>1, <2>6, <3>1, <3>3
      <4> QED BY <1>2, <2>1, <2>4, <2>5, <2>9, <3>1, <4>1, <4>2 DEF HostKnows
    <3> QED BY <3>2, <3>3
  <2>10. CASE pc = "read"
    BY <1>1, <2>10 DEF IInv, HostKnows
  <2>11. CASE pc = "copy"
    <3>1. /\ Good(rows, step, num_tokens) /\ OnlyCopies
          /\ \A k \in 1 .. m : stream[k].layer < layer
          /\ \A l \in 1 .. layer - 1 : Staged(m + 1, l, step, num_tokens)
      BY <1>0, <2>11 DEF IInv, HostKnows
    <3>2. \A k \in 1 .. m - 1 : stream'[k].layer < layer
      BY <1>1, <3>1
    <3>3. \A l \in 1 .. layer - 1 : l \in Layers
      BY StagerBounds DEF IInv, TypeOK, Layers
    <3>4. \A l \in 1 .. layer - 1 : Staged(Len(stream) + 1, l, step, num_tokens)'
      BY <1>15, <3>1, <3>3
    <3>5. Good(rows, step, num_tokens)'
      BY <1>2, <3>1 DEF Good
    <3> QED BY <1>1, <1>2, <1>14, <2>1, <2>5, <2>11, <3>1, <3>2, <3>4, <3>5 DEF HostKnows
  <2>12. CASE pc = "launch"
    <3>1. num_tokens # 0 /\ bound =>
            OnlyCopies /\ \A l \in Layers : Staged(m + 1, l, step, num_tokens)
      BY <1>0, <2>12 DEF IInv, HostKnows
    <3>2. num_tokens # 0 /\ bound =>
            OnlyCopies' /\ \A l \in Layers : Staged(Len(stream) + 1, l, step, num_tokens)'
      BY <1>14, <1>15, <3>1
    <3> QED BY <1>2, <2>1, <2>5, <2>12, <3>2 DEF HostKnows, Layers
  <2>13. CASE pc \in {"idle", "failed"}
    BY <1>2, <2>1, <2>5, <2>13 DEF HostKnows
  <2> QED BY <2>8, <2>9, <2>10, <2>11, <2>12, <2>13 DEF IInv, TypeOK
<1> QED BY <1>12, <1>13, <1>16

-----------------------------------------------------------------------------

LEMMA InitIInv == Init => IInv
<1> SUFFICES ASSUME Init PROVE IInv
  OBVIOUS
<1>1. TypeOK
  BY TypeInit
<1>2. stream = <<>> /\ Len(stream) = 0 /\ pc = "idle" /\ step = 0 /\ forward.n = 0
      /\ hashes_ready.reached = 0
  BY DEF Init
<1> QED BY <1>1, <1>2 DEF IInv, ForwardReadsOwnStep, StreamOrdered, HostKnows

LEMMA NextIInv == IInv /\ [Next]_vars => IInv'
<1> SUFFICES ASSUME IInv, [Next]_vars PROVE IInv'
  OBVIOUS
<1>1. TypeOK'
  BY TypeStep DEF IInv
<1>2. Host => ForwardReadsOwnStep'
  BY DEF IInv, Host, Prepare, BindKvCache, StageHashes, Synchronize, ReadRows, ReadFails, CopyLayer,
         Launch, buffers, ForwardReadsOwnStep, Layers
<1>3. CASE Host
  <2>1. (StreamOrdered /\ HostKnows)'
    BY <1>3, PrepareStep, QuietSteps, StageHashesStep, CopyLayerStep, LaunchStep DEF Host
  <2> QED BY <1>1, <1>2, <1>3, <2>1 DEF IInv
<1>4. CASE GpuStep
  BY <1>1, <1>4, GpuStepRest DEF IInv
<1>5. CASE UNCHANGED vars
  <2>1. /\ UNCHANGED <<pc, layer, step, num_tokens, bound, stream, input_ids, hashes, hash_host>>
        /\ UNCHANGED <<hashes_ready, rows, rows_host, staged_rows, forward>>
    BY <1>5 DEF vars
  <2>2. ForwardReadsOwnStep'
    BY <2>1 DEF IInv, ForwardReadsOwnStep, Layers
  <2>3. HostKnows'
    BY <2>1 DEF IInv, HostKnows, OnlyCopies, Staged, Same, Good, Layers
  <2>4. ASSUME NEW k \in 1 .. Len(stream) PROVE Ordered(k)'
    <3>1. Ordered(k) /\ Len(stream) \in Nat
      BY DEF IInv, TypeOK, StreamOrdered
    <3>2. stream[k].op \in {"hash", "d2h", "event"} =>
            pc' = "synchronize" /\ Same(stream[k], step, num_tokens)'
      BY <2>1, <3>1 DEF Ordered, Same
    <3> QED BY <2>1, <3>1, <3>2, KeepsOrder
  <2>5. StreamOrdered'
    BY <2>1, <2>4 DEF StreamOrdered
  <2> QED BY <1>1, <2>2, <2>3, <2>5 DEF IInv
<1> QED BY <1>3, <1>4, <1>5 DEF Next

LEMMA Invariance == Spec => []IInv
BY InitIInv, NextIInv, PTL DEF Spec

(* Every variable keeps its type.                                          *)
THEOREM TypeCorrect == Spec => []TypeOK
<1>1. IInv => TypeOK
  BY DEF IInv
<1> QED BY <1>1, Invariance, PTL

(* Every forward reads, in every layer, the rows of its own step.          *)
THEOREM OwnStep == Spec => []ForwardReadsOwnStep
<1>1. IInv => ForwardReadsOwnStep
  BY DEF IInv
<1> QED BY <1>1, Invariance, PTL

(* When the host reads the disk, the hashes it has are of the step staged. *)
THEOREM Current == Spec => []HashesAreCurrent
<1>1. IInv => HashesAreCurrent
  BY DEF IInv, HostKnows, HashesAreCurrent, Good
<1> QED BY <1>1, Invariance, PTL

(* A pinned buffer is not rewritten while an enqueued copy has to read it. *)
THEOREM Quiescent == Spec => PinnedBuffersQuiescent
<1> DEFINE Quiet == \A l \in Layers : rows_host'[l] # rows_host[l] =>
                     \A k \in DOMAIN stream : ~(stream[k].op = "h2d" /\ stream[k].layer = l)
<1>1. IInv /\ [Next]_vars => [Quiet]_vars
  <2> SUFFICES ASSUME IInv, [Next]_vars PROVE Quiet \/ UNCHANGED vars
    OBVIOUS
  <2>1. CASE CopyLayer
    <3>1. /\ stream \in Seq(Operations) /\ rows_host \in [Layers -> Buffer]
          /\ layer \in Layers /\ NumLayers \in Nat
          /\ \A k \in 1 .. Len(stream) : stream[k].layer < layer
          /\ rows_host' = [rows_host EXCEPT ![layer] = CopyRows(@, rows, num_tokens)]
      BY <2>1, StagerBounds DEF IInv, TypeOK, HostKnows, CopyLayer
    <3>2. \A l \in Layers : rows_host'[l] # rows_host[l] => l = layer
      BY <3>1
    <3>3. ASSUME NEW k \in DOMAIN stream PROVE stream[k].layer # layer
      <4>1. k \in 1 .. Len(stream) /\ stream[k] \in Operations
        BY <3>1
      <4>2. stream[k].layer \in Nat
        BY <4>1 DEF Operations
      <4> QED BY <3>1, <4>1, <4>2 DEF Layers
    <3> QED BY <3>2, <3>3
  <2>2. CASE ~CopyLayer /\ Host
    <3>1. rows_host' = rows_host
      BY <2>2 DEF Host, Prepare, BindKvCache, StageHashes, Synchronize, ReadRows, ReadFails,
                  Launch, buffers
    <3> QED BY <3>1
  <2>3. CASE GpuStep
    BY <2>3 DEF GpuStep
  <2> QED BY <2>1, <2>2, <2>3 DEF Next
<1>2. Spec => [][Quiet]_vars
  BY <1>1, Invariance, PTL DEF Spec
<1> QED BY <1>2 DEF PinnedBuffersQuiescent

===============================================================================
