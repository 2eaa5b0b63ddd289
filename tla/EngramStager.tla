----------------------------- MODULE EngramStager -----------------------------
(***************************************************************************)
(* EngramDiskStager.stage of patches/engram.py between the runner's        *)
(* prepare_inputs and the model forward.  The host only enqueues; the GPU  *)
(* executes the operations of one stream in order, at its own pace.  Each  *)
(* step the host waits once, for its hashes to arrive in pinned memory,    *)
(* then reads the rows from disk, overwrites the pinned row buffers and    *)
(* enqueues their copies into the buffers the forward reads.               *)
(*                                                                         *)
(* Row i of step s is the tag <<s, i>>: its hash, and the table row that   *)
(* hash selects.  The runner's part (Prepare, Launch) is vLLM, modelled    *)
(* from the docstring of the class.                                        *)
(***************************************************************************)
EXTENDS Integers, SequencesExt

CONSTANTS
  NumLayers,             \* engram layers
  MaxTokens,             \* max_tokens: rows of every buffer
  MaxSteps               \* bound: steps the runner makes

ASSUME StagerBounds == /\ NumLayers \in Nat \ {0}
                       /\ MaxTokens \in Nat
                       /\ MaxSteps \in Nat

VARIABLES
  pc, layer,             \* where the host is, and the turn of its copy loop
  step, num_tokens,      \* the step it prepares, with its unpadded tokens
  bound,                 \* ensure_cache: the KV cache is bound
  stream,                \* operations enqueued and not yet executed
  input_ids,             \* device: the step whose inputs the buffers hold
  hashes,                \* device: the last hash output
  hash_host,             \* pinned: hashes on the host
  hashes_ready,          \* the event: step of its last record, step reached
  rows,                  \* host: what the disk reads of this step returned
  rows_host,             \* pinned, per layer
  staged_rows,           \* device, per layer: what the forward reads
  forward                \* history: the last forward and the rows it saw

vars == <<pc, layer, step, num_tokens, bound, stream, input_ids, hashes, hash_host,
          hashes_ready, rows, rows_host, staged_rows, forward>>

Layers == 1 .. NumLayers
Rows == 1 .. MaxTokens
Zero == <<0, 0>>         \* never written: zeros, or pinned garbage on the host
Buffer == [Rows -> (0 .. MaxSteps) \X (0 .. MaxTokens)]
Empty == [i \in Rows |-> Zero]

(* buf[:n].copy_(src[:n]) *)
CopyRows(buf, src, n) == [i \in Rows |-> IF i <= n THEN src[i] ELSE buf[i]]

Op(name, l) == [op |-> name, step |-> step, n |-> num_tokens, layer |-> l]

-----------------------------------------------------------------------------

Init ==
  /\ pc = "idle" /\ layer = 1 /\ step = 0 /\ num_tokens = 0
  /\ bound = FALSE
  /\ stream = <<>>
  /\ input_ids = 0
  /\ hashes = Empty /\ hash_host = Empty
  /\ hashes_ready = [recorded |-> 0, reached |-> 0]
  /\ rows = Empty
  /\ rows_host = [l \in Layers |-> Empty]
  /\ staged_rows = [l \in Layers |-> Empty]
  /\ forward = [step |-> 0, n |-> 0, saw |-> [l \in Layers |-> Empty]]

buffers == <<input_ids, hashes, hash_host, rows, rows_host, staged_rows, forward>>

(* Profiling ends: the engine binds the KV cache.                          *)
BindKvCache ==
  /\ ~bound /\ pc = "idle"
  /\ bound' = TRUE
  /\ UNCHANGED <<pc, layer, step, num_tokens, stream, hashes_ready, buffers>>

(* The runner writes the inputs of the next step on the stream.            *)
Prepare(n) ==
  /\ pc = "idle" /\ step < MaxSteps
  /\ step' = step + 1
  /\ num_tokens' = n
  /\ stream' = Append(stream, [op |-> "inputs", step |-> step + 1, n |-> n,
                               layer |-> 0])
  /\ pc' = "stage"
  /\ UNCHANGED <<layer, bound, hashes_ready, buffers>>

\* Fault: the event is recorded before the hashes are copied to the host.
StageRecordsFirst ==
  /\ pc = "stage"
  /\ IF num_tokens = 0 \/ ~bound
     THEN pc' = "launch" /\ UNCHANGED <<stream, hashes_ready>>
     ELSE /\ stream' = stream \o <<Op("hash", 0), Op("event", 0), Op("d2h", 0)>>
          /\ hashes_ready' = [hashes_ready EXCEPT !.recorded = step]
          /\ pc' = "synchronize"
  /\ UNCHANGED <<layer, step, num_tokens, bound, buffers>>

\* Fault: the wait is for the event of the next step.
StageRecordsNext ==
  /\ pc = "stage"
  /\ IF num_tokens = 0 \/ ~bound
     THEN pc' = "launch" /\ UNCHANGED <<stream, hashes_ready>>
     ELSE /\ stream' = stream \o <<Op("hash", 0), Op("d2h", 0), Op("event", 0)>>
          /\ hashes_ready' = [hashes_ready EXCEPT !.recorded = step + 1]
          /\ pc' = "synchronize"
  /\ UNCHANGED <<layer, step, num_tokens, bound, buffers>>

\* Fault: the event is recorded on another step's stream and never reached.
StageForgetsRecord ==
  /\ pc = "stage"
  /\ IF num_tokens = 0 \/ ~bound
     THEN pc' = "launch" /\ UNCHANGED <<stream, hashes_ready>>
     ELSE /\ stream' = stream \o <<Op("hash", 0), Op("d2h", 0)>>
          /\ hashes_ready' = [hashes_ready EXCEPT !.recorded = step]
          /\ pc' = "synchronize"
  /\ UNCHANGED <<layer, step, num_tokens, bound, buffers>>

(* stage, up to the wait: nothing for an empty step or an unbound cache,   *)
(* else hash on the device, copy to pinned memory, record the event.       *)
StageHashes ==
  /\ pc = "stage"
  /\ IF num_tokens = 0 \/ ~bound
     THEN pc' = "launch" /\ UNCHANGED <<stream, hashes_ready>>
     ELSE /\ stream' = stream \o <<Op("hash", 0), Op("d2h", 0), Op("event", 0)>>
          /\ hashes_ready' = [hashes_ready EXCEPT !.recorded = step]
          /\ pc' = "synchronize"
  /\ UNCHANGED <<layer, step, num_tokens, bound, buffers>>

\* Fault: the host does not wait for the event.
SynchronizeSkipped ==
  /\ pc = "synchronize"
  /\ pc' = "read"
  /\ UNCHANGED <<layer, step, num_tokens, bound, stream, hashes_ready, buffers>>

(* hashes_ready.synchronize() *)
Synchronize ==
  /\ pc = "synchronize"
  /\ hashes_ready.reached = hashes_ready.recorded
  /\ pc' = "read"
  /\ UNCHANGED <<layer, step, num_tokens, bound, stream, hashes_ready, buffers>>

(* gather_dequant_many: the rows the hashes on the host select.            *)
ReadRows ==
  /\ pc = "read"
  /\ rows' = hash_host
  /\ pc' = "copy" /\ layer' = 1
  /\ UNCHANGED <<step, num_tokens, bound, stream, hashes_ready, input_ids,
                 hashes, hash_host, rows_host, staged_rows, forward>>

(* A short read raises out of stage, and the worker stops.                 *)
ReadFails ==
  /\ pc = "read"
  /\ pc' = "failed"
  /\ UNCHANGED <<layer, step, num_tokens, bound, stream, hashes_ready, buffers>>

\* Fault: the pinned buffer gets one row too few.
CopyLayerOneShort ==
  /\ pc = "copy"
  /\ rows_host' = [rows_host EXCEPT ![layer] = CopyRows(@, rows, num_tokens - 1)]
  /\ stream' = Append(stream, Op("h2d", layer))
  /\ IF layer < NumLayers THEN layer' = layer + 1 /\ pc' = pc
     ELSE layer' = layer /\ pc' = "launch"
  /\ UNCHANGED <<step, num_tokens, bound, hashes_ready, input_ids, hashes,
                 hash_host, rows, staged_rows, forward>>

(* One turn of the last loop: rewrite the pinned buffer of a layer on the  *)
(* host, enqueue its copy.                                                 *)
CopyLayer ==
  /\ pc = "copy"
  /\ rows_host' = [rows_host EXCEPT ![layer] = CopyRows(@, rows, num_tokens)]
  /\ stream' = Append(stream, Op("h2d", layer))
  /\ IF layer < NumLayers THEN layer' = layer + 1 /\ pc' = pc
     ELSE layer' = layer /\ pc' = "launch"
  /\ UNCHANGED <<step, num_tokens, bound, hashes_ready, input_ids, hashes,
                 hash_host, rows, staged_rows, forward>>

(* The runner launches the forward and goes on without waiting for it.     *)
(* The forward skips engram when nothing was staged.                       *)
Launch ==
  /\ pc = "launch"
  /\ stream' = IF num_tokens = 0 \/ ~bound THEN stream
               ELSE Append(stream, Op("forward", 0))
  /\ pc' = "idle"
  /\ UNCHANGED <<layer, step, num_tokens, bound, hashes_ready, buffers>>

-----------------------------------------------------------------------------

(* What the device does for operation o, the head of the stream.           *)
GpuStep ==
  /\ stream # <<>>
  /\ LET o == Head(stream) IN
     /\ input_ids' = IF o.op = "inputs" THEN o.step ELSE input_ids
     /\ hashes' = IF o.op = "hash"
                  THEN [i \in Rows |-> IF i <= o.n THEN <<input_ids, i>> ELSE Zero]
                  ELSE hashes
     /\ hash_host' = IF o.op = "d2h" THEN CopyRows(hash_host, hashes, o.n)
                     ELSE hash_host
     /\ hashes_ready' = IF o.op = "event"
                        THEN [hashes_ready EXCEPT !.reached = o.step]
                        ELSE hashes_ready
     /\ staged_rows' = IF o.op = "h2d"
                       THEN [staged_rows EXCEPT ![o.layer] =
                               CopyRows(@, rows_host[o.layer], o.n)]
                       ELSE staged_rows
     /\ forward' = IF o.op = "forward"
                   THEN [step |-> o.step, n |-> o.n, saw |-> staged_rows]
                   ELSE forward
  /\ stream' = Tail(stream)
  /\ UNCHANGED <<pc, layer, step, num_tokens, bound, rows, rows_host>>

Host ==
  \/ \E n \in 0 .. MaxTokens : Prepare(n)
  \/ BindKvCache \/ StageHashes \/ Synchronize \/ ReadRows \/ ReadFails
  \/ CopyLayer \/ Launch

Next == Host \/ GpuStep

(* The device keeps executing and the host keeps running what it has       *)
(* begun; nothing obliges the runner to start a step or a disk to fail.    *)
Fairness ==
  /\ WF_vars(GpuStep)
  /\ WF_vars(StageHashes) /\ WF_vars(Synchronize) /\ WF_vars(ReadRows)
  /\ WF_vars(CopyLayer) /\ WF_vars(Launch)

Spec == Init /\ [][Next]_vars /\ Fairness

-----------------------------------------------------------------------------

Operations ==
  [op : {"inputs", "hash", "d2h", "event", "h2d", "forward"}, step : 1 .. MaxSteps,
   n : 0 .. MaxTokens, layer : 0 .. NumLayers]

TypeOK ==
  /\ pc \in {"idle", "stage", "synchronize", "read", "copy", "launch", "failed"}
  /\ layer \in Layers
  /\ step \in 0 .. MaxSteps /\ num_tokens \in 0 .. MaxTokens
  /\ bound \in BOOLEAN
  /\ stream \in Seq(Operations)
  /\ input_ids \in 0 .. MaxSteps
  /\ hashes \in Buffer /\ hash_host \in Buffer /\ rows \in Buffer
  /\ hashes_ready \in [recorded : 0 .. MaxSteps, reached : 0 .. MaxSteps]
  /\ rows_host \in [Layers -> Buffer] /\ staged_rows \in [Layers -> Buffer]
  /\ forward \in [step : 0 .. MaxSteps, n : 0 .. MaxTokens, saw : [Layers -> Buffer]]

(* Every forward reads, in every layer, the rows of its own step, although *)
(* the host may be a step ahead and rewrites the buffers they came through.*)
ForwardReadsOwnStep ==
  \A l \in Layers : \A i \in 1 .. forward.n : forward.saw[l][i] = <<forward.step, i>>

(* The host reads disk rows for the hashes of the step it stages, not for  *)
(* ones the previous step left in the pinned buffer.                       *)
HashesAreCurrent ==
  pc = "read" => \A i \in 1 .. num_tokens : hash_host[i] = <<step, i>>

(* "It also orders this step's rewrite of the pinned buffers after the     *)
(* previous step's async H2D copies": a pinned buffer is never written by  *)
(* the host while an enqueued copy still has to read it.                   *)
PinnedBuffersQuiescent ==
  [][\A l \in Layers : rows_host'[l] # rows_host[l] =>
       \A k \in DOMAIN stream : ~(stream[k].op = "h2d" /\ stream[k].layer = l)]_vars

(* The one host sync always returns: a step the host began to stage is     *)
(* launched or fails on its disk read, never waits for ever.               *)
StagingEnds == pc = "stage" ~> pc \in {"idle", "failed"}

=============================================================================
