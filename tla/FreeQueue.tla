------------------------------ MODULE FreeQueue ------------------------------
(***************************************************************************)
(* What the free list of KV-cache blocks promises to the block pool that   *)
(* uses it: the free blocks stand in a queue in eviction order, a caller   *)
(* takes blocks from the front or a named block from anywhere, and gives   *)
(* back blocks it holds at the back (least recently used order) or at the  *)
(* front (evict next).  Module FreeBlockQueue implements it with links.    *)
(***************************************************************************)
EXTENDS Integers, SequencesExt

CONSTANT NumBlocks       \* len(blocks), the number of KV-cache blocks

VARIABLES
  queue,                 \* the free blocks, the next to evict first
  held,                  \* the blocks some caller has taken and not given back
  call                   \* the last call: what it was and the list of blocks it
                         \* returned or was handed

vars == <<queue, held, call>>

(* A block is named by its block_id, 0 .. num_gpu_blocks - 1. *)
Blocks == 0 .. NumBlocks - 1

Distinct(s) == \A i, j \in DOMAIN s : s[i] = s[j] => i = j

Did(op, s) == call' = [op |-> op, blocks |-> s]

(* The duplicate-free lists of blocks: every list a caller may hand over,  *)
(* and every order the free list can be in.                                *)
BlockLists ==
  UNION {{s \in [1 .. n -> Blocks] : Distinct(s)} : n \in 0 .. NumBlocks}

-----------------------------------------------------------------------------

Init ==
  /\ queue = [i \in 1 .. NumBlocks |-> i - 1]
  /\ held = {}
  /\ call = [op |-> "init", blocks |-> <<>>]

TakeFront(n) ==
  /\ n \in 1 .. Len(queue)
  /\ Did("take", SubSeq(queue, 1, n))
  /\ queue' = SubSeq(queue, n + 1, Len(queue))
  /\ held' = held \cup {queue[i] : i \in 1 .. n}

Take(i) ==
  /\ i \in DOMAIN queue
  /\ Did("take", <<queue[i]>>)
  /\ queue' = RemoveAt(queue, i)
  /\ held' = held \cup {queue[i]}

GiveBack(s) ==
  /\ s # <<>> /\ Range(s) \subseteq held
  /\ Did("give back", s)
  /\ queue' = queue \o s
  /\ held' = held \ Range(s)

GiveFront(s) ==
  /\ s # <<>> /\ Range(s) \subseteq held
  /\ Did("give front", s)
  /\ queue' = s \o queue
  /\ held' = held \ Range(s)

Next ==
  \/ \E n \in 1 .. NumBlocks : TakeFront(n)
  \/ \E i \in 1 .. NumBlocks : Take(i)
  \/ \E s \in BlockLists : GiveBack(s) \/ GiveFront(s)

Spec == Init /\ [][Next]_vars

=============================================================================
