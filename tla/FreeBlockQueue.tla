--------------------------- MODULE FreeBlockQueue ---------------------------
(***************************************************************************)
(* FreeKVCacheBlockQueue of patches/kvgroup/kv_cache_utils.py: the free    *)
(* KV-cache blocks in a doubly linked list threaded through the blocks     *)
(* themselves, between a fake head and a fake tail, with a separate count, *)
(* and the generator iter_blocks_after that callers resume between other   *)
(* calls.  A call that the code rejects with an exception changes nothing  *)
(* and is not a step; InternalErrorsUnreachable says that no legal call is *)
(* rejected.                                                               *)
(***************************************************************************)
EXTENDS Integers, SequencesExt

CONSTANT NumBlocks       \* len(blocks)

ASSUME NumBlocksNat == NumBlocks \in Nat

VARIABLES
  prev_free_block,       \* the link of each block, and of the two fakes
  next_free_block,
  num_free_blocks,
  held,                  \* blocks a caller has popped or removed and still owns
  iter,                  \* the live generator of iter_blocks_after, if any
  call                   \* history: the last call that changed the list, with
                         \* the list of blocks it returned or was handed; no
                         \* action reads it

vars == <<prev_free_block, next_free_block, num_free_blocks, held, iter, call>>
list == <<prev_free_block, next_free_block, num_free_blocks, held, call>>

Blocks == 0 .. NumBlocks - 1
FakeHead == -1           \* both fakes have block_id -1 in the code; the code
FakeTail == -2           \* tells them apart by identity, as here
None == -3
Nodes == Blocks \cup {FakeHead, FakeTail}

Distinct(s) == \A i, j \in DOMAIN s : s[i] = s[j] => i = j

BlockLists ==
  UNION {{s \in [1 .. n -> Blocks] : Distinct(s)} : n \in 0 .. NumBlocks}

(* The i-th node of the line FakeHead, s[1], .., s[Len(s)], FakeTail.      *)
Node(s, i) ==
  IF i = 0 THEN FakeHead ELSE IF i = Len(s) + 1 THEN FakeTail ELSE s[i]

(* The links spell exactly the line of s, in both directions, and a block  *)
(* that is not on the line has no links.                                   *)
Chained(s) ==
  /\ \A i \in 0 .. Len(s) : /\ next_free_block[Node(s, i)] = Node(s, i + 1)
                            /\ prev_free_block[Node(s, i + 1)] = Node(s, i)
  /\ \A x \in Blocks \ Range(s) : /\ next_free_block[x] = None
                                  /\ prev_free_block[x] = None
  /\ prev_free_block[FakeHead] = None
  /\ next_free_block[FakeTail] = None

(* get_all_free_blocks: the blocks met from the fake head on.              *)
GetAllFreeBlocks == CHOOSE s \in BlockLists : Chained(s)

NoIteration == [phase |-> "idle", at |-> None]

-----------------------------------------------------------------------------

(* __init__: consecutive blocks are linked in block_id order; FakeHead     *)
(* stands just before block 0, and is the last node when there is no block.*)
Init ==
  /\ next_free_block =
       [x \in Nodes |->
          IF x = FakeTail THEN None
          ELSE IF x = NumBlocks - 1 THEN FakeTail ELSE x + 1]
  /\ prev_free_block =
       [x \in Nodes |->
          IF x = FakeHead THEN None
          ELSE IF x = FakeTail THEN NumBlocks - 1 ELSE x - 1]
  /\ num_free_blocks = NumBlocks
  /\ held = {}
  /\ iter = NoIteration
  /\ call = [op |-> "init", blocks |-> <<>>]

Did(op, s) == call' = [op |-> op, blocks |-> s]

PopLeft ==
  LET first == next_free_block[FakeHead]
      second == next_free_block[first] IN
  /\ first \notin {FakeTail, None}
  /\ second # None
  /\ next_free_block' =
       [next_free_block EXCEPT ![FakeHead] = second, ![first] = None]
  /\ prev_free_block' =
       [prev_free_block EXCEPT ![second] = FakeHead, ![first] = None]
  /\ num_free_blocks' = num_free_blocks - 1
  /\ held' = held \cup {first}
  /\ Did("take", <<first>>)
  /\ UNCHANGED iter

(* popleft_n walks n blocks from the fake head: w is the walk, and the     *)
(* block after it becomes the first one.                                   *)
IsWalk(w) == \A i \in DOMAIN w : w[i] = IF i = 1 THEN next_free_block[FakeHead]
                                        ELSE next_free_block[w[i - 1]]

\* Fault: the new first block still points back at a popped block.
PopLeftNStaleBackLink(n) ==
  /\ n \in 1 .. num_free_blocks
  /\ \E w \in {s \in BlockLists : Len(s) = n} :
       /\ IsWalk(w)
       /\ next_free_block' =
            [x \in Nodes |-> IF x \in Range(w) THEN None
                             ELSE IF x = FakeHead THEN next_free_block[w[n]]
                             ELSE next_free_block[x]]
       /\ prev_free_block' =
            [x \in Nodes |-> IF x \in Range(w) THEN None ELSE prev_free_block[x]]
       /\ held' = held \cup Range(w)
       /\ Did("take", w)
  /\ num_free_blocks' = num_free_blocks - n
  /\ UNCHANGED iter

PopLeftN(n) ==
  /\ n \in 1 .. num_free_blocks
  /\ \E w \in {s \in BlockLists : Len(s) = n} :
       LET curr == next_free_block[w[n]] IN
       /\ IsWalk(w)
       /\ next_free_block' =
            [x \in Nodes |-> IF x \in Range(w) THEN None
                             ELSE IF x = FakeHead /\ curr # None THEN curr
                             ELSE next_free_block[x]]
       /\ prev_free_block' =
            [x \in Nodes |-> IF x \in Range(w) THEN None
                             ELSE IF x = curr THEN FakeHead
                             ELSE prev_free_block[x]]
       /\ held' = held \cup Range(w)
       /\ Did("take", w)
  /\ num_free_blocks' = num_free_blocks - n
  /\ UNCHANGED iter

\* Fault: the block taken from the middle is still counted as free.
RemoveUncounted(b) ==
  LET before == prev_free_block[b]
      after == next_free_block[b] IN
  /\ before # None /\ after # None
  /\ next_free_block' = [next_free_block EXCEPT ![before] = after, ![b] = None]
  /\ prev_free_block' = [prev_free_block EXCEPT ![after] = before, ![b] = None]
  /\ held' = held \cup {b}
  /\ Did("take", <<b>>)
  /\ UNCHANGED <<num_free_blocks, iter>>

\* Fault: the removed block keeps its own links.
RemoveKeepsLinks(b) ==
  LET before == prev_free_block[b]
      after == next_free_block[b] IN
  /\ before # None /\ after # None /\ b \notin held
  /\ next_free_block' = [next_free_block EXCEPT ![before] = after]
  /\ prev_free_block' = [prev_free_block EXCEPT ![after] = before]
  /\ num_free_blocks' = num_free_blocks - 1
  /\ held' = held \cup {b}
  /\ Did("take", <<b>>)
  /\ UNCHANGED iter

(* remove raises on a block that lacks a link, so only linked blocks go.   *)
RemoveBlock(b) ==
  LET before == prev_free_block[b]
      after == next_free_block[b] IN
  /\ before # None /\ after # None
  /\ next_free_block' = [next_free_block EXCEPT ![before] = after, ![b] = None]
  /\ prev_free_block' = [prev_free_block EXCEPT ![after] = before, ![b] = None]
  /\ num_free_blocks' = num_free_blocks - 1
  /\ held' = held \cup {b}
  /\ Did("take", <<b>>)
  /\ UNCHANGED iter

-----------------------------------------------------------------------------

Append1(b) ==
  LET last == prev_free_block[FakeTail] IN
  /\ b \in held
  /\ last # None
  /\ next_free_block' = [next_free_block EXCEPT ![last] = b, ![b] = FakeTail]
  /\ prev_free_block' = [prev_free_block EXCEPT ![b] = last, ![FakeTail] = b]
  /\ num_free_blocks' = num_free_blocks + 1
  /\ held' = held \ {b}
  /\ Did("give back", <<b>>)
  /\ UNCHANGED iter

(* The two loops that thread the blocks of s between left and right.       *)
Thread(left, s, right) ==
  LET line == <<left>> \o s \o <<right>>
      at(x) == CHOOSE i \in DOMAIN s : s[i] = x IN
  /\ next_free_block' =
       [x \in Nodes |-> IF x = left THEN line[2]
                        ELSE IF x \in Range(s) THEN line[at(x) + 2]
                        ELSE next_free_block[x]]
  /\ prev_free_block' =
       [x \in Nodes |-> IF x = right THEN line[Len(line) - 1]
                        ELSE IF x \in Range(s) THEN line[at(x)]
                        ELSE prev_free_block[x]]
  /\ num_free_blocks' = num_free_blocks + Len(s)
  /\ held' = held \ Range(s)
  /\ UNCHANGED iter

\* Fault: the loop runs over the list of the other direction.
PrependNReversed(s) ==
  /\ s # <<>> /\ Range(s) \subseteq held
  /\ Thread(FakeHead, Reverse(s), next_free_block[FakeHead])
  /\ Did("give front", s)

PrependN(s) ==
  /\ s # <<>> /\ Range(s) \subseteq held
  /\ next_free_block[FakeHead] # None
  /\ Thread(FakeHead, s, next_free_block[FakeHead])
  /\ Did("give front", s)

\* Fault: the fake tail is not pointed back at the last new block.
AppendNForgetsTail(s) ==
  LET last == prev_free_block[FakeTail]
      at(x) == CHOOSE i \in DOMAIN s : s[i] = x IN
  /\ s # <<>> /\ Range(s) \subseteq held /\ last # None
  /\ next_free_block' =
       [x \in Nodes |-> IF x = last THEN s[1]
                        ELSE IF x \in Range(s) THEN Append(s, FakeTail)[at(x) + 1]
                        ELSE next_free_block[x]]
  /\ prev_free_block' =
       [x \in Nodes |-> IF x \in Range(s) THEN (<<last>> \o s)[at(x)]
                        ELSE prev_free_block[x]]
  /\ num_free_blocks' = num_free_blocks + Len(s)
  /\ held' = held \ Range(s)
  /\ Did("give back", s)
  /\ UNCHANGED iter

AppendN(s) ==
  /\ s # <<>> /\ Range(s) \subseteq held
  /\ prev_free_block[FakeTail] # None
  /\ Thread(prev_free_block[FakeTail], s, FakeTail)
  /\ Did("give back", s)

-----------------------------------------------------------------------------

(* Calling iter_blocks_after only makes the generator: its first line runs *)
(* at the first resumption.  cursor None starts from the fake head.        *)
IterCreate(cursor) ==
  /\ iter.phase = "idle"
  /\ iter' = [phase |-> "created", at |-> cursor]
  /\ UNCHANGED list

(* One resumption: follow the link the current block has NOW, which other  *)
(* calls may have changed or cleared since the last yield.                 *)
IterResume ==
  LET curr == next_free_block[iter.at] IN
  /\ iter.phase # "idle"
  /\ iter' = IF curr \in {None, FakeTail} THEN NoIteration
             ELSE [phase |-> "suspended", at |-> curr]
  /\ UNCHANGED list

(* The caller drops the generator.                                         *)
IterClose ==
  /\ iter.phase # "idle"
  /\ iter' = NoIteration
  /\ UNCHANGED list

Next ==
  \/ PopLeft
  \/ \E n \in 1 .. NumBlocks : PopLeftN(n)
  \/ \E b \in Blocks : RemoveBlock(b) \/ Append1(b)
  \/ \E s \in BlockLists : PrependN(s) \/ AppendN(s)
  \/ \E cursor \in Blocks \cup {FakeHead} : IterCreate(cursor)
  \/ IterResume
  \/ IterClose

Spec == Init /\ [][Next]_vars

-----------------------------------------------------------------------------

TypeOK ==
  /\ prev_free_block \in [Nodes -> Nodes \cup {None}]
  /\ next_free_block \in [Nodes -> Nodes \cup {None}]
  /\ num_free_blocks \in 0 .. NumBlocks
  /\ held \subseteq Blocks
  /\ iter \in {NoIteration} \cup [phase : {"created", "suspended"},
                                 at : Blocks \cup {FakeHead}]
  /\ call \in [op : {"init", "take", "give back", "give front"}, blocks : BlockLists]

(* call is written and never read, so states that differ only in it are    *)
(* explored once; action and refinement properties still see every step.   *)
StateView == <<prev_free_block, next_free_block, num_free_blocks, held, iter>>

(* The links are one well-formed list through exactly the blocks nobody    *)
(* holds, no block twice, and num_free_blocks is its length ("out of sync  *)
(* with the free list" cannot happen).                                     *)
FreeListOK ==
  \E s \in BlockLists :
    /\ Chained(s)
    /\ held = Blocks \ Range(s)
    /\ num_free_blocks = Len(s)

(* No assertion and no RuntimeError of the class can fire for a legal      *)
(* call: an empty list has count 0, a free block has both links, the fakes *)
(* keep theirs, and every count of blocks that popleft_n accepts can be    *)
(* walked without meeting None.                                            *)
InternalErrorsUnreachable ==
  /\ next_free_block[FakeHead] \in {FakeTail, None} => num_free_blocks = 0
  /\ next_free_block[FakeHead] # None /\ prev_free_block[FakeTail] # None
  /\ \A b \in Blocks \ held : prev_free_block[b] # None /\ next_free_block[b] # None
  /\ \A b \in held : prev_free_block[b] = None /\ next_free_block[b] = None
  /\ \A n \in 1 .. num_free_blocks :
       \E w \in BlockLists : Len(w) = n /\ IsWalk(w)

(* However pops, removals and returns interleave with a suspended          *)
(* generator, what it yields next is a block that is free at that moment:  *)
(* never a held block, never a fake, even if the block it stood on was     *)
(* popped, removed or returned in between.                                 *)
IterYieldsFree ==
  [][iter'.phase = "suspended" /\ iter' # iter
       => iter'.at \in Blocks \ held]_vars

(* The linked list implements the queue of FreeQueue, read back with       *)
(* get_all_free_blocks: the same blocks in the same eviction order after   *)
(* every call, the same blocks handed out.                                 *)
Abs == INSTANCE FreeQueue WITH queue <- GetAllFreeBlocks
ImplementsFreeQueue == Abs!Spec

=============================================================================
