------------------------------ MODULE PrefixHash ------------------------------
(***************************************************************************)
(* Prefix-cache block hashes (patches/kvgroup/kv_cache_utils.py).  A       *)
(* request keeps the hashes of its full blocks; the hasher runs when it    *)
(* arrives and whenever tokens are appended, and hashes only the blocks    *)
(* that are new.  A block hash chains over its parent, the tokens of the   *)
(* block and extra keys: LoRA, multi-modal items, salt, prompt embeddings. *)
(*                                                                         *)
(* A hash is modelled by what is hashed: the function is collision-free.   *)
(* No adapter has the name of a salt: the two are strings in one list.     *)
(* Scheduler and block pool are vLLM: a hit is an equal hash.              *)
(***************************************************************************)
EXTENDS Integers, SequencesExt

CONSTANTS
  Requests,
  Prompts,               \* [tokens, mm_features, lora, salt, embeds]: the items
                         \* [identifier, offset, length] sorted by offset
  Generated,             \* token ids a model samples
  hash_block_size,
  TargetSizes,           \* block sizes of the cache groups
  MaxLen,                \* bound: tokens of a request
  MaxNew                 \* bound: tokens appended at once

SizesOK == /\ hash_block_size \in Nat \ {0}
           /\ \A size \in TargetSizes : size \in Nat \ {0} /\ size % hash_block_size = 0

(* Items lie one behind the other in the prompt, and what an identifier    *)
(* stands for has one length; no adapter has the name of a salt.           *)
PromptOK(p) ==
  LET ends(i) == p.mm_features[i].offset + p.mm_features[i].length IN
  /\ p.tokens \in Seq(Nat) \ {<<>>} /\ Len(p.tokens) <= MaxLen
  /\ p.mm_features \in Seq(Range(p.mm_features))
  /\ \A i \in DOMAIN p.mm_features :
       /\ p.mm_features[i].offset \in Nat /\ p.mm_features[i].length \in Nat \ {0}
       /\ ends(i) <= Len(p.tokens)
       /\ \A j \in DOMAIN p.mm_features : i < j => ends(i) <= p.mm_features[j].offset
  /\ p.embeds \in Seq(STRING \ {""})

PromptsOK ==
  /\ MaxLen \in Nat /\ MaxNew \in Nat /\ Generated \subseteq Nat
  /\ \A p \in Prompts : PromptOK(p)
  /\ {p.lora : p \in Prompts} \cap {p.salt : p \in Prompts} \subseteq {""}
  /\ \A p, q \in Prompts : \A i \in DOMAIN p.mm_features, j \in DOMAIN q.mm_features :
       p.mm_features[i].identifier = q.mm_features[j].identifier
         => p.mm_features[i].length = q.mm_features[j].length

(* What "only one mm input" at FirstItem takes for granted: of the items   *)
(* of a prompt that fills a block, the last alone may reach past its full  *)
(* blocks.  The run on two images in a tail has prompts without it.        *)
OneItemInTail ==
  \A p \in Prompts : LET full == (Len(p.tokens) \div hash_block_size) * hash_block_size IN
    full # 0 => \A i \in 1 .. Len(p.mm_features) - 1 :
                  p.mm_features[i].offset + p.mm_features[i].length <= full

ASSUME HashSizes == SizesOK
ASSUME HashInputs == PromptsOK

VARIABLES
  request,               \* the prompt a request came with
  all_token_ids,
  block_hashes

hashVars == <<request, all_token_ids, block_hashes>>

NONE_HASH == <<>>
NoPrompt == [tokens |-> <<>>, mm_features |-> <<>>, lora |-> "", salt |-> "",
             embeds |-> <<>>]
Smaller(a, b) == IF a < b THEN a ELSE b

-----------------------------------------------------------------------------
(* Extra keys of the block [start, end); offsets count from 0.             *)

\* Fault: the place of the item in the block is not part of its key.
MmKeyNoOffset(item, start) == <<"item", item.identifier>>

(* Keys are strings, pairs or bytes: values of different kinds differ.     *)
MmKey(item, start) == <<"item", item.identifier, item.offset - start>>
StrKeys(s) == IF s = "" THEN <<>> ELSE <<<<"str", s>>>>

(* _gen_mm_extra_hash_keys: from item idx on (-1: the last), past those    *)
(* that ended before the block, up to the first that does not end in it.   *)
MmExtraHashKeys(req, start, end, idx) ==
  LET items == req.mm_features
      first == IF idx = -1 THEN Len(items) ELSE idx
      ends(i) == items[i].offset + items[i].length
      from == Min({i \in first .. Len(items) : start < ends(i)} \cup {Len(items) + 1})
      stop == Min({i \in first .. Len(items) : end < ends(i)} \cup {Len(items) + 1})
      last == IF stop \in DOMAIN items /\ items[stop].offset < end THEN stop ELSE stop - 1
  IN IF items = <<>> \/ ends(Len(items)) <= start
     THEN [keys |-> <<>>, idx |-> idx]
     ELSE [keys |-> [k \in 1 .. last - from + 1 |-> MmKey(items[from + k - 1], start)],
           idx |-> stop]

(* generate_block_hash_extra_keys: one list, in which only their order     *)
(* tells an adapter from a salt; the salt is in the first block alone; the *)
(* embeddings of the block, none past the prompt.                          *)
ExtraKeys(req, start, end, idx) ==
  LET mm == MmExtraHashKeys(req, start, end, idx)
      embeds == SubSeq(req.embeds, start + 1, Smaller(end, Len(req.embeds))) IN
  [keys |-> StrKeys(req.lora) \o mm.keys
            \o (IF start = 0 THEN StrKeys(req.salt) ELSE <<>>)
            \o (IF req.embeds = <<>> THEN <<>> ELSE <<<<"bytes", embeds>>>>),
   idx |-> mm.idx]

-----------------------------------------------------------------------------

\* Fault: a block that is not full is hashed with the tokens it has.
LastBlockPartial(tokens) == (Len(tokens) + hash_block_size - 1) \div hash_block_size

(* Only full blocks are hashed.                                            *)
LastBlock(tokens) == Len(tokens) \div hash_block_size

\* Fault: a later call takes every item to be behind it.
FirstItemNone(req, hashes) == IF Len(hashes) = 0 THEN 1 ELSE Len(req.mm_features) + 1

(* Where a call starts among the items: a later call at the last of them,  *)
(* "since we reach to this branch only when the block is completed with    *)
(* generated tokens".                                                      *)
FirstItem(req, hashes) == IF Len(hashes) = 0 THEN 1 ELSE -1

(* request_block_hasher: the hashes kept and those of the new blocks, each *)
(* with the item the next block starts at.                                 *)
BlockHasher(req, tokens, hashes) ==
  LET done == Len(hashes)
      block[k \in done .. LastBlock(tokens)] ==
        IF k = done
        THEN [hash |-> IF done = 0 THEN NONE_HASH ELSE hashes[done],
              idx |-> FirstItem(req, hashes)]
        ELSE LET start == (k - 1) * hash_block_size
                 end == k * hash_block_size
                 extra == ExtraKeys(req, start, end, block[k - 1].idx) IN
             [hash |-> <<block[k - 1].hash,
                         SubSeq(tokens, start + 1, Smaller(end, Len(tokens))), extra.keys>>,
              idx |-> extra.idx]
  IN [k \in 1 .. LastBlock(tokens) |-> IF k <= done THEN hashes[k] ELSE block[k].hash]

-----------------------------------------------------------------------------

HashInit ==
  /\ request = [r \in Requests |-> NoPrompt]
  /\ all_token_ids = [r \in Requests |-> <<>>]
  /\ block_hashes = [r \in Requests |-> <<>>]

Arrive(r) ==
  /\ request[r] = NoPrompt
  /\ \E prompt \in Prompts :
       /\ request' = [request EXCEPT ![r] = prompt]
       /\ all_token_ids' = [all_token_ids EXCEPT ![r] = prompt.tokens]
       /\ block_hashes' = [block_hashes EXCEPT ![r] =
                             BlockHasher(prompt, prompt.tokens, <<>>)]

(* Sampled and accepted draft tokens are appended, then hashed.            *)
AppendTokens(r) ==
  /\ request[r] # NoPrompt
  /\ \E new \in BoundedSeq(Generated, MaxNew) \ {<<>>} :
       LET tokens == all_token_ids[r] \o new IN
       /\ Len(tokens) <= MaxLen
       /\ all_token_ids' = [all_token_ids EXCEPT ![r] = tokens]
       /\ block_hashes' = [block_hashes EXCEPT ![r] =
                             BlockHasher(request[r], tokens, @)]
  /\ UNCHANGED request

HashNext == \E r \in Requests : Arrive(r) \/ AppendTokens(r)

HashSpec == HashInit /\ [][HashNext]_hashVars

-----------------------------------------------------------------------------
(* The view of a group with larger blocks: BlockHashListWithBlockSize.     *)

\* Fault: the first fine hash of a coarse block stands for it.
CoarseHashFirst(hashes, size, i) == hashes[(i - 1) * (size \div hash_block_size) + 1]

CoarseHash(hashes, size, i) == hashes[i * (size \div hash_block_size)]

ResolveBlockHashes(hashes, size) ==
  IF size = hash_block_size THEN hashes
  ELSE [i \in 1 .. Len(hashes) \div (size \div hash_block_size) |->
          CoarseHash(hashes, size, i)]

-----------------------------------------------------------------------------

HashTypeOK ==
  /\ request \in [Requests -> Prompts \cup {NoPrompt}]
  /\ \A r \in Requests :
       /\ Len(all_token_ids[r]) <= MaxLen
       /\ IsPrefix(request[r].tokens, all_token_ids[r])
       /\ Len(block_hashes[r]) * hash_block_size <= Len(all_token_ids[r])

(* What the keys and values of position p depend on besides those before:  *)
(* the token, or the item and the place in it that the position stands for.*)
At(r, p) ==
  LET items == request[r].mm_features
      over == {i \in DOMAIN items : /\ items[i].offset < p
                                    /\ p <= items[i].offset + items[i].length} IN
  <<all_token_ids[r][p], {<<items[i].identifier, p - items[i].offset>> : i \in over},
    IF p <= Len(request[r].embeds) THEN request[r].embeds[p] ELSE "">>

SamePrefix(r, q, n) ==
  /\ request[r].lora = request[q].lora /\ request[r].salt = request[q].salt
  /\ \A p \in 1 .. n : At(r, p) = At(q, p)

(* "each hash uniquely fingerprints the prefix ending at its boundary": of *)
(* two requests whose tokens were hashed at whatever times, blocks of one  *)
(* hash end one and the same prefix, images included.                      *)
HashesFingerprintPrefix ==
  \A r, q \in Requests :
    \A i \in DOMAIN block_hashes[r], j \in DOMAIN block_hashes[q] :
      block_hashes[r][i] = block_hashes[q][j] =>
        i = j /\ SamePrefix(r, q, i * hash_block_size)

(* The converse: a prefix that one request got by generating has the hashes*)
(* of one that arrives with it in the prompt, so that the next turn of a   *)
(* conversation hits.                                                      *)
SamePrefixHits ==
  \A r, q \in Requests :
    \A i \in DOMAIN block_hashes[r] \cap DOMAIN block_hashes[q] :
      SamePrefix(r, q, i * hash_block_size) => block_hashes[r][i] = block_hashes[q][i]

(* A group of larger blocks hits exactly the blocks whose whole prefix is  *)
(* shared, although it looks at a hash in every few.                       *)
CoarseHitsExact ==
  \A r, q \in Requests : \A size \in TargetSizes :
    LET a == ResolveBlockHashes(block_hashes[r], size)
        b == ResolveBlockHashes(block_hashes[q], size) IN
    \A i \in DOMAIN a \cap DOMAIN b : a[i] = b[i] <=> SamePrefix(r, q, i * size)

=============================================================================
