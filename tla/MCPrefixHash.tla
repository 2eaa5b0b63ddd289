---- MODULE MCPrefixHash ----
(***************************************************************************)
(* PrefixHash for TLC.  Token 9 is the placeholder of images, 0 and 1 are  *)
(* text; blocks have two tokens.                                           *)
(***************************************************************************)
EXTENDS PrefixHash

Text(tokens) == [NoPrompt EXCEPT !.tokens = tokens]
Item(id, offset, length) == [identifier |-> id, offset |-> offset, length |-> length]
Images(tokens, items) == [Text(tokens) EXCEPT !.mm_features = items]

(* An image that ends in a block the prompt does not fill, two in a full   *)
(* block, one placed differently among the same tokens, a text that goes   *)
(* on as another request generates, an adapter, a salt and embeddings.     *)
MCPrompts ==
  {Text(<<0>>), Text(<<0, 1, 0, 1>>),
   [Text(<<0, 1>>) EXCEPT !.lora = "lora"], [Text(<<0, 1, 0>>) EXCEPT !.salt = "salt"],
   [Text(<<0, 0, 0>>) EXCEPT !.embeds = <<"x", "y", "x">>],
   [Text(<<0, 0, 0>>) EXCEPT !.embeds = <<"x", "y", "y">>],
   Images(<<0, 9, 9>>, <<Item("cat", 1, 2)>>),
   Images(<<0, 9, 9, 1>>, <<Item("cat", 1, 2)>>),
   Images(<<0, 9, 9>>, <<Item("dog", 1, 2)>>),
   Images(<<0, 0, 9, 9>>, <<Item("kit", 2, 1)>>),
   Images(<<0, 0, 9, 9>>, <<Item("kit", 3, 1)>>),
   Images(<<9, 9, 0, 9>>, <<Item("kit", 0, 1), Item("pup", 1, 1), Item("kit", 3, 1)>>),
   Images(<<9, 9, 0>>, <<Item("pup", 0, 1), Item("kit", 1, 1)>>),
   Images(<<0, 1, 9, 9, 9>>, <<Item("cat", 2, 2), Item("pup", 4, 1)>>)}

(* Blocks of three: two images in a block that the prompt does not fill.   *)
MCTwoInTail ==
  {Images(<<0, 0, 0, 9, 9>>, <<Item("kit", 3, 1), Item("pup", 4, 1)>>),
   Images(<<0, 0, 0, 9, 9>>, <<Item("pup", 3, 1), Item("pup", 4, 1)>>),
   Images(<<0, 0, 0, 9>>, <<Item("kit", 3, 1)>>),
   Images(<<0, 0, 0, 9>>, <<Item("pup", 3, 1)>>)}

ASSUME MCOneItemInTail == Prompts = MCTwoInTail <=> ~OneItemInTail
====
