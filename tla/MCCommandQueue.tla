--------------------------- MODULE MCCommandQueue ---------------------------
(***************************************************************************)
(* The staff command queue on small instances: the commands, and the       *)
(* troubles each run allows.                                               *)
(***************************************************************************)
EXTENDS CommandQueue, TLC

(* Neither the commands' ids nor the people are told apart by the code.     *)
AnyIdAnyPerson == Permutations(Ids) \union Permutations(Staff)

Calm == [k \in TroubleKinds |-> 0]

(* A shared tablet on bad wifi: it changes hands while an answer goes       *)
(* missing, another tablet moves the same table, an order is refused, a     *)
(* token runs out on the way.                                               *)
SharedTablet ==
   [Calm EXCEPT !["giveUp"] = 1, !["lock"] = 1, !["elsewhere"] = 1, !["expired"] = 1]

(* The page is reloaded and the connection lost, with an answer missing.    *)
ReloadedTablet ==
   [Calm EXCEPT !["crash"] = 1, !["offline"] = 1, !["giveUp"] = 1]

LostAnswer == [Calm EXCEPT !["giveUp"] = 1]
=============================================================================
