--------------------------- MODULE MCConversation ---------------------------
(***************************************************************************)
(* Conversation with three events whose timestamps are a whole second, two *)
(* of its fractions, neither of which continues the other, and the next    *)
(* second.                                                                 *)
(***************************************************************************)
EXTENDS Conversation, TLC

Interchangeable == Permutations(Events)

=============================================================================
