--------------------------- MODULE MCConversation ---------------------------
(* Small instances of Conversation for TLC.                                *)
EXTENDS Conversation

CallSymmetry == Permutations(Call)

=============================================================================
