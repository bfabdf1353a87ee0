-------------------------- MODULE MCConversations --------------------------
(* Conversations on a small instance: everything in it is interchangeable.  *)
EXTENDS Conversations, TLC

Symmetry == Permutations(Convs) \cup Permutations(Turns) \cup Permutations(Ratings)
=============================================================================
