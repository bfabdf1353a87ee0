-------------------------- MODULE MCKnowledgeBase --------------------------
(* KnowledgeBase on a small instance: documents and coroutines are           *)
(* interchangeable, so TLC may explore one of each permutation.              *)
EXTENDS KnowledgeBase, TLC

Symmetry == Permutations(Docs) \cup Permutations(Slots)
=============================================================================
