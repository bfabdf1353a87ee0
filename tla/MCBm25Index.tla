---------------------------- MODULE MCBm25Index ----------------------------
(* Bm25Index on a small instance.  Documents of one source_type are          *)
(* interchangeable, as are coroutines and searchers.                        *)
EXTENDS Bm25Index, TLC

Symmetry == Permutations(Coroutines) \cup Permutations(Searchers)
                \cup Permutations(Official) \cup Permutations(Docs \ Official)
=============================================================================
