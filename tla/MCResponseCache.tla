-------------------------- MODULE MCResponseCache --------------------------
(* ResponseCache on a small instance.  Requests, coroutines, queries and      *)
(* modes are only ever compared for equality.                              *)
EXTENDS ResponseCache, TLC

Symmetry == Permutations(Requests) \cup Permutations(Admins)
                \cup Permutations(Queries) \cup Permutations(Modes)
=============================================================================
