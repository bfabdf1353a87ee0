---------------------------- MODULE MCChatStore ----------------------------
(* ChatStore on a small instance: conversations, questions and calls are     *)
(* only ever compared for equality.                                        *)
EXTENDS ChatStore, TLC

Symmetry == Permutations(Convs) \cup Permutations(Requests) \cup Permutations(Calls)
=============================================================================
