---------------------------- MODULE MCChatServing ----------------------------
(* Three requests with one query.  Interchangeable: in one conversation and *)
(* from three addresses, so that none is a duplicate.  Or from one address, *)
(* so that the later ones may be, two of them in one conversation.          *)
EXTENDS ChatServing, TLC

CONSTANTS r1, r2, r3, c1, c2, q1, ann

MCRequests == {r1, r2, r3}
MCQuery == [r \in MCRequests |-> q1]

OwnClient == [r \in MCRequests |-> r]
OneClient == [r \in MCRequests |-> ann]

OneConv == [r \in MCRequests |-> c1]
TwoConvs == (r1 :> c1) @@ (r2 :> c2) @@ (r3 :> c1)

\* An empty response, and a block whose message speaks of generating.
MCGeminiErrors == {{}, {"blocked", "rate"}}
NoErrors == {}

Symmetry == Permutations(MCRequests)
=============================================================================
