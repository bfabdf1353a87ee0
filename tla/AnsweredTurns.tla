---------------------------- MODULE AnsweredTurns ----------------------------
(***************************************************************************)
(* What POST /chat promises about a turn, and nothing about how.           *)
(*                                                                         *)
(* A turn that the client was given an answer for is stored, and stored    *)
(* before the answer is given.  A turn that was refused is not stored, and *)
(* never will be.  Between the two, an error after the commit or the death *)
(* of the server leaves the client without an answer although the turn is  *)
(* stored: this turn is `unsure'.                                          *)
(***************************************************************************)
CONSTANT Requests

VARIABLE turn    \* [Requests -> Phases]

Phases == {"absent", "open", "stored", "answered", "refused", "unsure"}

Init == turn = [r \in Requests |-> "absent"]

Move(r, from, to) == turn[r] = from /\ turn' = [turn EXCEPT ![r] = to]

Begin(r)  == Move(r, "absent", "open")
Reject(r) == Move(r, "absent", "refused")
Store(r)  == Move(r, "open", "stored")
Answer(r) == Move(r, "stored", "answered")

(* One request fails, or all that run, when the server dies. *)
Abort(S) ==
    /\ \A r \in S : turn[r] \in {"open", "stored"}
    /\ turn' = [r \in Requests |->
                   IF r \notin S THEN turn[r]
                   ELSE IF turn[r] = "open" THEN "refused" ELSE "unsure"]

Next ==
    \/ \E r \in Requests : Begin(r) \/ Reject(r) \/ Store(r) \/ Answer(r)
    \/ \E S \in SUBSET Requests : Abort(S)

Spec == Init /\ [][Next]_turn
=============================================================================
