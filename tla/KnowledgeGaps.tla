--------------------------- MODULE KnowledgeGaps ---------------------------
(***************************************************************************)
(* The background task of a chat request: the outcome of the answer is     *)
(* classified, and a question the knowledge base could not answer is       *)
(* counted in the row of its normalised text.                              *)
(*                                                                         *)
(* A task reads the row and writes it in one transaction; tasks of         *)
(* different users run concurrently, at READ COMMITTED, and what is        *)
(* written is the count that was read, plus one.                           *)
(***************************************************************************)
EXTENDS Naturals, FiniteSets

CONSTANTS
    Tasks,     \* background tasks
    Texts,     \* normalised query texts
    NoText     \* the text that normalises to nothing

ASSUME NoTextAssumption == NoText \notin Texts
ASSUME TasksAssumption == IsFiniteSet(Tasks)

VARIABLES
    count,     \* [Texts -> Nat], the committed rows; 0 for no row
    task,      \* [Tasks -> Task]
    recorded   \* history: tasks whose transaction committed

gapVars == <<count, task, recorded>>

-----------------------------------------------------------------------------
Outcomes == {"answered", "off_topic", "knowledge_gap"}
TaskSteps == {"classify", "select", "insert", "update", "done", "failed"}
Task == [pc : TaskSteps, text : Texts \cup {NoText}, read : Nat]

GapTypeOK ==
    /\ count \in [Texts -> Nat]
    /\ task \in [Tasks -> Task]
    /\ recorded \in SUBSET Tasks

GapInit ==
    /\ count = [q \in Texts |-> 0]
    /\ task \in [Tasks -> {[pc |-> "classify", text |-> x, read |-> 0] :
                               x \in Texts \cup {NoText}}]
    /\ recorded = {}

-----------------------------------------------------------------------------
(* The model's reply: whether it is a JSON object, one in a fenced block,   *)
(* has one in its text, or has none; and the outcome that object names.    *)
(* "failure" is that both models fail.                                     *)
Replies == [form : {"object", "fenced", "embedded", "prose", "failure"},
            outcome : Outcomes \cup {"other"}]

\* heuristic_outcome: phrases of the answer, those of a refusal first.
HeuristicOutcome(phrases) ==
    IF "off_topic" \in phrases THEN "off_topic"
    ELSE IF "knowledge_gap" \in phrases THEN "knowledge_gap" ELSE "none"

\* _extract_outcome: an outcome that is none of the three is not taken.
ExtractOutcome(reply) ==
    IF reply.form \in {"object", "fenced", "embedded"} /\ reply.outcome \in Outcomes
    THEN reply.outcome ELSE "none"

\* The model is asked when the phrases do not decide, and "answered" is the
\* outcome when nothing does.
ClassifyQueryOutcome(phrases, reply) ==
    IF HeuristicOutcome(phrases) # "none" THEN HeuristicOutcome(phrases)
    ELSE IF ExtractOutcome(reply) # "none" THEN ExtractOutcome(reply)
    ELSE "answered"

\* What the answer and the models can lead to.
PossibleOutcomes ==
    {ClassifyQueryOutcome(phrases, reply) :
        phrases \in SUBSET {"off_topic", "knowledge_gap"}, reply \in Replies}

\* Mutant: the outcome becomes the state of the task.
ClassifyStoresOutcome(t) ==
    /\ task[t].pc = "classify"
    /\ \E outcome \in PossibleOutcomes : task' = [task EXCEPT ![t].pc = outcome]
    /\ UNCHANGED <<count, recorded>>

\* Only a gap is recorded, and only one with some text.
Classify(t) ==
    /\ task[t].pc = "classify"
    /\ \E outcome \in PossibleOutcomes :
          task' = [task EXCEPT ![t].pc =
                      IF outcome = "knowledge_gap" /\ task[t].text # NoText
                      THEN "select" ELSE "done"]
    /\ UNCHANGED <<count, recorded>>

Select(t) ==
    LET q == task[t].text IN
    /\ task[t].pc = "select"
    /\ task' = [task EXCEPT ![t].read = count[q],
                            ![t].pc = IF count[q] = 0 THEN "insert" ELSE "update"]
    /\ UNCHANGED <<count, recorded>>

\* The unique constraint lets one of two first tasks through; the error of
\* the other is logged and forgotten.
Insert(t) ==
    LET q == task[t].text IN
    /\ task[t].pc = "insert"
    /\ IF count[q] = 0
         THEN /\ count' = [count EXCEPT ![q] = 1]
              /\ recorded' = recorded \cup {t}
              /\ task' = [task EXCEPT ![t].pc = "done"]
         ELSE /\ UNCHANGED <<count, recorded>>
              /\ task' = [task EXCEPT ![t].pc = "failed"]

\* Mutant: the value written is the one of the row plus the one read.
UpdateAdds(t) ==
    LET q == task[t].text IN
    /\ task[t].pc = "update"
    /\ count' = [count EXCEPT ![q] = @ + task[t].read]
    /\ recorded' = recorded \cup {t}
    /\ task' = [task EXCEPT ![t].pc = "done"]

\* UPDATE ... SET count = <the value read, plus one>.
Update(t) ==
    LET q == task[t].text IN
    /\ task[t].pc = "update"
    /\ count' = [count EXCEPT ![q] = task[t].read + 1]
    /\ recorded' = recorded \cup {t}
    /\ task' = [task EXCEPT ![t].pc = "done"]

\* The database fails or the process dies: the transaction is rolled back.
TaskFails(t) ==
    /\ task[t].pc \in {"classify", "select", "insert", "update"}
    /\ task' = [task EXCEPT ![t].pc = "failed"]
    /\ UNCHANGED <<count, recorded>>

GapNext == \E t \in Tasks :
    Classify(t) \/ Select(t) \/ Insert(t) \/ Update(t) \/ TaskFails(t)

GapSpec == GapInit /\ [][GapNext]_gapVars

-----------------------------------------------------------------------------
(* Properties.                                                             *)

Recorded(q) == {t \in recorded : task[t].text = q}

\* A gap is never made up and never forgotten: a question has a count if it
\* was recorded, and no more than the times it was.
CountsAreEarned ==
    \A q \in Texts :
        /\ count[q] <= Cardinality(Recorded(q))
        /\ Recorded(q) # {} => count[q] >= 1
=============================================================================
