--------------------------- MODULE Conversations ---------------------------
(***************************************************************************)
(* Conversations, their messages and the feedback on them.                 *)
(*                                                                         *)
(* A chat request is one database transaction that stays open while the    *)
(* pipeline runs: the question is flushed, seen by nobody else, and        *)
(* commits together with the answer.  Requests on the same conversation,   *)
(* from several tabs of a browser, its deletion and feedback on its        *)
(* answers run concurrently, each in a transaction of its own, at          *)
(* PostgreSQL's READ COMMITTED.                                            *)
(*                                                                         *)
(* One browser session owns everything here.  Where the answer comes from  *)
(* is in ResponseCache; a turn's question and answer are told apart by the *)
(* turn they belong to.                                                    *)
(***************************************************************************)
EXTENDS Naturals, FiniteSets

CONSTANTS
    Convs,         \* conversation ids; never reused
    Turns,         \* chat requests
    Ratings,       \* feedback requests
    Nothing,       \* no conversation, no turn
    HistoryLimit   \* messages of history given to the pipeline (10)

ASSUME NothingAssumption == Nothing \notin Convs \cup Turns
\* An even limit takes whole turns: each has two messages.
ASSUME HistoryAssumption == HistoryLimit \in Nat /\ HistoryLimit % 2 = 0

VARIABLES
    conv,       \* [Convs -> ConvStates]
    messages,   \* the committed messages
    turn,       \* [Turns -> Turn], the chat requests
    deleting,   \* conversations whose deletion has passed the ownership check
    rating,     \* [Ratings -> Rating], the feedback requests
    feedback,   \* the committed feedback rows
    clock,      \* created_at of the next message
    lone        \* history: turns no other turn of their conversation overlapped

vars == <<conv, messages, turn, deleting, rating, feedback, clock, lone>>

-----------------------------------------------------------------------------
\* "open" is a row of a transaction that has not committed.
ConvStates == {"unborn", "open", "live", "deleted"}

Message == [conv : Convs, turn : Turns, role : {"user", "assistant"}, at : Nat]

TurnSteps == {"new", "history", "ask", "pipeline", "log", "answered", "failed"}
Turn == [pc : TurnSteps, conv : Convs \cup {Nothing},
         history : SUBSET Message, asked : Nat]

RatingSteps == {"new", "check", "question", "insert", "done", "failed"}
Rating == [pc : RatingSteps, answer : Turns \cup {Nothing},
           question : Turns \cup {Nothing},
           late : BOOLEAN]   \* history: the answer had feedback at the start

\* answer is the message_id; question and response are the snapshots.
Feedback == [id : Ratings, answer : Turns \cup {Nothing},
             question : Turns \cup {Nothing}, response : Turns \cup {Nothing}]

TypeOK ==
    /\ conv \in [Convs -> ConvStates]
    /\ messages \in SUBSET Message
    /\ turn \in [Turns -> Turn]
    /\ deleting \in SUBSET Convs
    /\ rating \in [Ratings -> Rating]
    /\ feedback \in SUBSET Feedback
    /\ clock \in Nat
    /\ lone \in SUBSET Turns

Init ==
    /\ conv = [c \in Convs |-> "unborn"]
    /\ messages = {}
    /\ turn = [t \in Turns |->
                  [pc |-> "new", conv |-> Nothing, history |-> {}, asked |-> 0]]
    /\ deleting = {}
    /\ rating = [r \in Ratings |->
                    [pc |-> "new", answer |-> Nothing, question |-> Nothing,
                     late |-> FALSE]]
    /\ feedback = {}
    /\ clock = 1
    /\ lone = Turns

-----------------------------------------------------------------------------
MessagesOf(c) == {m \in messages : m.conv = c}
Answers == {m \in messages : m.role = "assistant"}

\* The n newest of a set of messages.
Newest(set, n) == {m \in set : Cardinality({o \in set : o.at > m.at}) < n}

\* The transactions that have inserted a message of c: they hold a share lock
\* on its row, by the foreign key, until they end.
Holding(c) == {t \in Turns : turn[t].pc = "pipeline" /\ turn[t].conv = c}

Running(t) == turn[t].pc \in {"history", "ask", "pipeline"}

-----------------------------------------------------------------------------
(* A chat request.                                                         *)

\* An existing conversation is looked up, a new one is flushed.
TurnStart(t) ==
    /\ turn[t].pc = "new"
    /\ \E c \in Convs :
          /\ \/ conv[c] = "live" /\ conv' = conv
             \/ conv[c] = "unborn" /\ conv' = [conv EXCEPT ![c] = "open"]
          /\ turn' = [turn EXCEPT ![t].pc = "history", ![t].conv = c]
          /\ LET overlapped == {u \in Turns : Running(u) /\ turn[u].conv = c}
             IN  lone' = IF overlapped = {} THEN lone
                                            ELSE lone \ (overlapped \cup {t})
    /\ UNCHANGED <<messages, deleting, rating, feedback, clock>>

\* Mutant: the oldest messages are taken, not the newest.
TurnReadsOldest(t) ==
    LET all == MessagesOf(turn[t].conv) IN
    /\ turn[t].pc = "history"
    /\ turn' = [turn EXCEPT ![t].pc = "ask",
          ![t].history = {m \in all : Cardinality({o \in all : o.at < m.at})
                                          < HistoryLimit - 1}]
    /\ UNCHANGED <<conv, messages, deleting, rating, feedback, clock, lone>>

\* The newest messages that are committed.
TurnReadsHistory(t) ==
    /\ turn[t].pc = "history"
    /\ turn' = [turn EXCEPT ![t].pc = "ask",
          ![t].history = Newest(MessagesOf(turn[t].conv), HistoryLimit)]
    /\ UNCHANGED <<conv, messages, deleting, rating, feedback, clock, lone>>

\* The question is flushed, if the conversation is still there.
TurnAsks(t) ==
    LET c == turn[t].conv IN
    /\ turn[t].pc = "ask"
    /\ IF conv[c] \in {"open", "live"}
         THEN /\ turn' = [turn EXCEPT ![t].pc = "pipeline", ![t].asked = clock]
              /\ clock' = clock + 1
         ELSE /\ turn' = [turn EXCEPT ![t].pc = "failed"]
              /\ clock' = clock
    /\ UNCHANGED <<conv, messages, deleting, rating, feedback, lone>>

Question(t) == [conv |-> turn[t].conv, turn |-> t, role |-> "user",
                at |-> turn[t].asked]
AnswerOf(t) == [conv |-> turn[t].conv, turn |-> t, role |-> "assistant",
                at |-> clock]

\* The answer, from the pipeline or the cache, is added and all is committed.
TurnCommits(t) ==
    LET c == turn[t].conv IN
    /\ turn[t].pc = "pipeline"
    /\ conv' = IF conv[c] = "open" THEN [conv EXCEPT ![c] = "live"] ELSE conv
    /\ messages' = messages \cup {Question(t), AnswerOf(t)}
    /\ clock' = clock + 1
    /\ turn' = [turn EXCEPT ![t].pc = "log"]
    /\ UNCHANGED <<deleting, rating, feedback, lone>>

\* log_event commits a row of its own; if that fails, the client is told that
\* the request failed.
TurnLogs(t) ==
    /\ turn[t].pc = "log"
    /\ \E pc \in {"answered", "failed"} : turn' = [turn EXCEPT ![t].pc = pc]
    /\ UNCHANGED <<conv, messages, deleting, rating, feedback, clock, lone>>

\* The pipeline or the database fails, or the process dies: a rollback.
TurnFails(t) ==
    LET c == turn[t].conv IN
    /\ Running(t)
    /\ conv' = IF conv[c] = "open" THEN [conv EXCEPT ![c] = "deleted"] ELSE conv
    /\ turn' = [turn EXCEPT ![t].pc = "failed"]
    /\ UNCHANGED <<messages, deleting, rating, feedback, clock, lone>>

-----------------------------------------------------------------------------
(* Deleting a conversation.                                                *)

DeleteStart(c) ==
    /\ conv[c] = "live"
    /\ deleting' = deleting \cup {c}
    /\ UNCHANGED <<conv, messages, turn, rating, feedback, clock, lone>>

\* What ON DELETE SET NULL makes of a feedback row whose message goes.
Detached(f, c) ==
    IF \E m \in Answers : m.turn = f.answer /\ m.conv = c
      THEN [f EXCEPT !.answer = Nothing] ELSE f

\* Mutant: the rows of the messages go with them.
FeedbackWithout(c) == {f \in feedback : Detached(f, c) = f}
FeedbackDetached(c) == {Detached(f, c) : f \in feedback}

\* Mutant: the deletion does not wait for the turns that hold the row.
DeleteAtOnce(c) ==
    /\ c \in deleting
    /\ conv' = [conv EXCEPT ![c] = "deleted"]
    /\ messages' = messages \ MessagesOf(c)
    /\ feedback' = FeedbackDetached(c)
    /\ deleting' = deleting \ {c}
    /\ UNCHANGED <<turn, rating, clock, lone>>

\* Mutant: the messages keep their rows and lose their conversation, as
\* feedback does, instead of going with it.
DeleteOrphans(c) ==
    /\ c \in deleting
    /\ Holding(c) = {}
    /\ conv' = [conv EXCEPT ![c] = "deleted"]
    /\ messages' = {IF m.conv = c THEN [m EXCEPT !.conv = Nothing] ELSE m : m \in messages}
    /\ deleting' = deleting \ {c}
    /\ UNCHANGED <<turn, rating, feedback, clock, lone>>

\* The DELETE waits for the transactions that hold the row, then takes the
\* messages they have committed too, by the foreign key's cascade.
DeleteConversation(c) ==
    /\ c \in deleting
    /\ Holding(c) = {}
    /\ conv' = [conv EXCEPT ![c] = "deleted"]
    /\ messages' = messages \ MessagesOf(c)
    /\ feedback' = FeedbackDetached(c)
    /\ deleting' = deleting \ {c}
    /\ UNCHANGED <<turn, rating, clock, lone>>

-----------------------------------------------------------------------------
(* Feedback (submit_feedback).                                             *)

Step(r, new) ==
    /\ rating' = [rating EXCEPT ![r] = new]
    /\ UNCHANGED <<conv, messages, turn, deleting, clock, lone>>

FeedbackOn(answer) == {f \in feedback : f.answer = answer}

\* A message of the user's own; a question is answered with 400.
RatingStart(r) ==
    /\ rating[r].pc = "new"
    /\ \E m \in Answers :
          Step(r, [rating[r] EXCEPT !.pc = "check", !.answer = m.turn,
                      !.late = FeedbackOn(m.turn) # {}])
    /\ UNCHANGED feedback

\* Mutant: a single row is overlooked.
RatingChecksTwo(r) ==
    LET existing == FeedbackOn(rating[r].answer) IN
    /\ rating[r].pc = "check"
    /\ Step(r, [rating[r] EXCEPT
           !.pc = IF \A f, g \in existing : f = g THEN "question" ELSE "done"])
    /\ UNCHANGED feedback

\* No row: go on.  One: it is returned.  Two: MultipleResultsFound.
RatingCheck(r) ==
    LET existing == FeedbackOn(rating[r].answer) IN
    /\ rating[r].pc = "check"
    /\ Step(r, [rating[r] EXCEPT
           !.pc = IF existing = {} THEN "question"
                  ELSE IF \A f, g \in existing : f = g THEN "done" ELSE "failed"])
    /\ UNCHANGED feedback

\* Mutant: the conversation's first question is taken.
FirstQuestion(m) ==
    LET earlier == {q \in MessagesOf(m.conv) : q.role = "user" /\ q.at < m.at}
    IN  {q \in earlier : \A o \in earlier : q.at <= o.at}

\* The newest question of the conversation older than the answer.
PrecedingQuestion(m) ==
    Newest({q \in MessagesOf(m.conv) : q.role = "user" /\ q.at < m.at}, 1)

\* The snapshot.  After a deletion there is no message to find.
RatingSnapshot(r) ==
    LET rated == {m \in Answers : m.turn = rating[r].answer}
        found == UNION {PrecedingQuestion(m) : m \in rated}
    IN
    /\ rating[r].pc = "question"
    /\ \E q \in {m.turn : m \in found} \cup (IF found = {} THEN {Nothing} ELSE {}) :
          Step(r, [rating[r] EXCEPT !.pc = "insert", !.question = q])
    /\ UNCHANGED feedback

\* The INSERT; the foreign key refuses it when the message is gone.
RatingInsert(r) ==
    /\ rating[r].pc = "insert"
    /\ IF \E m \in Answers : m.turn = rating[r].answer
         THEN /\ feedback' = feedback \cup
                     {[id |-> r, answer |-> rating[r].answer,
                       question |-> rating[r].question,
                       response |-> rating[r].answer]}
              /\ Step(r, [rating[r] EXCEPT !.pc = "done"])
         ELSE /\ feedback' = feedback
              /\ Step(r, [rating[r] EXCEPT !.pc = "failed"])

\* Feedback without a message: no check, and nothing to take a snapshot of.
GeneralFeedback(r) ==
    /\ rating[r].pc = "new"
    /\ feedback' = feedback \cup {[id |-> r, answer |-> Nothing,
                                   question |-> Nothing, response |-> Nothing]}
    /\ Step(r, [rating[r] EXCEPT !.pc = "done"])

-----------------------------------------------------------------------------
TurnStep(t) ==
    \/ TurnStart(t) \/ TurnReadsHistory(t) \/ TurnAsks(t) \/ TurnCommits(t)
    \/ TurnLogs(t) \/ TurnFails(t)

RatingStep(r) ==
    \/ RatingStart(r) \/ RatingCheck(r) \/ RatingSnapshot(r) \/ RatingInsert(r)
    \/ GeneralFeedback(r)

Next ==
    \/ \E t \in Turns : TurnStep(t)
    \/ \E c \in Convs : DeleteStart(c) \/ DeleteConversation(c)
    \/ \E r \in Ratings : RatingStep(r)

Spec == Init /\ [][Next]_vars

-----------------------------------------------------------------------------
(* Properties.                                                             *)

\* A turn is stored whole or not at all: a question never stands without its
\* answer, whatever fails, and no message survives its conversation, however
\* the deletion falls between the steps of a turn.
StoredTurnsAreWhole ==
    \A m \in messages :
        /\ conv[m.conv] = "live"
        /\ \E o \in messages : o.turn = m.turn /\ o.conv = m.conv /\ o.role # m.role

\* Feedback outlives what it is about: no row is ever lost, and the snapshot
\* in it never changes, when the conversation is deleted too.
SnapshotsAreImmutable ==
    [][\A f \in feedback : \E g \in feedback' :
          g.id = f.id /\ g.question = f.question /\ g.response = f.response]_feedback

\* The snapshot shows the question of the rated answer, if no other turn ran
\* between the two.
LoneAnswersAreRatedWithTheirQuestion ==
    \A f \in feedback : f.response \in lone => f.question = f.response

Whole(set) == \A m \in set : \E o \in set : o.turn = m.turn /\ o.role # m.role

\* The history of a turn is made of whole turns, if none of them overlapped
\* another one.
LoneHistoriesAreWhole ==
    \A t \in Turns :
        (\A m \in turn[t].history : m.turn \in lone) => Whole(turn[t].history)

\* "Prevent duplicate submissions for the same message": who rates an answer that
\* has feedback already adds no row, however the deletion of the conversation,
\* which takes the answer from that feedback, falls between his steps.  (Two
\* clicks that overlap may both find none, and both add one.)
SecondRatingsAddNothing ==
    \A f \in feedback : ~rating[f.id].late
=============================================================================
