------------------------ MODULE ConversationsProofs ------------------------
(***************************************************************************)
(* Proofs about Conversations: for any sets of conversations, turns and    *)
(* feedback requests.                                                      *)
(***************************************************************************)
EXTENDS Conversations, FiniteSetTheorems, TLAPS

-----------------------------------------------------------------------------
(* Stored turns are whole.  What makes it inductive is who may hold an      *)
(* uncommitted conversation: the turn that made it, and nobody else.        *)

\* A turn that holds the row of its conversation finds it there when it
\* commits: a deletion waits for it, and a rollback takes only its own row.
HeldConversationsStay ==
    \A t \in Turns : turn[t].pc = "pipeline" => conv[turn[t].conv] \in {"open", "live"}

\* An uncommitted conversation is one turn's own, an unborn one nobody's.
OpenConversationsArePrivate ==
    /\ \A t, u \in Turns :
          Running(t) /\ Running(u) /\ turn[t].conv = turn[u].conv
              /\ conv[turn[t].conv] = "open" => t = u
    /\ \A t \in Turns : Running(t) => conv[turn[t].conv] # "unborn"

\* The parts of TypeOK the proof needs.
Types ==
    /\ conv \in [Convs -> ConvStates]
    /\ turn \in [Turns -> Turn]
    /\ \A t \in Turns : Running(t) => turn[t].conv \in Convs
    /\ clock \in Nat
    /\ messages \in SUBSET Message

TurnInv ==
    /\ Types
    /\ StoredTurnsAreWhole
    /\ HeldConversationsStay
    /\ OpenConversationsArePrivate

\* The initial state has no conversation and no running turn.
LEMMA TurnInit == Init => TurnInv
  BY DEF Init, TurnInv, Types, StoredTurnsAreWhole, HeldConversationsStay,
         OpenConversationsArePrivate, Running, ConvStates, TurnSteps, Turn,
         Message

\* What is read of the history of a conversation is a set of messages.
LEMMA NewestIsPart == \A S, n : Newest(S, n) \subseteq S
  BY DEF Newest

\* Steps that leave conversations, turns, messages and the clock alone.
LEMMA TurnFrame == TurnInv /\ UNCHANGED <<conv, turn, messages, clock>> => TurnInv'
  BY DEF TurnInv, Types, StoredTurnsAreWhole, HeldConversationsStay,
         OpenConversationsArePrivate, Running

\* A commit puts the question and the answer into a conversation that is
\* there, and makes it visible if it was not.
LEMMA CommitKeeps ==
    ASSUME TurnInv, NEW t \in Turns, TurnCommits(t)
    PROVE  TurnInv'
  <1> DEFINE c == turn[t].conv
             q == Question(t)
             a == AnswerOf(t)
  <1>1. c \in Convs /\ conv[c] \in {"open", "live"} /\ turn[t].asked \in Nat
    BY DEF TurnCommits, TurnInv, Types, HeldConversationsStay, Running, Turn
  <1>2. conv' = [conv EXCEPT ![c] = "live"]
    BY <1>1 DEF TurnCommits, TurnInv, Types
  <1>3. /\ turn' = [turn EXCEPT ![t].pc = "log"]
        /\ messages' = messages \cup {q, a}
        /\ clock' = clock + 1
    BY DEF TurnCommits
  <1>4. q \in Message /\ a \in Message
    BY <1>1 DEF Question, AnswerOf, Message, TurnInv, Types, Turn
  <1>5. /\ q.turn = a.turn /\ q.conv = c /\ a.conv = c
        /\ q.role # a.role
    BY DEF Question, AnswerOf
  <1> HIDE DEF q, a
  <1>6. Types'
    BY <1>1, <1>2, <1>3, <1>4 DEF TurnInv, Types, Running, ConvStates, TurnSteps, Turn
  <1>7. StoredTurnsAreWhole'
    <2>1. ASSUME NEW m \in messages
          PROVE  /\ conv'[m.conv] = "live"
                 /\ \E o \in messages' :
                       o.turn = m.turn /\ o.conv = m.conv /\ o.role # m.role
      <3>1. m.conv \in Convs /\ conv[m.conv] = "live"
        BY <2>1 DEF TurnInv, Types, StoredTurnsAreWhole, Message
      <3>2. conv'[m.conv] = "live"
        BY <1>2, <3>1 DEF TurnInv, Types
      <3> QED
        BY <1>3, <2>1, <3>2 DEF TurnInv, StoredTurnsAreWhole
    <2>2. conv'[c] = "live"
      BY <1>1, <1>2 DEF TurnInv, Types
    <2>3. ASSUME NEW m \in {q, a}
          PROVE  /\ conv'[m.conv] = "live"
                 /\ \E o \in messages' :
                       o.turn = m.turn /\ o.conv = m.conv /\ o.role # m.role
      BY <1>3, <1>5, <2>2, <2>3
    <2> QED
      BY <1>3, <2>1, <2>3 DEF StoredTurnsAreWhole
  <1>8. HeldConversationsStay' /\ OpenConversationsArePrivate'
    BY <1>1, <1>2, <1>3
       DEF TurnInv, Types, HeldConversationsStay, OpenConversationsArePrivate,
           Running, ConvStates
  <1> QED
    BY <1>6, <1>7, <1>8 DEF TurnInv

\* One step per action of a turn, then the deletion.
LEMMA TurnNext == TurnInv /\ [Next]_vars => TurnInv'
  <1> SUFFICES ASSUME TurnInv, [Next]_vars PROVE TurnInv'
    OBVIOUS
  <1> USE DEF TurnInv, Types, StoredTurnsAreWhole, HeldConversationsStay,
              OpenConversationsArePrivate, Running, ConvStates, TurnSteps, Turn
  <1>1. ASSUME NEW t \in Turns, TurnStart(t) PROVE TurnInv'
    <2> PICK c \in Convs :
          /\ \/ conv[c] = "live" /\ conv' = conv
             \/ conv[c] = "unborn" /\ conv' = [conv EXCEPT ![c] = "open"]
          /\ turn' = [turn EXCEPT ![t].pc = "history", ![t].conv = c]
      BY <1>1 DEF TurnStart
    <2>1. UNCHANGED <<messages, clock>> /\ ~Running(t)
      BY <1>1 DEF TurnStart
    <2>2. Types'
      <3>1. [turn[t] EXCEPT !.pc = "history", !.conv = c] \in Turn
        <4>1. turn[t] \in Turn
          OBVIOUS
        <4> QED
          BY <4>1
      <3>2. turn' \in [Turns -> Turn]
        BY <3>1
      <3>3. conv' \in [Convs -> ConvStates]
        OBVIOUS
      <3>4. \A u \in Turns : Running(u)' => turn'[u].conv \in Convs
        OBVIOUS
      <3> QED
        BY <2>1, <3>2, <3>3, <3>4
    <2>3. StoredTurnsAreWhole'
      BY <2>1 DEF Message
    <2>4. HeldConversationsStay'
      BY <2>1
    <2>5. OpenConversationsArePrivate'
      BY <2>1
    <2> QED
      BY <2>2, <2>3, <2>4, <2>5
  <1>2. ASSUME NEW t \in Turns, TurnReadsHistory(t) PROVE TurnInv'
    <2>1. Newest(MessagesOf(turn[t].conv), HistoryLimit) \in SUBSET Message
      BY NewestIsPart DEF MessagesOf
    <2>2. /\ turn' = [turn EXCEPT ![t].pc = "ask",
                ![t].history = Newest(MessagesOf(turn[t].conv), HistoryLimit)]
          /\ UNCHANGED <<conv, messages, clock>>
          /\ turn[t].pc = "history"
      BY <1>2 DEF TurnReadsHistory
    <2>3. Types'
      <3>1. [turn[t] EXCEPT !.pc = "ask",
                !.history = Newest(MessagesOf(turn[t].conv), HistoryLimit)] \in Turn
        BY <2>1
      <3>2. turn' \in [Turns -> Turn]
        BY <2>2, <3>1
      <3>3. \A u \in Turns : turn'[u].conv = turn[u].conv
                               /\ (Running(u)' => Running(u))
        BY <2>2
      <3> QED
        BY <2>2, <3>2, <3>3
    <2>4. StoredTurnsAreWhole' /\ HeldConversationsStay'
      BY <2>2
    <2>5. OpenConversationsArePrivate'
      BY <2>2
    <2> QED
      BY <2>3, <2>4, <2>5
  <1>3. ASSUME NEW t \in Turns, TurnAsks(t) PROVE TurnInv'
    BY <1>3 DEF TurnAsks
  <1>4. ASSUME NEW t \in Turns, TurnCommits(t) PROVE TurnInv'
    BY <1>4, CommitKeeps
  <1>5. ASSUME NEW t \in Turns, TurnLogs(t) PROVE TurnInv'
    BY <1>5 DEF TurnLogs
  <1>6. ASSUME NEW t \in Turns, TurnFails(t) PROVE TurnInv'
    BY <1>6 DEF TurnFails
  <1>7. ASSUME NEW c \in Convs, DeleteConversation(c) PROVE TurnInv'
    BY <1>7 DEF DeleteConversation, Holding, MessagesOf
  <1>8. ASSUME NEW c \in Convs, DeleteStart(c) PROVE TurnInv'
    BY <1>8, TurnFrame DEF DeleteStart
  <1>9. ASSUME NEW r \in Ratings, RatingStep(r) PROVE TurnInv'
    <2>1. UNCHANGED <<conv, turn, messages, clock>>
      BY <1>9 DEF RatingStep, RatingStart, RatingCheck, RatingSnapshot,
                  RatingInsert, GeneralFeedback, Step
    <2> QED
      BY <2>1, TurnFrame
  <1>10. CASE UNCHANGED vars
    BY <1>10, TurnFrame DEF vars
  <1> QED
    BY <1>1, <1>2, <1>3, <1>4, <1>5, <1>6, <1>7, <1>8, <1>9, <1>10
       DEF Next, TurnStep

\* Whatever fails, and however turns and a deletion interleave: in the
\* database a question stands with its answer, in a conversation that exists.
THEOREM TurnsAreStoredWhole == Spec => []StoredTurnsAreWhole
  <1>1. TurnInv => StoredTurnsAreWhole
    BY DEF TurnInv
  <1>2. QED
    BY <1>1, TurnInit, TurnNext, PTL DEF Spec

-----------------------------------------------------------------------------
(* Feedback.  A second rating of an answer finds the first row, or the      *)
(* answer is gone for good: a turn is committed once.                      *)

RatingTypes ==
    /\ rating \in [Ratings -> Rating]
    /\ feedback \in SUBSET Feedback

\* Answers come from turns that are over, each in its turn's conversation.
AnswersAreOver ==
    \A m \in Answers :
        turn[m.turn].pc \in {"log", "answered", "failed"} /\ m.conv = turn[m.turn].conv

Gone(a) ==
    /\ a \in Turns /\ turn[a].pc \in {"log", "answered", "failed"}
    /\ \A m \in Answers : m.turn # a

LateRatingsAreSeen ==
    \A r \in Ratings : rating[r].late =>
        /\ rating[r].pc # "new"
        /\ rating[r].pc = "check" =>
              FeedbackOn(rating[r].answer) # {} \/ Gone(rating[r].answer)
        /\ rating[r].pc \in {"question", "insert"} => Gone(rating[r].answer)

RowsAreDone ==
    \A f \in feedback : rating[f.id].pc = "done" /\ ~rating[f.id].late

RatingInv ==
    RatingTypes /\ AnswersAreOver /\ LateRatingsAreSeen /\ RowsAreDone

\* No feedback at the start.
LEMMA RatingInit == Init => RatingInv
  BY DEF Init, RatingInv, RatingTypes, Rating, RatingSteps, AnswersAreOver, Answers,
         LateRatingsAreSeen, RowsAreDone

\* What the turns and the start of a deletion do to it.
LEMMA TurnsKeepRatings ==
    ASSUME TurnInv, RatingInv, UNCHANGED <<rating, feedback>>, AnswersAreOver',
           \A a \in Turns : Gone(a) => Gone(a)'
    PROVE  RatingInv'
  BY DEF RatingInv, RatingTypes, LateRatingsAreSeen, RowsAreDone, FeedbackOn, Gone

\* A rating takes a step that adds no row.
LEMMA RatingMoves ==
    ASSUME TurnInv, RatingInv, NEW r \in Ratings, NEW new \in Rating, Step(r, new),
           UNCHANGED feedback, rating[r].pc # "done",
           new.late => /\ new.pc # "new"
                       /\ new.pc = "check" => FeedbackOn(new.answer) # {} \/ Gone(new.answer)
                       /\ new.pc \in {"question", "insert"} => Gone(new.answer)
    PROVE  RatingInv'
  <1>1. /\ rating' \in [Ratings -> Rating] /\ rating'[r] = new
        /\ \A q \in Ratings \ {r} : rating'[q] = rating[q]
        /\ UNCHANGED <<messages, turn, feedback>>
    BY DEF Step, RatingInv, RatingTypes
  <1>2. RatingTypes' /\ AnswersAreOver'
    BY <1>1 DEF RatingInv, RatingTypes, AnswersAreOver, Answers
  <1>3. \A a : /\ Gone(a)' <=> Gone(a)
              /\ FeedbackOn(a)' = FeedbackOn(a)
    BY <1>1 DEF Gone, Answers, FeedbackOn
  <1>4. LateRatingsAreSeen'
    BY <1>1, <1>3 DEF RatingInv, LateRatingsAreSeen
  <1>5. \A f \in feedback : f.id \in Ratings /\ f.id # r
    BY DEF RatingInv, RatingTypes, Feedback, RowsAreDone
  <1>6. RowsAreDone'
    BY <1>1, <1>5 DEF RatingInv, RowsAreDone
  <1> QED
    BY <1>2, <1>4, <1>6 DEF RatingInv

\* A rating adds its row and is done.
LEMMA RowAdded ==
    ASSUME TurnInv, RatingInv, NEW r \in Ratings, NEW f \in Feedback, f.id = r,
           feedback' = feedback \cup {f}, Step(r, [rating[r] EXCEPT !.pc = "done"]),
           ~rating[r].late
    PROVE  RatingInv'
  <1>1. rating[r] \in Rating
    BY DEF RatingInv, RatingTypes
  <1>2. /\ rating'[r] \in Rating /\ rating'[r].pc = "done"
        /\ rating'[r].late = FALSE /\ rating'[r].answer = rating[r].answer
    BY <1>1 DEF Step, RatingInv, RatingTypes, Rating, RatingSteps
  <1>3. /\ rating' = [rating EXCEPT ![r] = rating'[r]]
        /\ \A q \in Ratings \ {r} : rating'[q] = rating[q]
        /\ UNCHANGED <<messages, turn>>
    BY DEF Step, RatingInv, RatingTypes
  <1>4. RatingTypes' /\ AnswersAreOver'
    BY <1>2, <1>3 DEF RatingInv, RatingTypes, AnswersAreOver, Answers
  <1>5. \A a : /\ Gone(a)' <=> Gone(a)
              /\ FeedbackOn(a) \subseteq FeedbackOn(a)'
    BY <1>3 DEF Gone, Answers, FeedbackOn
  <1>6. LateRatingsAreSeen'
    BY <1>2, <1>3, <1>5 DEF RatingInv, LateRatingsAreSeen
  <1>7. RowsAreDone'
    BY <1>2, <1>3 DEF RatingInv, RatingTypes, RowsAreDone, Feedback
  <1> QED
    BY <1>4, <1>6, <1>7 DEF RatingInv

\* A deletion detaches rows; an answer whose row is detached is gone.
LEMMA DeletionKeepsRatings ==
    ASSUME TurnInv, RatingInv, NEW c \in Convs, DeleteConversation(c)
    PROVE  RatingInv'
  <1>1. /\ UNCHANGED <<turn, rating>>
        /\ messages' = messages \ MessagesOf(c)
        /\ feedback' = {Detached(f, c) : f \in feedback}
    BY DEF DeleteConversation, FeedbackDetached
  <1>2. ASSUME NEW f \in feedback
        PROVE  /\ Detached(f, c) \in Feedback /\ Detached(f, c).id = f.id
               /\ Detached(f, c).question = f.question
               /\ Detached(f, c).response = f.response
               /\ \/ Detached(f, c) = f
                  \/ \E m \in Answers : m.turn = f.answer /\ m.conv = c
    <2>1. f \in Feedback
      BY DEF RatingInv, RatingTypes
    <2> QED
      BY <2>1 DEF Detached, Feedback
  <1>3. RatingTypes' /\ AnswersAreOver'
    BY <1>1, <1>2 DEF RatingInv, RatingTypes, AnswersAreOver, Answers
  <1>4. \A a : Gone(a) => Gone(a)'
    BY <1>1 DEF Gone, Answers
  <1>5. ASSUME NEW a, FeedbackOn(a) # {} PROVE FeedbackOn(a)' # {} \/ Gone(a)'
    <2>1. PICK f \in feedback : f.answer = a
      BY <1>5 DEF FeedbackOn
    <2>2. CASE Detached(f, c) = f
      BY <1>1, <2>1, <2>2 DEF FeedbackOn
    <2>3. CASE \E m \in Answers : m.turn = f.answer /\ m.conv = c
      <3>1. PICK m \in Answers : m.turn = a /\ m.conv = c
        BY <2>1, <2>3
      <3>2. a \in Turns /\ turn[a].pc \in {"log", "answered", "failed"} /\ turn[a].conv = c
        BY <3>1 DEF RatingInv, AnswersAreOver, TurnInv, Types, Answers, Message
      <3>3. \A o \in Answers : o.turn = a => o.conv = c
        BY <3>2 DEF RatingInv, AnswersAreOver
      <3> QED
        BY <1>1, <3>2, <3>3 DEF Gone, Answers, MessagesOf
    <2> QED
      BY <1>2, <2>2, <2>3
  <1>6. LateRatingsAreSeen'
    BY <1>1, <1>4, <1>5 DEF RatingInv, LateRatingsAreSeen
  <1>7. RowsAreDone'
    BY <1>1, <1>2 DEF RatingInv, RowsAreDone
  <1> QED
    BY <1>3, <1>6, <1>7 DEF RatingInv

\* One step per action.
LEMMA RatingNext == TurnInv /\ RatingInv /\ [Next]_vars => RatingInv'
  <1> SUFFICES ASSUME TurnInv, RatingInv, [Next]_vars PROVE RatingInv'
    OBVIOUS
  <1>0. /\ turn \in [Turns -> Turn] /\ RatingTypes /\ AnswersAreOver
        /\ LateRatingsAreSeen
        /\ \A m \in Answers : m.turn \in Turns
    BY DEF TurnInv, Types, RatingInv, Answers, Message
  <1>1. ASSUME NEW t \in Turns, TurnStep(t) PROVE RatingInv'
    <2>1. UNCHANGED <<rating, feedback>>
      BY <1>1 DEF TurnStep, TurnStart, TurnReadsHistory, TurnAsks, TurnCommits, TurnLogs,
                  TurnFails
    <2>2. CASE TurnCommits(t)
      <3>1. /\ turn[t].pc = "pipeline" /\ turn' = [turn EXCEPT ![t].pc = "log"]
            /\ messages' = messages \cup {Question(t), AnswerOf(t)}
        BY <2>2 DEF TurnCommits
      <3>2. /\ Question(t).role = "user" /\ AnswerOf(t).turn = t
            /\ AnswerOf(t).conv = turn[t].conv
        BY DEF Question, AnswerOf
      <3>3. /\ Answers' \subseteq Answers \cup {AnswerOf(t)}
            /\ turn'[t].pc = "log" /\ turn'[t].conv = turn[t].conv
            /\ \A u \in Turns \ {t} : turn'[u] = turn[u]
        BY <1>0, <3>1, <3>2 DEF Answers, Turn
      <3>4. AnswersAreOver'
        BY <1>0, <3>2, <3>3 DEF AnswersAreOver
      <3>5. \A a \in Turns : Gone(a) => Gone(a)'
        BY <3>1, <3>2, <3>3 DEF Gone
      <3> QED
        BY <2>1, <3>4, <3>5, TurnsKeepRatings
    <2>3. CASE ~TurnCommits(t)
      <3>1. UNCHANGED messages /\ \A u \in Turns \ {t} : turn'[u] = turn[u]
        BY <1>0, <1>1, <2>3 DEF TurnStep, TurnStart, TurnReadsHistory, TurnAsks, TurnLogs,
                                TurnFails
      <3>2. turn[t].pc \in {"log", "answered", "failed"} =>
               /\ turn'[t].pc \in {"answered", "failed"}
               /\ turn'[t].conv = turn[t].conv
        BY <1>0, <1>1, <2>3 DEF TurnStep, TurnStart, TurnReadsHistory, TurnAsks, TurnLogs,
                                TurnFails, Running, Turn
      <3>3. AnswersAreOver'
        BY <1>0, <3>1, <3>2 DEF AnswersAreOver, Answers
      <3>4. \A a \in Turns : Gone(a) => Gone(a)'
        BY <3>1, <3>2 DEF Gone, Answers
      <3> QED
        BY <2>1, <3>3, <3>4, TurnsKeepRatings
    <2> QED
      BY <2>2, <2>3
  <1>2. ASSUME NEW c \in Convs, DeleteStart(c) PROVE RatingInv'
    <2>1. UNCHANGED <<turn, messages, rating, feedback>>
      BY <1>2 DEF DeleteStart
    <2>2. AnswersAreOver' /\ \A a \in Turns : Gone(a) => Gone(a)'
      BY <1>0, <2>1 DEF AnswersAreOver, Answers, Gone
    <2> QED
      BY <2>1, <2>2, TurnsKeepRatings
  <1>3. ASSUME NEW r \in Ratings, RatingStart(r) PROVE RatingInv'
    <2>1. PICK m \in Answers :
            Step(r, [rating[r] EXCEPT !.pc = "check", !.answer = m.turn,
                                      !.late = FeedbackOn(m.turn) # {}])
      BY <1>3 DEF RatingStart
    <2> DEFINE new == [rating[r] EXCEPT !.pc = "check", !.answer = m.turn,
                                        !.late = FeedbackOn(m.turn) # {}]
    <2>2. rating[r] \in Rating /\ rating[r].pc = "new" /\ UNCHANGED feedback
      BY <1>0, <1>3 DEF RatingStart, RatingTypes
    <2>3. /\ new \in Rating /\ new.pc = "check" /\ new.answer = m.turn
          /\ new.late => FeedbackOn(m.turn) # {}
      BY <1>0, <2>2 DEF Rating, RatingSteps
    <2> HIDE DEF new
    <2> QED
      BY <2>1, <2>2, <2>3, RatingMoves DEF new
  <1>4. ASSUME NEW r \in Ratings, RatingCheck(r) PROVE RatingInv'
    <2> DEFINE existing == FeedbackOn(rating[r].answer)
               new == [rating[r] EXCEPT
                   !.pc = IF existing = {} THEN "question"
                          ELSE IF \A f, g \in existing : f = g THEN "done" ELSE "failed"]
    <2>1. rating[r] \in Rating /\ rating[r].pc = "check" /\ UNCHANGED feedback /\ Step(r, new)
      BY <1>0, <1>4 DEF RatingCheck, RatingTypes
    <2>2. /\ new \in Rating /\ new.answer = rating[r].answer /\ new.late = rating[r].late
          /\ new.pc \in {"question", "done", "failed"}
          /\ new.pc = "question" => existing = {}
      BY <2>1 DEF Rating, RatingSteps
    <2> HIDE DEF new
    <2>3. new.late /\ new.pc = "question" => Gone(new.answer)
      BY <1>0, <2>1, <2>2 DEF LateRatingsAreSeen
    <2> QED
      BY <2>1, <2>2, <2>3, RatingMoves
  <1>5. ASSUME NEW r \in Ratings, RatingSnapshot(r) PROVE RatingInv'
    <2>1. PICK q :
            /\ q \in Turns \cup {Nothing}
            /\ Step(r, [rating[r] EXCEPT !.pc = "insert", !.question = q])
      <3>1. \A m : PrecedingQuestion(m) \subseteq messages
        BY NewestIsPart DEF PrecedingQuestion, MessagesOf
      <3>2. \A m \in messages : m.turn \in Turns
        BY DEF TurnInv, Types, Message
      <3> QED
        BY <1>5, <3>1, <3>2 DEF RatingSnapshot
    <2> DEFINE new == [rating[r] EXCEPT !.pc = "insert", !.question = q]
    <2>2. rating[r] \in Rating /\ rating[r].pc = "question" /\ UNCHANGED feedback
      BY <1>0, <1>5 DEF RatingSnapshot, RatingTypes
    <2>3. /\ new \in Rating /\ new.pc = "insert" /\ new.answer = rating[r].answer
          /\ new.late = rating[r].late
      BY <2>1, <2>2 DEF Rating, RatingSteps
    <2> HIDE DEF new
    <2>4. new.late => Gone(new.answer)
      BY <1>0, <2>2, <2>3 DEF LateRatingsAreSeen
    <2> QED
      BY <2>1, <2>2, <2>3, <2>4, RatingMoves DEF new
  <1>6. ASSUME NEW r \in Ratings, RatingInsert(r) PROVE RatingInv'
    <2>1. rating[r] \in Rating /\ rating[r].pc = "insert"
      BY <1>0, <1>6 DEF RatingInsert, RatingTypes
    <2>2. CASE \E m \in Answers : m.turn = rating[r].answer
      <3> DEFINE f == [id |-> r, answer |-> rating[r].answer,
                       question |-> rating[r].question, response |-> rating[r].answer]
      <3>1. f \in Feedback /\ f.id = r
        BY <2>1 DEF Feedback, Rating
      <3>2. ~rating[r].late
        BY <1>0, <2>1, <2>2 DEF LateRatingsAreSeen, Gone
      <3>3. feedback' = feedback \cup {f} /\ Step(r, [rating[r] EXCEPT !.pc = "done"])
        BY <1>6, <2>2 DEF RatingInsert
      <3> HIDE DEF f
      <3> QED
        BY <3>1, <3>2, <3>3, RowAdded
    <2>3. CASE ~\E m \in Answers : m.turn = rating[r].answer
      <3> DEFINE new == [rating[r] EXCEPT !.pc = "failed"]
      <3>1. new \in Rating /\ new.pc = "failed"
        BY <2>1 DEF Rating, RatingSteps
      <3>2. UNCHANGED feedback /\ Step(r, new)
        BY <1>6, <2>3 DEF RatingInsert
      <3> HIDE DEF new
      <3> QED
        BY <2>1, <3>1, <3>2, RatingMoves
    <2> QED
      BY <2>2, <2>3
  <1>7. ASSUME NEW r \in Ratings, GeneralFeedback(r) PROVE RatingInv'
    <2> DEFINE f == [id |-> r, answer |-> Nothing, question |-> Nothing, response |-> Nothing]
    <2>1. f \in Feedback /\ f.id = r
      BY DEF Feedback
    <2>2. ~rating[r].late
      BY <1>0, <1>7 DEF GeneralFeedback, LateRatingsAreSeen
    <2>3. feedback' = feedback \cup {f} /\ Step(r, [rating[r] EXCEPT !.pc = "done"])
      BY <1>7 DEF GeneralFeedback
    <2> HIDE DEF f
    <2> QED
      BY <2>1, <2>2, <2>3, RowAdded
  <1>8. ASSUME NEW c \in Convs, DeleteConversation(c) PROVE RatingInv'
    BY <1>8, DeletionKeepsRatings
  <1>9. CASE UNCHANGED vars
    <2>1. UNCHANGED <<turn, messages, rating, feedback>>
      BY <1>9 DEF vars
    <2>2. AnswersAreOver' /\ \A a \in Turns : Gone(a) => Gone(a)'
      BY <1>0, <2>1 DEF AnswersAreOver, Answers, Gone
    <2> QED
      BY <2>1, <2>2, TurnsKeepRatings
  <1> QED
    BY <1>1, <1>2, <1>3, <1>4, <1>5, <1>6, <1>7, <1>8, <1>9 DEF Next, RatingStep

\* Whoever rates an answer that has feedback adds no row, whatever is deleted between
\* the steps of his request.
THEOREM SecondRatingsNeverAdd == Spec => []SecondRatingsAddNothing
  <1>1. RatingInv => SecondRatingsAddNothing
    BY DEF RatingInv, RowsAreDone, SecondRatingsAddNothing
  <1> QED
    BY <1>1, RatingInit, RatingNext, TurnInit, TurnNext, PTL DEF Spec

\* No step loses a feedback row or changes the snapshot in it.
THEOREM SnapshotsNeverChange == Spec => SnapshotsAreImmutable
  <1>1. TurnInv /\ RatingInv /\ [Next]_vars =>
           [\A f \in feedback : \E g \in feedback' :
              g.id = f.id /\ g.question = f.question /\ g.response = f.response]_feedback
    <2> SUFFICES ASSUME TurnInv, RatingInv, [Next]_vars, feedback' # feedback
                 PROVE  \A f \in feedback : \E g \in feedback' :
                           g.id = f.id /\ g.question = f.question /\ g.response = f.response
      OBVIOUS
    <2>1. \/ feedback \subseteq feedback'
          \/ \E c \in Convs : feedback' = {Detached(f, c) : f \in feedback}
      BY DEF Next, vars, TurnStep, TurnStart, TurnReadsHistory, TurnAsks, TurnCommits,
             TurnLogs, TurnFails, DeleteStart, DeleteConversation, FeedbackDetached,
             RatingStep, RatingStart, RatingCheck, RatingSnapshot, RatingInsert,
             GeneralFeedback
    <2>2. ASSUME NEW f \in feedback, NEW c \in Convs
          PROVE  /\ Detached(f, c).id = f.id /\ Detached(f, c).question = f.question
                 /\ Detached(f, c).response = f.response
      <3>1. f \in Feedback
        BY DEF RatingInv, RatingTypes
      <3> QED
        BY <3>1 DEF Detached, Feedback
    <2> QED
      BY <2>1, <2>2
  <1> QED
    BY <1>1, RatingInit, RatingNext, TurnInit, TurnNext, PTL DEF Spec, SnapshotsAreImmutable

-----------------------------------------------------------------------------
(* Types.                                                                  *)

OtherTypes == deleting \in SUBSET Convs /\ lone \in SUBSET Turns

\* A turn that was overlapped stays so.
LEMMA LoneShrinks == [Next]_vars => lone' \subseteq lone
  BY DEF Next, TurnStep, TurnStart, TurnReadsHistory, TurnAsks, TurnCommits, TurnLogs,
         TurnFails, DeleteStart, DeleteConversation, RatingStep, RatingStart, RatingCheck,
         RatingSnapshot, RatingInsert, GeneralFeedback, Step, vars

\* Deletions are of conversations, and lone turns are turns.
LEMMA OtherTypesInit == Init => OtherTypes
  BY DEF Init, OtherTypes

\* A deletion begins or ends; turns only leave the lone ones.
LEMMA OtherTypesNext == OtherTypes /\ [Next]_vars => OtherTypes'
  <1> SUFFICES ASSUME OtherTypes, [Next]_vars PROVE OtherTypes'
    OBVIOUS
  <1>1. \/ \E c \in Convs : deleting' = deleting \cup {c}
        \/ \E c \in Convs : deleting' = deleting \ {c}
        \/ deleting' = deleting
    BY DEF Next, TurnStep, TurnStart, TurnReadsHistory, TurnAsks, TurnCommits, TurnLogs,
           TurnFails, DeleteStart, DeleteConversation, RatingStep, RatingStart, RatingCheck,
           RatingSnapshot, RatingInsert, GeneralFeedback, Step, vars
  <1> QED
    BY <1>1, LoneShrinks DEF OtherTypes

\* Every variable keeps its type: what a turn, a deletion and a rating store is
\* what their readers expect.
THEOREM TypeCorrect == Spec => []TypeOK
  <1>1. TurnInv /\ RatingInv /\ OtherTypes => TypeOK
    BY DEF TurnInv, Types, RatingInv, RatingTypes, OtherTypes, TypeOK
  <1> QED
    BY <1>1, OtherTypesInit, OtherTypesNext, RatingInit, RatingNext, TurnInit, TurnNext, PTL
       DEF Spec

-----------------------------------------------------------------------------
(* Lone turns.  What makes the two properties of them inductive is an order *)
(* of the messages in which a lone turn's two are neighbours: whoever would *)
(* put a message between them runs at the same time, and both are then      *)
(* known to overlap.                                                        *)

Over == {"log", "answered", "failed"}

\* The stored messages: finitely many, no two of the same time, a turn's question
\* at the time it asked and its answer after that, each once.
MessagesAreOrdered ==
    /\ IsFiniteSet(messages)
    /\ \A m \in messages : m.at < clock
    /\ \A m, n \in messages : m.at = n.at => m = n
    /\ \A m \in messages :
          /\ turn[m.turn].pc \in Over /\ m.conv = turn[m.turn].conv
          /\ \/ m.role = "user" /\ m.at = turn[m.turn].asked
             \/ m.role = "assistant" /\ m.at > turn[m.turn].asked
    /\ \A m, n \in messages : m.turn = n.turn /\ m.role = n.role => m = n

\* A question that is not stored yet has a time of its own too.
QuestionsAreNew ==
    \A t \in Turns : turn[t].pc = "pipeline" =>
        /\ turn[t].asked < clock
        /\ \A m \in messages : m.at # turn[t].asked
        /\ \A u \in Turns :
              turn[u].pc = "pipeline" /\ turn[u].asked = turn[t].asked => t = u

\* Turns that run at once in a conversation are known to overlap.
OverlapsAreSeen ==
    \A t, u \in Turns :
        Running(t) /\ Running(u) /\ turn[t].conv = turn[u].conv /\ t # u => t \notin lone

\* Nothing was stored after the question of a running turn, unless both overlapped.
NothingSinceAsked ==
    \A t \in Turns : turn[t].pc = "pipeline" =>
        \A m \in messages :
            m.conv = turn[t].conv /\ (t \in lone \/ m.turn \in lone) =>
                m.at < turn[t].asked

\* Nothing is stored between the question and the answer of a lone turn.
LoneTurnsAreNeighbours ==
    \A q, a, m \in messages :
        q.turn = a.turn /\ q.turn \in lone /\ m.conv = q.conv =>
            ~(q.at < m.at /\ m.at < a.at)

LoneInv ==
    /\ MessagesAreOrdered /\ QuestionsAreNew /\ OverlapsAreSeen
    /\ NothingSinceAsked /\ LoneTurnsAreNeighbours

\* No message and no running turn at the start.
LEMMA LoneInit == Init => LoneInv
  BY FS_EmptySet DEF Init, LoneInv, MessagesAreOrdered, QuestionsAreNew, OverlapsAreSeen,
         NothingSinceAsked, LoneTurnsAreNeighbours, Running

\* Every step but the one that asks and the one that commits: no message is added, no
\* question asked, and a turn that is over stays as it is.
LEMMA NoMessageAdded ==
    ASSUME TurnInv, LoneInv, messages' \subseteq messages, UNCHANGED clock,
           lone' \subseteq lone, OverlapsAreSeen',
           \A t \in Turns :
               /\ turn[t].pc \in Over =>
                     /\ turn'[t].pc \in Over /\ turn'[t].conv = turn[t].conv
                     /\ turn'[t].asked = turn[t].asked
               /\ turn'[t].pc = "pipeline" => turn'[t] = turn[t]
    PROVE  LoneInv'
  <1>1. \A m \in messages : m.turn \in Turns
    BY DEF TurnInv, Types, Message
  <1>2. IsFiniteSet(messages')
    BY FS_Subset DEF LoneInv, MessagesAreOrdered
  <1>3. MessagesAreOrdered'
    BY <1>1, <1>2 DEF LoneInv, MessagesAreOrdered
  <1>4. QuestionsAreNew'
    BY DEF LoneInv, QuestionsAreNew
  <1>5. NothingSinceAsked' /\ LoneTurnsAreNeighbours'
    BY <1>1 DEF LoneInv, NothingSinceAsked, LoneTurnsAreNeighbours
  <1> QED
    BY <1>3, <1>4, <1>5 DEF LoneInv

\* A turn that asks takes a time after every message's.
LEMMA AskKeepsLone ==
    ASSUME TurnInv, LoneInv, NEW t \in Turns, TurnAsks(t), turn'[t].pc = "pipeline"
    PROVE  LoneInv'
  <1>1. /\ turn' = [turn EXCEPT ![t].pc = "pipeline", ![t].asked = clock]
        /\ clock' = clock + 1 /\ turn[t].pc = "ask"
        /\ UNCHANGED <<messages, lone>>
    BY DEF TurnAsks, TurnInv, Types, Turn
  <1>2. /\ turn'[t].asked = clock /\ turn'[t].conv = turn[t].conv
        /\ \A u \in Turns \ {t} : turn'[u] = turn[u]
        /\ clock \in Nat /\ \A m \in messages : m.turn \in Turns /\ m.at \in Nat
        /\ \A u \in Turns : turn[u].asked \in Nat
    BY <1>1 DEF TurnInv, Types, Turn, Message
  <1>3. MessagesAreOrdered'
    <2>1. \A m \in messages : m.turn # t /\ m.at < clock
      BY <1>1 DEF LoneInv, MessagesAreOrdered, Over
    <2>2. \A m \in messages : turn'[m.turn] = turn[m.turn]
      BY <1>2, <2>1
    <2>3. \A m \in messages : m.at < clock'
      <3>1. clock' = clock + 1
        BY <1>1
      <3> QED
        BY <1>2, <2>1, <3>1
    <2> QED
      BY <1>1, <2>2, <2>3 DEF LoneInv, MessagesAreOrdered
  <1>4. QuestionsAreNew'
    <2>1. \A u \in Turns \ {t} : turn'[u].pc = "pipeline" => turn'[u].asked < clock
      BY <1>2 DEF LoneInv, QuestionsAreNew
    <2>2. \A m \in messages : m.at < clock
      BY DEF LoneInv, MessagesAreOrdered
    <2>3. ASSUME NEW u \in Turns, turn'[u].pc = "pipeline"
          PROVE  /\ turn'[u].asked < clock'
                 /\ \A m \in messages : m.at # turn'[u].asked
      <3>1. turn'[u].asked \in Nat /\ turn'[u].asked <= clock /\ clock' = clock + 1
        <4>1. clock' = clock + 1
          BY <1>1
        <4>2. CASE u = t
          BY <1>2, <4>1, <4>2
        <4>3. CASE u # t
          BY <1>2, <2>1, <2>3, <4>1, <4>3
        <4> QED
          BY <4>2, <4>3
      <3>2. \A m \in messages : m.at # turn'[u].asked
        BY <1>2, <2>2, <2>3 DEF LoneInv, QuestionsAreNew
      <3> QED
        BY <1>2, <3>1, <3>2
    <2>4. ASSUME NEW u \in Turns, NEW v \in Turns, turn'[u].pc = "pipeline",
                 turn'[v].pc = "pipeline", turn'[u].asked = turn'[v].asked
          PROVE  u = v
      BY <1>2, <2>1, <2>4 DEF LoneInv, QuestionsAreNew
    <2> QED
      BY <1>1, <2>3, <2>4 DEF QuestionsAreNew
  <1>5. OverlapsAreSeen'
    <2>1. \A u \in Turns : turn'[u].conv = turn[u].conv /\ (Running(u)' => Running(u))
      BY <1>1, <1>2 DEF Running
    <2> QED
      BY <1>1, <2>1 DEF LoneInv, OverlapsAreSeen
  <1>6. NothingSinceAsked'
    BY <1>1, <1>2 DEF LoneInv, NothingSinceAsked, MessagesAreOrdered
  <1>7. LoneTurnsAreNeighbours'
    BY <1>1 DEF LoneInv, LoneTurnsAreNeighbours
  <1> QED
    BY <1>3, <1>4, <1>5, <1>6, <1>7 DEF LoneInv

\* A commit stores the question at the time it was asked and the answer after all.
LEMMA CommitKeepsLone ==
    ASSUME TurnInv, LoneInv, NEW t \in Turns, TurnCommits(t)
    PROVE  LoneInv'
  <1> DEFINE q == Question(t)
             a == AnswerOf(t)
  <1>1. /\ turn[t].pc = "pipeline" /\ turn' = [turn EXCEPT ![t].pc = "log"]
        /\ messages' = messages \cup {q, a} /\ clock' = clock + 1
        /\ UNCHANGED lone
    BY DEF TurnCommits
  <1>2. /\ turn'[t].pc = "log" /\ turn'[t].asked = turn[t].asked
        /\ turn'[t].conv = turn[t].conv
        /\ \A u \in Turns \ {t} : turn'[u] = turn[u]
        /\ clock \in Nat /\ \A m \in messages : m.turn \in Turns /\ m.at \in Nat
        /\ \A u \in Turns : turn[u].asked \in Nat
    BY <1>1 DEF TurnInv, Types, Turn, Message
  <1>3. /\ q.turn = t /\ q.conv = turn[t].conv /\ q.role = "user" /\ q.at = turn[t].asked
        /\ a.turn = t /\ a.conv = turn[t].conv /\ a.role = "assistant" /\ a.at = clock
    BY DEF Question, AnswerOf
  <1>4. /\ turn[t].asked < clock
        /\ \A m \in messages : m.at < clock /\ m.at # turn[t].asked /\ m.turn # t
    BY <1>1 DEF LoneInv, QuestionsAreNew, MessagesAreOrdered, Over
  <1> HIDE DEF q, a
  <1>5. MessagesAreOrdered'
    <2>1. IsFiniteSet(messages')
      <3>1. IsFiniteSet(messages \cup {q}) /\ messages' = (messages \cup {q}) \cup {a}
        BY <1>1, FS_AddElement DEF LoneInv, MessagesAreOrdered
      <3> QED
        BY <3>1, FS_AddElement
    <2>2. \A m \in messages' : m.at < clock'
      BY <1>1, <1>2, <1>3, <1>4
    <2>3. \A m, n \in messages' : m.at = n.at => m = n
      BY <1>1, <1>2, <1>3, <1>4 DEF LoneInv, MessagesAreOrdered
    <2>4. ASSUME NEW m \in messages'
          PROVE  /\ turn'[m.turn].pc \in Over /\ m.conv = turn'[m.turn].conv
                 /\ \/ m.role = "user" /\ m.at = turn'[m.turn].asked
                    \/ m.role = "assistant" /\ m.at > turn'[m.turn].asked
      <3>1. CASE m \in messages
        BY <1>2, <1>4, <3>1 DEF LoneInv, MessagesAreOrdered
      <3>2. CASE m \in {q, a}
        BY <1>2, <1>3, <1>4, <3>2 DEF Over
      <3> QED
        BY <1>1, <3>1, <3>2
    <2>5. \A m, n \in messages' : m.turn = n.turn /\ m.role = n.role => m = n
      BY <1>1, <1>3, <1>4 DEF LoneInv, MessagesAreOrdered
    <2> QED
      BY <2>1, <2>2, <2>3, <2>4, <2>5 DEF MessagesAreOrdered
  <1>6. QuestionsAreNew'
    BY <1>1, <1>2, <1>3, <1>4 DEF LoneInv, QuestionsAreNew
  <1>7. OverlapsAreSeen'
    BY <1>1, <1>2 DEF LoneInv, OverlapsAreSeen, Running
  <1>8. NothingSinceAsked'
    <2> SUFFICES ASSUME NEW u \in Turns, turn'[u].pc = "pipeline", NEW m \in messages',
                        m.conv = turn'[u].conv, u \in lone \/ m.turn \in lone
                 PROVE  m.at < turn'[u].asked
      BY <1>1 DEF NothingSinceAsked
    <2>1. u # t /\ turn'[u] = turn[u]
      BY <1>2
    <2>2. m \notin {q, a}
      BY <1>1, <1>3, <2>1 DEF LoneInv, OverlapsAreSeen, Running
    <2> QED
      BY <1>1, <2>1, <2>2 DEF LoneInv, NothingSinceAsked
  <1>9. LoneTurnsAreNeighbours'
    <2> SUFFICES ASSUME NEW x \in messages', NEW y \in messages', NEW m \in messages',
                        x.turn = y.turn, x.turn \in lone, m.conv = x.conv,
                        x.at < m.at, m.at < y.at
                 PROVE  FALSE
      BY <1>1 DEF LoneTurnsAreNeighbours
    <2>1. CASE x.turn = t
      <3>1. x = q /\ y = a
        <4>1. x \in {q, a} /\ y \in {q, a}
          BY <1>1, <1>4, <2>1
        <4>2. q.at \in Nat /\ a.at \in Nat /\ m.at \in Nat /\ q.at < a.at
          BY <1>1, <1>2, <1>3, <1>4
        <4> QED
          BY <4>1, <4>2
      <3>2. m \in messages /\ m.at > turn[t].asked /\ m.conv = turn[t].conv /\ t \in lone
        BY <1>1, <1>2, <1>3, <2>1, <3>1
      <3> QED
        BY <1>1, <1>2, <3>2 DEF LoneInv, NothingSinceAsked
    <2>2. CASE x.turn # t
      <3>1. x \in messages /\ y \in messages
        BY <1>1, <1>3, <2>2
      <3>2. CASE m \in messages
        BY <3>1, <3>2 DEF LoneInv, LoneTurnsAreNeighbours
      <3>3. CASE m = a
        BY <1>2, <1>3, <1>4, <3>1, <3>3
      <3>4. CASE m = q
        <4>1. y.conv = turn[t].conv /\ y.turn \in lone
          BY <1>3, <3>1, <3>4 DEF LoneInv, MessagesAreOrdered
        <4>2. y.at < turn[t].asked
          BY <1>1, <3>1, <4>1 DEF LoneInv, NothingSinceAsked
        <4> QED
          BY <1>2, <1>3, <3>1, <3>4, <4>2
      <3> QED
        BY <1>1, <3>2, <3>3, <3>4
    <2> QED
      BY <2>1, <2>2
  <1> QED
    BY <1>5, <1>6, <1>7, <1>8, <1>9 DEF LoneInv

\* One step per action.
LEMMA LoneNext == TurnInv /\ LoneInv /\ [Next]_vars => LoneInv'
  <1> SUFFICES ASSUME TurnInv, LoneInv, [Next]_vars PROVE LoneInv'
    OBVIOUS
  <1>0. turn \in [Turns -> Turn] /\ lone' \subseteq lone
    BY LoneShrinks DEF TurnInv, Types
  <1>1. ASSUME NEW t \in Turns, TurnStart(t) PROVE LoneInv'
    <2>1. PICK c \in Convs :
            /\ turn' = [turn EXCEPT ![t].pc = "history", ![t].conv = c]
            /\ LET overlapped == {u \in Turns : Running(u) /\ turn[u].conv = c}
               IN  lone' = IF overlapped = {} THEN lone
                                              ELSE lone \ (overlapped \cup {t})
      BY <1>1 DEF TurnStart
    <2>2. /\ turn[t].pc = "new" /\ UNCHANGED <<messages, clock>>
          /\ turn'[t].pc = "history" /\ turn'[t].conv = c
          /\ \A u \in Turns \ {t} : turn'[u] = turn[u]
      BY <1>0, <1>1, <2>1 DEF TurnStart, Turn
    <2>3. OverlapsAreSeen'
      <3> SUFFICES ASSUME NEW u \in Turns, NEW v \in Turns, u # v, Running(u)', Running(v)',
                          turn'[u].conv = turn'[v].conv
                   PROVE  u \notin lone'
        BY DEF OverlapsAreSeen
      <3>1. CASE u # t /\ v # t
        BY <1>0, <2>2, <3>1 DEF LoneInv, OverlapsAreSeen, Running
      <3>2. CASE u = t
        <4>1. Running(v) /\ turn[v].conv = c
          BY <2>2, <3>2 DEF Running
        <4> QED
          BY <2>1, <3>2, <4>1
      <3>3. CASE v = t
        <4>1. Running(u) /\ turn[u].conv = c
          BY <2>2, <3>3 DEF Running
        <4> QED
          BY <2>1, <4>1
      <3> QED
        BY <3>1, <3>2, <3>3
    <2> QED
      BY <1>0, <2>2, <2>3, NoMessageAdded DEF Over
  <1>2. ASSUME NEW t \in Turns, TurnAsks(t), turn'[t].pc = "pipeline" PROVE LoneInv'
    BY <1>2, AskKeepsLone
  <1>3. ASSUME NEW t \in Turns, TurnCommits(t) PROVE LoneInv'
    BY <1>3, CommitKeepsLone
  <1>4. ASSUME NEW t \in Turns, UNCHANGED <<messages, clock>>,
               \A u \in Turns \ {t} : turn'[u] = turn[u],
               /\ turn'[t].conv = turn[t].conv /\ turn'[t].asked = turn[t].asked
               /\ turn[t].pc \in Over => turn'[t].pc \in Over
               /\ turn'[t].pc # "pipeline"
               /\ Running(t)' => Running(t)
        PROVE  LoneInv'
    <2>1. OverlapsAreSeen'
      BY <1>0, <1>4 DEF LoneInv, OverlapsAreSeen, Running
    <2> QED
      BY <1>0, <1>4, <2>1, NoMessageAdded
  <1>5. ASSUME NEW t \in Turns, TurnReadsHistory(t) PROVE LoneInv'
    BY <1>0, <1>4, <1>5 DEF TurnReadsHistory, Turn, Over, Running
  <1>6. ASSUME NEW t \in Turns, TurnAsks(t), turn'[t].pc # "pipeline" PROVE LoneInv'
    BY <1>0, <1>4, <1>6 DEF TurnAsks, Turn, Over, Running
  <1>7. ASSUME NEW t \in Turns, TurnLogs(t) PROVE LoneInv'
    BY <1>0, <1>4, <1>7 DEF TurnLogs, Turn, Over, Running
  <1>8. ASSUME NEW t \in Turns, TurnFails(t) PROVE LoneInv'
    BY <1>0, <1>4, <1>8 DEF TurnFails, Turn, Over, Running
  <1>9. ASSUME messages' \subseteq messages, UNCHANGED <<turn, clock>> PROVE LoneInv'
    <2>1. OverlapsAreSeen'
      BY <1>0, <1>9 DEF LoneInv, OverlapsAreSeen, Running
    <2> QED
      BY <1>0, <1>9, <2>1, NoMessageAdded
  <1>10. ASSUME NEW c \in Convs, DeleteStart(c) \/ DeleteConversation(c) PROVE LoneInv'
    BY <1>9, <1>10 DEF DeleteStart, DeleteConversation
  <1>11. ASSUME NEW r \in Ratings, RatingStep(r) PROVE LoneInv'
    BY <1>9, <1>11 DEF RatingStep, RatingStart, RatingCheck, RatingSnapshot, RatingInsert,
                       GeneralFeedback, Step
  <1>12. CASE UNCHANGED vars
    BY <1>9, <1>12 DEF vars
  <1> QED
    BY <1>1, <1>2, <1>3, <1>5, <1>6, <1>7, <1>8, <1>10, <1>11, <1>12 DEF Next, TurnStep

-----------------------------------------------------------------------------
(* Histories of lone turns.                                                *)

\* A set of messages with both of every turn in it has an even number of them: the
\* questions and the answers are in bijection.
LEMMA WholeIsEven ==
    ASSUME TurnInv, LoneInv, NEW N \in SUBSET messages, Whole(N)
    PROVE  \E j \in Nat : Cardinality(N) = 2 * j
  <1> DEFINE Q == {m \in N : m.role = "user"}
             A == {m \in N : m.role = "assistant"}
             F == [q \in Q |-> CHOOSE a \in A : a.turn = q.turn]
  <1>1. \A m \in messages : m.role \in {"user", "assistant"}
    BY DEF TurnInv, Types, Message
  <1>2. \A q \in Q : \E a \in A : a.turn = q.turn
    BY <1>1 DEF Whole
  <1>3. \A a \in A : \E q \in Q : a.turn = q.turn
    BY <1>1 DEF Whole
  <1>4. \A m, n \in messages : m.turn = n.turn /\ m.role = n.role => m = n
    BY DEF LoneInv, MessagesAreOrdered
  <1>5. \A q \in Q : F[q] \in A /\ F[q].turn = q.turn
    BY <1>2
  <1>6. IsFiniteSet(N)
    BY FS_Subset DEF LoneInv, MessagesAreOrdered
  <1>7. IsFiniteSet(Q) /\ IsFiniteSet(A)
    BY <1>6, FS_Subset
  <1>8. F \in [Q -> A]
    BY <1>5
  <1>9. \A x, y \in Q : F[x] = F[y] => x = y
    BY <1>4, <1>5
  <1>10. \A a \in A : \E q \in Q : F[q] = a
    BY <1>3, <1>4, <1>5
  <1>11. N = Q \cup A /\ Q \cap A = {}
    BY <1>1
  <1> HIDE DEF Q, A, F
  <1>12. F \in Bijection(Q, A)
    <2>1. F \in Injection(Q, A)
      BY <1>8, <1>9 DEF Injection, IsInjective
    <2>2. F \in Surjection(Q, A)
      BY <1>8, <1>10, Zenon DEF Surjection
    <2> QED
      BY <2>1, <2>2, Zenon DEF Bijection
  <1>13. Cardinality(A) = Cardinality(Q)
    BY <1>7, <1>12, FS_Bijection DEF ExistsBijection
  <1>14. Cardinality(N) = Cardinality(Q) + Cardinality(A) - 0
    BY <1>7, <1>11, FS_Union, FS_EmptySet
  <1>15. Cardinality(Q) \in Nat
    BY <1>7, FS_CardinalityType
  <1> QED
    BY <1>13, <1>14, <1>15

\* The newest messages of a conversation are whole turns when all of them are lone:
\* the two of a turn are neighbours, and an even limit does not cut between them.
LEMMA NewestIsWhole ==
    ASSUME TurnInv, LoneInv, NEW c \in Convs,
           \A m \in Newest(MessagesOf(c), HistoryLimit) : m.turn \in lone
    PROVE  Whole(Newest(MessagesOf(c), HistoryLimit))
  <1> DEFINE S == MessagesOf(c)
             H == Newest(S, HistoryLimit)
             Newer(m) == {o \in S : o.at > m.at}
  <1>1. /\ S \subseteq messages /\ \A m \in S : m.conv = c
        /\ \A m \in messages : m.conv = c => m \in S
    BY DEF MessagesOf
  <1>2. H = {m \in S : Cardinality(Newer(m)) < HistoryLimit}
    BY DEF Newest
  <1>3. /\ \A m \in messages : m.at \in Nat /\ m.role \in {"user", "assistant"}
        /\ \A m, n \in messages : m.at = n.at => m = n
        /\ \A m, n \in messages : m.turn = n.turn /\ m.role = n.role => m = n
    BY DEF TurnInv, Types, Message, LoneInv, MessagesAreOrdered
  <1>4. \A m \in S : \E o \in S : o.turn = m.turn /\ o.role # m.role
    BY <1>1 DEF TurnInv, StoredTurnsAreWhole
  <1>5. \A q, a, m \in S : q.turn = a.turn /\ q.turn \in lone => ~(q.at < m.at /\ m.at < a.at)
    BY <1>1 DEF LoneInv, LoneTurnsAreNeighbours
  <1>6. \A m : IsFiniteSet(Newer(m)) /\ Cardinality(Newer(m)) \in Nat
    <2> SUFFICES ASSUME NEW m PROVE IsFiniteSet(Newer(m)) /\ Cardinality(Newer(m)) \in Nat
      OBVIOUS
    <2>1. IsFiniteSet(Newer(m))
      BY <1>1, FS_Subset DEF LoneInv, MessagesAreOrdered
    <2> QED
      BY <2>1, FS_CardinalityType
  <1>7. \A m \in H : m \in S /\ m.turn \in lone
    BY <1>2
  <1> HIDE DEF S, H
  <1>8. ASSUME NEW m \in H, NEW o \in S, o.at > m.at PROVE o \in H
    <2>1. Newer(o) \subseteq Newer(m)
      BY <1>1, <1>3, <1>7, <1>8
    <2>2. Cardinality(Newer(o)) <= Cardinality(Newer(m))
      <3> HIDE DEF Newer
      <3> QED
        BY <1>6, <2>1, FS_Subset
    <2>3. Cardinality(Newer(m)) < HistoryLimit
      BY <1>2
    <2>4. Cardinality(Newer(o)) < HistoryLimit
      <3> HIDE DEF Newer
      <3> QED
        BY <1>6, <2>2, <2>3, HistoryAssumption
    <2> QED
      BY <1>2, <2>4
  <1>9. ASSUME NEW m \in H, NEW o \in S, o.turn = m.turn, o.role # m.role, o.at < m.at
        PROVE  o \in H
    <2>1. Newer(o) = Newer(m) \cup {m}
      BY <1>1, <1>3, <1>5, <1>7, <1>9
    <2>2. m \notin Newer(m)
      BY <1>1, <1>3, <1>7
    <2>3. Cardinality(Newer(o)) = Cardinality(Newer(m)) + 1
      <3> HIDE DEF Newer
      <3> QED
        BY <1>6, <2>1, <2>2, FS_AddElement
    <2>4. Whole(Newer(m))
      <3> SUFFICES ASSUME NEW x \in Newer(m)
                   PROVE  \E y \in Newer(m) : y.turn = x.turn /\ y.role # x.role
        BY DEF Whole
      <3>1. x \in S /\ x.at > m.at /\ x.turn \in lone
        BY <1>7, <1>8
      <3>2. PICK y \in S : y.turn = x.turn /\ y.role # x.role
        BY <1>4, <3>1
      <3>3. ~(y.at < m.at /\ m.at < x.at)
        BY <1>5, <1>7, <3>1, <3>2
      <3>4. ASSUME y.at = m.at PROVE FALSE
        <4>1. y = m
          BY <1>1, <1>3, <1>7, <3>2, <3>4
        <4>2. x = o
          BY <1>1, <1>3, <1>7, <1>9, <3>1, <3>2, <4>1
        <4> QED
          BY <1>1, <1>3, <1>7, <1>9, <3>1, <4>2
      <3>5. y.at > m.at
        BY <1>1, <1>3, <1>7, <3>1, <3>2, <3>3, <3>4
      <3> QED
        BY <3>2, <3>5
    <2>5. PICK j \in Nat : Cardinality(Newer(m)) = 2 * j
      <3>1. Newer(m) \in SUBSET messages
        BY <1>1
      <3> HIDE DEF Newer
      <3> QED
        BY <2>4, <3>1, WholeIsEven
    <2>6. 2 * j < HistoryLimit
      BY <1>2, <2>5
    <2>7. 2 * j + 1 # HistoryLimit
      BY HistoryAssumption
    <2> QED
      BY <1>2, <2>3, <2>5, <2>6, <2>7, HistoryAssumption
  <1>10. ASSUME NEW m \in H PROVE \E o \in H : o.turn = m.turn /\ o.role # m.role
    <2>1. PICK o \in S : o.turn = m.turn /\ o.role # m.role
      BY <1>4, <1>7
    <2>2. o.at < m.at \/ o.at > m.at
      BY <1>1, <1>3, <1>7, <2>1
    <2> QED
      BY <1>8, <1>9, <2>1, <2>2
  <1> QED
    BY <1>10 DEF Whole, H, S

\* A turn is given whole turns to read, if no two of them overlapped.
THEOREM LoneHistoriesStayWhole == Spec => []LoneHistoriesAreWhole
  <1>1. Init => LoneHistoriesAreWhole
    BY DEF Init, LoneHistoriesAreWhole, Whole
  <1>2. TurnInv /\ LoneInv /\ LoneHistoriesAreWhole /\ [Next]_vars => LoneHistoriesAreWhole'
    <2> SUFFICES ASSUME TurnInv, LoneInv, LoneHistoriesAreWhole, [Next]_vars
                 PROVE  LoneHistoriesAreWhole'
      OBVIOUS
    <2>0. turn \in [Turns -> Turn] /\ lone' \subseteq lone
      BY LoneShrinks DEF TurnInv, Types
    <2>1. ASSUME \A t \in Turns : turn'[t].history = turn[t].history
          PROVE  LoneHistoriesAreWhole'
      BY <2>0, <2>1 DEF LoneHistoriesAreWhole, Whole
    <2>2. ASSUME NEW t \in Turns, TurnReadsHistory(t) PROVE LoneHistoriesAreWhole'
      <3> DEFINE c == turn[t].conv
                 H == Newest(MessagesOf(c), HistoryLimit)
      <3>1. /\ turn'[t].history = H
            /\ \A u \in Turns \ {t} : turn'[u].history = turn[u].history
        BY <2>0, <2>2 DEF TurnReadsHistory, Turn
      <3>2. c \in Convs
        BY <2>2 DEF TurnReadsHistory, TurnInv, Types, Running
      <3>3. (\A m \in H : m.turn \in lone) => Whole(H)
        BY <3>2, NewestIsWhole
      <3> HIDE DEF H
      <3> QED
        BY <2>0, <3>1, <3>3 DEF LoneHistoriesAreWhole, Whole
    <2>3. ASSUME NEW t \in Turns, TurnStep(t), ~TurnReadsHistory(t)
          PROVE  LoneHistoriesAreWhole'
      BY <2>0, <2>1, <2>3 DEF TurnStep, TurnStart, TurnAsks, TurnCommits, TurnLogs, TurnFails,
                              Turn
    <2>4. CASE UNCHANGED turn
      BY <2>1, <2>4
    <2>5. \/ UNCHANGED turn
          \/ \E t \in Turns : TurnStep(t)
      BY DEF Next, vars, DeleteStart, DeleteConversation, RatingStep, RatingStart, RatingCheck,
             RatingSnapshot, RatingInsert, GeneralFeedback, Step
    <2> QED
      BY <2>2, <2>3, <2>4, <2>5
  <1> QED
    BY <1>1, <1>2, TurnInit, TurnNext, LoneInit, LoneNext, PTL DEF Spec

-----------------------------------------------------------------------------
(* Feedback on lone answers.                                               *)

\* The answer being rated comes from a turn that is over.
RatedIsOver ==
    \A r \in Ratings : rating[r].pc \in {"check", "question", "insert"} =>
        rating[r].answer \in Turns /\ turn[rating[r].answer].pc \in Over

\* The snapshot about to be inserted is right, or there is nothing left to insert it for.
SnapshotIsRight ==
    \A r \in Ratings : rating[r].pc = "insert" =>
        \/ rating[r].answer \in lone => rating[r].question = rating[r].answer
        \/ Gone(rating[r].answer)

SnapshotInv ==
    RatedIsOver /\ SnapshotIsRight /\ LoneAnswersAreRatedWithTheirQuestion

\* No turn that is over starts again, and no answer of one comes back.
LEMMA OverStaysOver ==
    ASSUME TurnInv, [Next]_vars, NEW t \in Turns, turn[t].pc \in Over
    PROVE  turn'[t].pc \in Over /\ (Gone(t) => Gone(t)')
  <1>0. turn \in [Turns -> Turn]
    BY DEF TurnInv, Types
  <1>1. ASSUME NEW u \in Turns, TurnStep(u)
        PROVE  turn'[t].pc \in Over /\ \A m \in Answers' : m.turn = t => m \in Answers
    <2>1. turn'[t].pc \in Over
      BY <1>0, <1>1 DEF TurnStep, TurnStart, TurnReadsHistory, TurnAsks, TurnCommits, TurnLogs,
                        TurnFails, Turn, Over, Running
    <2>2. CASE TurnCommits(u)
      <3>1. u # t /\ messages' = messages \cup {Question(u), AnswerOf(u)}
        BY <2>2 DEF TurnCommits, Over
      <3>2. Question(u).turn = u /\ AnswerOf(u).turn = u
        BY DEF Question, AnswerOf
      <3> QED
        BY <2>1, <3>1, <3>2 DEF Answers
    <2>3. CASE ~TurnCommits(u)
      BY <1>1, <2>1, <2>3 DEF TurnStep, TurnStart, TurnReadsHistory, TurnAsks, TurnLogs,
                              TurnFails, Answers
    <2> QED
      BY <2>2, <2>3
  <1>2. ASSUME UNCHANGED turn, messages' \subseteq messages
        PROVE  turn'[t].pc \in Over /\ \A m \in Answers' : m.turn = t => m \in Answers
    BY <1>2 DEF Answers
  <1>3. turn'[t].pc \in Over /\ \A m \in Answers' : m.turn = t => m \in Answers
    <2>1. \/ \E u \in Turns : TurnStep(u)
          \/ UNCHANGED turn /\ messages' \subseteq messages
      BY DEF Next, vars, DeleteStart, DeleteConversation, RatingStep, RatingStart, RatingCheck,
             RatingSnapshot, RatingInsert, GeneralFeedback, Step
    <2> QED
      BY <1>1, <1>2, <2>1
  <1> QED
    BY <1>3 DEF Gone, Over

\* The question found for the answer of a lone turn is that turn's own: it is stored
\* with the answer, and nothing is stored between the two.
LEMMA LoneQuestionIsFound ==
    ASSUME TurnInv, LoneInv, NEW m \in Answers, m.turn \in lone
    PROVE  /\ PrecedingQuestion(m) # {}
           /\ \A q \in PrecedingQuestion(m) : q.turn = m.turn
  <1> DEFINE S == {q \in MessagesOf(m.conv) : q.role = "user" /\ q.at < m.at}
             Newer(q) == {o \in S : o.at > q.at}
  <1>1. /\ \A x \in messages : /\ x.at \in Nat /\ x.role \in {"user", "assistant"}
                               /\ x.turn \in Turns
        /\ \A x, y \in messages : x.at = y.at => x = y
        /\ m \in messages /\ m.role = "assistant"
    BY DEF TurnInv, Types, Message, LoneInv, MessagesAreOrdered, Answers
  <1>2. PICK own \in messages : own.turn = m.turn /\ own.conv = m.conv /\ own.role # m.role
    BY <1>1 DEF TurnInv, StoredTurnsAreWhole
  <1>3. own \in S
    <2>1. own.role = "user"
      BY <1>1, <1>2
    <2>2. own.at = turn[m.turn].asked
      BY <1>2, <2>1 DEF LoneInv, MessagesAreOrdered
    <2>3. m.at > turn[m.turn].asked
      BY <1>1 DEF LoneInv, MessagesAreOrdered
    <2>4. own.at < m.at
      BY <1>1, <2>2, <2>3
    <2> QED
      BY <1>2, <2>1, <2>4 DEF MessagesOf
  <1>4. \A q \in S : q \in messages /\ q.conv = m.conv /\ q.at < m.at
    BY DEF MessagesOf
  <1>5. \A q \in S : ~(own.at < q.at)
    BY <1>1, <1>2, <1>4 DEF LoneInv, LoneTurnsAreNeighbours
  <1>6. PrecedingQuestion(m) = {q \in S : Cardinality(Newer(q)) < 1}
    BY DEF PrecedingQuestion, Newest
  <1>7. Newer(own) = {}
    BY <1>1, <1>3, <1>4, <1>5
  <1>8. own \in PrecedingQuestion(m)
    BY <1>3, <1>6, <1>7, FS_EmptySet
  <1>9. ASSUME NEW q \in PrecedingQuestion(m) PROVE q = own
    <2>1. q \in S /\ Cardinality(Newer(q)) < 1
      BY <1>6
    <2>2. IsFiniteSet(Newer(q))
      <3>1. Newer(q) \in SUBSET messages
        BY <1>4
      <3> QED
        BY <3>1, FS_Subset DEF LoneInv, MessagesAreOrdered
    <2>3. Newer(q) = {}
      <3> HIDE DEF Newer
      <3>1. Cardinality(Newer(q)) \in Nat
        BY <2>2, FS_CardinalityType
      <3>2. Cardinality(Newer(q)) = 0
        BY <2>1, <3>1
      <3> QED
        BY <2>2, <3>2, FS_EmptySet
    <2>4. ~(own.at > q.at)
      BY <1>3, <2>3
    <2> QED
      BY <1>1, <1>3, <1>4, <1>5, <2>1, <2>4
  <1> QED
    BY <1>2, <1>8, <1>9

\* A rating takes a step that adds no row.
LEMMA RatingMovesOn ==
    ASSUME TurnInv, RatingInv, SnapshotInv, [Next]_vars, NEW r \in Ratings, NEW new,
           Step(r, new), UNCHANGED feedback,
           new.pc \in {"check", "question", "insert"} =>
              new.answer \in Turns /\ turn[new.answer].pc \in Over,
           new.pc = "insert" =>
              \/ new.answer \in lone => new.question = new.answer
              \/ Gone(new.answer)
    PROVE  SnapshotInv'
  <1>1. /\ rating'[r] = new /\ \A q \in Ratings \ {r} : rating'[q] = rating[q]
        /\ UNCHANGED <<turn, messages, lone, feedback>>
    BY DEF Step, RatingInv, RatingTypes
  <1>2. \A a : Gone(a)' <=> Gone(a)
    BY <1>1 DEF Gone, Answers
  <1>3. RatedIsOver'
    BY <1>1 DEF SnapshotInv, RatedIsOver
  <1>4. SnapshotIsRight'
    BY <1>1, <1>2 DEF SnapshotInv, SnapshotIsRight
  <1>5. LoneAnswersAreRatedWithTheirQuestion'
    BY <1>1 DEF SnapshotInv, LoneAnswersAreRatedWithTheirQuestion
  <1> QED
    BY <1>3, <1>4, <1>5 DEF SnapshotInv

\* Every other step leaves the ratings alone.
LEMMA RatingsLeftAlone ==
    ASSUME TurnInv, RatingInv, SnapshotInv, [Next]_vars, UNCHANGED rating,
           LoneAnswersAreRatedWithTheirQuestion'
    PROVE  SnapshotInv'
  <1>1. RatedIsOver'
    BY OverStaysOver DEF SnapshotInv, RatedIsOver
  <1>2. SnapshotIsRight'
    <2> SUFFICES ASSUME NEW r \in Ratings, rating[r].pc = "insert"
                 PROVE  \/ rating[r].answer \in lone' => rating[r].question = rating[r].answer
                        \/ Gone(rating[r].answer)'
      BY DEF SnapshotIsRight, Gone
    <2>1. rating[r].answer \in Turns /\ turn[rating[r].answer].pc \in Over
      BY DEF SnapshotInv, RatedIsOver
    <2>2. Gone(rating[r].answer) => Gone(rating[r].answer)'
      BY <2>1, OverStaysOver DEF Gone
    <2> QED
      BY <2>2, LoneShrinks DEF SnapshotInv, SnapshotIsRight
  <1> QED
    BY <1>1, <1>2 DEF SnapshotInv

\* One step per action.
LEMMA SnapshotNext ==
    TurnInv /\ RatingInv /\ LoneInv /\ OtherTypes /\ SnapshotInv /\ [Next]_vars => SnapshotInv'
  <1> SUFFICES ASSUME TurnInv, RatingInv, LoneInv, OtherTypes, SnapshotInv, [Next]_vars
               PROVE  SnapshotInv'
    OBVIOUS
  <1>0. /\ \A r \in Ratings : rating[r] \in Rating
        /\ \A f \in feedback : f \in Feedback
        /\ lone \subseteq Turns /\ lone' \subseteq lone /\ Nothing \notin Turns
        /\ \A m \in Answers : /\ m \in messages /\ m.turn \in Turns
                               /\ turn[m.turn].pc \in Over
    BY LoneShrinks, NothingAssumption
       DEF RatingInv, RatingTypes, OtherTypes, TurnInv, Types, Message, LoneInv,
           MessagesAreOrdered, Answers
  <1>1. ASSUME NEW r \in Ratings, RatingStart(r) PROVE SnapshotInv'
    <2>1. PICK m \in Answers :
            Step(r, [rating[r] EXCEPT !.pc = "check", !.answer = m.turn,
                                      !.late = FeedbackOn(m.turn) # {}])
      BY <1>1 DEF RatingStart
    <2> DEFINE new == [rating[r] EXCEPT !.pc = "check", !.answer = m.turn,
                                        !.late = FeedbackOn(m.turn) # {}]
    <2>2. new.pc = "check" /\ new.answer = m.turn /\ UNCHANGED feedback
      BY <1>0, <1>1 DEF RatingStart, Rating
    <2> HIDE DEF new
    <2> QED
      BY <1>0, <2>1, <2>2, RatingMovesOn DEF new
  <1>2. ASSUME NEW r \in Ratings, RatingCheck(r) PROVE SnapshotInv'
    <2>1. PICK new :
            /\ Step(r, new) /\ UNCHANGED feedback /\ rating[r].pc = "check"
            /\ new.answer = rating[r].answer /\ new.pc \in {"question", "done", "failed"}
      <3> DEFINE existing == FeedbackOn(rating[r].answer)
                 new == [rating[r] EXCEPT
                     !.pc = IF existing = {} THEN "question"
                            ELSE IF \A f, g \in existing : f = g THEN "done" ELSE "failed"]
      <3>1. Step(r, new) /\ UNCHANGED feedback /\ rating[r].pc = "check"
        BY <1>2 DEF RatingCheck
      <3>2. new.answer = rating[r].answer /\ new.pc \in {"question", "done", "failed"}
        BY <1>0 DEF Rating
      <3> QED
        BY <3>1, <3>2
    <2> QED
      BY <2>1, RatingMovesOn DEF SnapshotInv, RatedIsOver
  <1>3. ASSUME NEW r \in Ratings, RatingSnapshot(r) PROVE SnapshotInv'
    <2> DEFINE rated == {m \in Answers : m.turn = rating[r].answer}
               found == UNION {PrecedingQuestion(m) : m \in rated}
    <2>1. PICK q \in {m.turn : m \in found} \cup (IF found = {} THEN {Nothing} ELSE {}) :
            Step(r, [rating[r] EXCEPT !.pc = "insert", !.question = q])
      BY <1>3 DEF RatingSnapshot
    <2>2. rating[r].pc = "question" /\ UNCHANGED feedback
      BY <1>3 DEF RatingSnapshot
    <2>3. rating[r].answer \in Turns /\ turn[rating[r].answer].pc \in Over
      BY <2>2 DEF SnapshotInv, RatedIsOver
    <2>4. (rating[r].answer \in lone => q = rating[r].answer) \/ Gone(rating[r].answer)
      <3>1. CASE rated = {}
        BY <2>3, <3>1 DEF Gone, Over
      <3>2. CASE rated # {} /\ rating[r].answer \in lone
        <4>1. \A m \in rated :
                 PrecedingQuestion(m) # {} /\ \A x \in PrecedingQuestion(m) : x.turn = m.turn
          BY <3>2, LoneQuestionIsFound
        <4>2. found # {} /\ \A x \in found : x.turn = rating[r].answer
          BY <3>2, <4>1
        <4> HIDE DEF found
        <4> QED
          BY <4>2
      <3> QED
        BY <3>1, <3>2
    <2> DEFINE new == [rating[r] EXCEPT !.pc = "insert", !.question = q]
    <2>5. new.pc = "insert" /\ new.answer = rating[r].answer /\ new.question = q
      BY <1>0 DEF Rating
    <2> HIDE DEF new, found
    <2> QED
      BY <2>1, <2>2, <2>3, <2>4, <2>5, RatingMovesOn DEF new
  <1>4. ASSUME NEW r \in Ratings, NEW f, f \in Feedback, rating'[r].pc = "done",
               UNCHANGED <<turn, messages, lone>>,
               \A q \in Ratings \ {r} : rating'[q] = rating[q],
               feedback' = feedback \cup {f},
               f.response \in lone => f.question = f.response
        PROVE  SnapshotInv'
    <2>1. \A a : Gone(a)' <=> Gone(a)
      BY <1>4 DEF Gone, Answers
    <2>2. RatedIsOver' /\ SnapshotIsRight'
      BY <1>4, <2>1 DEF SnapshotInv, RatedIsOver, SnapshotIsRight
    <2>3. LoneAnswersAreRatedWithTheirQuestion'
      BY <1>4 DEF SnapshotInv, LoneAnswersAreRatedWithTheirQuestion
    <2> QED
      BY <2>2, <2>3 DEF SnapshotInv
  <1>5. ASSUME NEW r \in Ratings, RatingInsert(r) PROVE SnapshotInv'
    <2>1. CASE \E m \in Answers : m.turn = rating[r].answer
      <3> DEFINE f == [id |-> r, answer |-> rating[r].answer,
                       question |-> rating[r].question, response |-> rating[r].answer]
      <3>1. feedback' = feedback \cup {f} /\ Step(r, [rating[r] EXCEPT !.pc = "done"])
        BY <1>5, <2>1 DEF RatingInsert
      <3>2. f \in Feedback /\ f.response = rating[r].answer /\ f.question = rating[r].question
        BY <1>0 DEF Feedback, Rating
      <3>3. f.response \in lone => f.question = f.response
        BY <1>5, <2>1, <3>2 DEF SnapshotInv, SnapshotIsRight, RatingInsert, Gone
      <3>4. rating'[r].pc = "done" /\ \A q \in Ratings \ {r} : rating'[q] = rating[q]
        BY <1>0, <3>1 DEF Step, Rating, RatingInv, RatingTypes
      <3> HIDE DEF f
      <3> QED
        BY <1>4, <3>1, <3>2, <3>3, <3>4 DEF Step
    <2>2. CASE ~\E m \in Answers : m.turn = rating[r].answer
      <3> DEFINE new == [rating[r] EXCEPT !.pc = "failed"]
      <3>1. new.pc = "failed"
        BY <1>0 DEF Rating
      <3>2. UNCHANGED feedback /\ Step(r, new)
        BY <1>5, <2>2 DEF RatingInsert
      <3> HIDE DEF new
      <3> QED
        BY <3>1, <3>2, RatingMovesOn
    <2> QED
      BY <2>1, <2>2
  <1>6. ASSUME NEW r \in Ratings, GeneralFeedback(r) PROVE SnapshotInv'
    <2> DEFINE f == [id |-> r, answer |-> Nothing, question |-> Nothing, response |-> Nothing]
    <2>1. feedback' = feedback \cup {f} /\ Step(r, [rating[r] EXCEPT !.pc = "done"])
      BY <1>6 DEF GeneralFeedback
    <2>2. f \in Feedback /\ f.response = Nothing
      BY DEF Feedback
    <2>3. rating'[r].pc = "done" /\ \A q \in Ratings \ {r} : rating'[q] = rating[q]
      BY <1>0, <2>1 DEF Step, Rating, RatingInv, RatingTypes
    <2> HIDE DEF f
    <2> QED
      BY <1>0, <1>4, <2>1, <2>2, <2>3 DEF Step
  <1>7. ASSUME NEW c \in Convs, DeleteConversation(c) PROVE SnapshotInv'
    <2>1. UNCHANGED rating /\ feedback' = {Detached(f, c) : f \in feedback}
      BY <1>7 DEF DeleteConversation, FeedbackDetached
    <2>2. \A f \in feedback :
             Detached(f, c).question = f.question /\ Detached(f, c).response = f.response
      BY <1>0 DEF Detached, Feedback
    <2>3. LoneAnswersAreRatedWithTheirQuestion'
      BY <1>0, <2>1, <2>2 DEF SnapshotInv, LoneAnswersAreRatedWithTheirQuestion
    <2> QED
      BY <2>1, <2>3, RatingsLeftAlone
  <1>8. ASSUME UNCHANGED <<rating, feedback>> PROVE SnapshotInv'
    <2>1. LoneAnswersAreRatedWithTheirQuestion'
      BY <1>0, <1>8 DEF SnapshotInv, LoneAnswersAreRatedWithTheirQuestion
    <2> QED
      BY <1>8, <2>1, RatingsLeftAlone
  <1>9. ASSUME NEW t \in Turns, TurnStep(t) PROVE SnapshotInv'
    BY <1>8, <1>9 DEF TurnStep, TurnStart, TurnReadsHistory, TurnAsks, TurnCommits, TurnLogs,
                      TurnFails
  <1>10. ASSUME NEW c \in Convs, DeleteStart(c) PROVE SnapshotInv'
    BY <1>8, <1>10 DEF DeleteStart
  <1>11. CASE UNCHANGED vars
    BY <1>8, <1>11 DEF vars
  <1> QED
    BY <1>1, <1>2, <1>3, <1>5, <1>6, <1>7, <1>9, <1>10, <1>11 DEF Next, RatingStep

\* What is stored with a rating is the question of the rated answer, if no turn
\* overlapped the one of the answer.
THEOREM LoneAnswersKeepTheirQuestion == Spec => []LoneAnswersAreRatedWithTheirQuestion
  <1>1. Init => SnapshotInv
    BY DEF Init, SnapshotInv, RatedIsOver, SnapshotIsRight, LoneAnswersAreRatedWithTheirQuestion
  <1>2. SnapshotInv => LoneAnswersAreRatedWithTheirQuestion
    BY DEF SnapshotInv
  <1> QED
    BY <1>1, <1>2, SnapshotNext, OtherTypesInit, OtherTypesNext, RatingInit, RatingNext,
       TurnInit, TurnNext, LoneInit, LoneNext, PTL DEF Spec
=============================================================================
