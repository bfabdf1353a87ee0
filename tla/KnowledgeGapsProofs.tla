------------------------ MODULE KnowledgeGapsProofs ------------------------
(***************************************************************************)
(* Proofs about KnowledgeGaps, for any texts and any finite number of      *)
(* background tasks, and about ChatServing, whose requests have them.      *)
(***************************************************************************)
EXTENDS ChatServing, FiniteSetTheorems, TLAPS

-----------------------------------------------------------------------------
(* Types.                                                                  *)

\* A task with the database has some text.
TextIsThere ==
    \A t \in Tasks : task[t].pc \in {"select", "insert", "update"} => task[t].text \in Texts

GapTypes == GapTypeOK /\ TextIsThere

\* The initial tasks are of their type, and none has begun.
LEMMA TypeInit == GapInit => GapTypes
  BY DEF GapInit, GapTypes, TextIsThere, GapTypeOK, Task, TaskSteps

\* Every step of a task keeps the types: what is written to a row is the
\* number that was read from it, plus one.
LEMMA TypeNext == GapTypes /\ [GapNext]_gapVars => GapTypes'
  <1> SUFFICES ASSUME GapTypes, [GapNext]_gapVars PROVE GapTypes'
    OBVIOUS
  <1> USE DEF GapTypes, TextIsThere, GapTypeOK, Task, TaskSteps
  <1>1. ASSUME NEW t \in Tasks, Classify(t) PROVE GapTypes'
    BY <1>1 DEF Classify
  <1>2. ASSUME NEW t \in Tasks, Select(t) PROVE GapTypes'
    BY <1>2 DEF Select
  <1>3. ASSUME NEW t \in Tasks, Insert(t) PROVE GapTypes'
    BY <1>3 DEF Insert
  <1>4. ASSUME NEW t \in Tasks, Update(t) PROVE GapTypes'
    BY <1>4 DEF Update
  <1>5. ASSUME NEW t \in Tasks, TaskFails(t) PROVE GapTypes'
    BY <1>5 DEF TaskFails
  <1>6. CASE UNCHANGED gapVars
    BY <1>6 DEF gapVars
  <1> QED
    BY <1>1, <1>2, <1>3, <1>4, <1>5, <1>6 DEF GapNext

\* Rows, tasks and history keep their types.
THEOREM GapTypeCorrect == GapSpec => []GapTypeOK
  <1>1. GapTypes => GapTypeOK
    BY DEF GapTypes
  <1>2. QED
    BY <1>1, TypeInit, TypeNext, PTL DEF GapSpec

-----------------------------------------------------------------------------
(* Counts are earned.  A count that was read is not above the recordings   *)
(* there were then, hence not above those there are when it is written; a  *)
(* task that is still to write is not among them.                          *)

ReadsAreEarned ==
    \A t \in Tasks : task[t].pc = "update" =>
        task[t].read >= 1 /\ task[t].read <= Cardinality(Recorded(task[t].text))

OnlyDoneIsRecorded == \A t \in recorded : task[t].pc = "done"

CountInv == GapTypes /\ CountsAreEarned /\ ReadsAreEarned /\ OnlyDoneIsRecorded

\* Recordings can be counted.
LEMMA RecordedIsFinite ==
    ASSUME GapTypeOK, NEW q
    PROVE  IsFiniteSet(Recorded(q)) /\ Cardinality(Recorded(q)) \in Nat
  <1>1. Recorded(q) \subseteq Tasks
    BY DEF GapTypeOK, Recorded
  <1> QED
    BY <1>1, TasksAssumption, FS_Subset, FS_CardinalityType

\* A task that is recorded now was not before: its text has one recording
\* more, every other text as many as it had.
LEMMA OneMoreRecorded ==
    ASSUME CountInv, NEW t \in Tasks, task[t].pc # "done",
           recorded' = recorded \cup {t}, task' = [task EXCEPT ![t].pc = "done"]
    PROVE  /\ Recorded(task[t].text)' # {}
           /\ Cardinality(Recorded(task[t].text)') = Cardinality(Recorded(task[t].text)) + 1
           /\ \A q \in Texts : q # task[t].text => Recorded(q)' = Recorded(q)
  <1>1. \A u \in Tasks : task'[u].text = task[u].text
    BY DEF CountInv, GapTypes, GapTypeOK, Task
  <1>2. recorded \subseteq Tasks /\ t \notin recorded
    BY DEF CountInv, GapTypes, GapTypeOK, OnlyDoneIsRecorded
  <1>3. \A q : Recorded(q)' = {u \in recorded \cup {t} : task[u].text = q}
    BY <1>1, <1>2 DEF Recorded
  <1>4. Recorded(task[t].text)' = Recorded(task[t].text) \cup {t}
    BY <1>3 DEF Recorded
  <1>5. t \notin Recorded(task[t].text)
    BY <1>2 DEF Recorded
  <1>6. IsFiniteSet(Recorded(task[t].text))
    BY RecordedIsFinite DEF CountInv, GapTypes
  <1>7. Cardinality(Recorded(task[t].text) \cup {t}) = Cardinality(Recorded(task[t].text)) + 1
    BY <1>5, <1>6, FS_AddElement
  <1>8. \A q : q # task[t].text => Recorded(q)' = Recorded(q)
    BY <1>3 DEF Recorded
  <1>9. Cardinality(Recorded(task[t].text)') = Cardinality(Recorded(task[t].text)) + 1
    BY <1>4, <1>7
  <1> QED
    BY <1>4, <1>8, <1>9

\* A task that moves on without committing changes no count and no recording.
LEMMA OnlyMoves ==
    ASSUME CountInv, GapTypes', NEW t \in Tasks, task[t].pc # "done",
           UNCHANGED <<count, recorded>>,
           \A u \in Tasks : task'[u].text = task[u].text /\ (u # t => task'[u] = task[u]),
           task'[t].pc = "update" => /\ task'[t].read >= 1
                                     /\ task'[t].read <= Cardinality(Recorded(task[t].text))
    PROVE  CountInv'
  <1>1. recorded \subseteq Tasks /\ t \notin recorded
    BY DEF CountInv, GapTypes, GapTypeOK, OnlyDoneIsRecorded
  <1>2. \A q : Recorded(q)' = Recorded(q)
    BY <1>1 DEF Recorded
  <1>3. CountsAreEarned'
    BY <1>2 DEF CountInv, CountsAreEarned
  <1>4. ReadsAreEarned'
    BY <1>2 DEF CountInv, ReadsAreEarned
  <1>5. OnlyDoneIsRecorded'
    BY <1>1 DEF CountInv, OnlyDoneIsRecorded
  <1> QED
    BY <1>3, <1>4, <1>5 DEF CountInv

\* A task commits a count that is at least one and not above the recordings,
\* its own now being one of them.
LEMMA Commits ==
    ASSUME CountInv, GapTypes', NEW t \in Tasks, task[t].pc # "done",
           recorded' = recorded \cup {t}, task' = [task EXCEPT ![t].pc = "done"],
           task[t].text \in Texts,
           NEW n \in Nat, n >= 1, n <= Cardinality(Recorded(task[t].text)) + 1,
           count' = [count EXCEPT ![task[t].text] = n]
    PROVE  CountInv'
  <1> DEFINE q0 == task[t].text
  <1>1. /\ Recorded(q0)' # {}
        /\ Cardinality(Recorded(q0)') = Cardinality(Recorded(q0)) + 1
        /\ \A q \in Texts : q # q0 => Recorded(q)' = Recorded(q)
    BY OneMoreRecorded
  <1>2. \A q : Cardinality(Recorded(q)) \in Nat
    BY RecordedIsFinite DEF CountInv, GapTypes
  <1>3. CountsAreEarned'
    <2> SUFFICES ASSUME NEW q \in Texts
                 PROVE  /\ count'[q] <= Cardinality(Recorded(q)')
                        /\ Recorded(q)' # {} => count'[q] >= 1
      BY DEF CountsAreEarned
    <2>1. CASE q = q0
      BY <1>1, <2>1 DEF CountInv, GapTypes, GapTypeOK
    <2>2. CASE q # q0
      BY <1>1, <2>2 DEF CountInv, CountsAreEarned, GapTypes, GapTypeOK
    <2> QED
      BY <2>1, <2>2
  <1>4. ReadsAreEarned'
    <2> SUFFICES ASSUME NEW u \in Tasks, task'[u].pc = "update"
                 PROVE  /\ task'[u].read >= 1
                        /\ task'[u].read <= Cardinality(Recorded(task[u].text))'
      BY DEF ReadsAreEarned
    <2>1. u # t /\ task'[u] = task[u]
      BY DEF CountInv, GapTypes, GapTypeOK
    <2>2. /\ task[u].read >= 1 /\ task[u].read <= Cardinality(Recorded(task[u].text))
          /\ task[u].text \in Texts /\ task[u].read \in Nat
      BY <2>1 DEF CountInv, ReadsAreEarned, GapTypes, TextIsThere, GapTypeOK, Task
    <2> DEFINE qu == task[u].text
    <2>3. Cardinality(Recorded(task[u].text))' = Cardinality(Recorded(qu)')
      BY <2>1
    <2>4. Cardinality(Recorded(qu)) <= Cardinality(Recorded(qu)')
      <3>1. CASE qu = q0
        BY <1>1, <1>2, <3>1
      <3>2. CASE qu # q0
        BY <1>1, <1>2, <2>2, <3>2
      <3> QED
        BY <3>1, <3>2
    <2> QED
      BY <1>1, <1>2, <2>1, <2>2, <2>3, <2>4
  <1>5. OnlyDoneIsRecorded'
    BY DEF CountInv, OnlyDoneIsRecorded, GapTypes, GapTypeOK
  <1> QED
    BY <1>3, <1>4, <1>5 DEF CountInv

\* One step per action: two of them commit, the others only move on.
LEMMA CountNext == CountInv /\ [GapNext]_gapVars => CountInv'
  <1> SUFFICES ASSUME CountInv, [GapNext]_gapVars PROVE CountInv'
    OBVIOUS
  <1>0. GapTypes'
    BY TypeNext DEF CountInv
  <1> USE DEF GapTypes, GapTypeOK, Task, TaskSteps
  <1>1. ASSUME NEW t \in Tasks, Classify(t) PROVE CountInv'
    BY <1>0, <1>1, OnlyMoves DEF Classify, CountInv
  <1>2. ASSUME NEW t \in Tasks, Select(t) PROVE CountInv'
    <2>1. task[t].text \in Texts /\ count[task[t].text] \in Nat
      BY <1>2 DEF Select, CountInv, TextIsThere
    <2>2. count[task[t].text] <= Cardinality(Recorded(task[t].text))
      BY <2>1 DEF CountInv, CountsAreEarned
    <2>3. task'[t].pc = "update" => /\ task'[t].read >= 1
                                    /\ task'[t].read <= Cardinality(Recorded(task[t].text))
      BY <1>2, <2>1, <2>2 DEF Select, CountInv
    <2> QED
      BY <1>0, <1>2, <2>3, OnlyMoves DEF Select, CountInv
  <1>3. ASSUME NEW t \in Tasks, Insert(t) PROVE CountInv'
    <2>1. task[t].text \in Texts
      BY <1>3 DEF Insert, CountInv, TextIsThere
    <2>2. CASE count[task[t].text] = 0
      <3>1. Cardinality(Recorded(task[t].text)) \in Nat
        BY RecordedIsFinite DEF CountInv
      <3>2. 1 <= Cardinality(Recorded(task[t].text)) + 1
        BY <3>1
      <3> QED
        BY <1>0, <1>3, <2>1, <2>2, <3>2, Commits DEF Insert
    <2>3. CASE count[task[t].text] # 0
      BY <1>0, <1>3, <2>3, OnlyMoves DEF Insert, CountInv
    <2> QED
      BY <2>2, <2>3
  <1>4. ASSUME NEW t \in Tasks, Update(t) PROVE CountInv'
    <2>1. task[t].text \in Texts /\ task[t].read \in Nat
      BY <1>4 DEF Update, CountInv, TextIsThere
    <2>2. task[t].read >= 1 /\ task[t].read <= Cardinality(Recorded(task[t].text))
      BY <1>4 DEF Update, CountInv, ReadsAreEarned
    <2>3. Cardinality(Recorded(task[t].text)) \in Nat
      BY RecordedIsFinite DEF CountInv
    <2>4. /\ task[t].read + 1 \in Nat /\ task[t].read + 1 >= 1
          /\ task[t].read + 1 <= Cardinality(Recorded(task[t].text)) + 1
      BY <2>1, <2>2, <2>3
    <2> QED
      BY <1>0, <1>4, <2>1, <2>4, Commits DEF Update
  <1>5. ASSUME NEW t \in Tasks, TaskFails(t) PROVE CountInv'
    BY <1>0, <1>5, OnlyMoves DEF TaskFails, CountInv
  <1>6. CASE UNCHANGED gapVars
    <2>1. count' = count /\ task' = task /\ recorded' = recorded
      BY <1>6 DEF gapVars
    <2>2. \A q : Recorded(q)' = Recorded(q)
      BY <2>1 DEF Recorded
    <2>3. CountsAreEarned'
      BY <2>1, <2>2 DEF CountInv, CountsAreEarned
    <2>4. ReadsAreEarned' /\ OnlyDoneIsRecorded'
      BY <2>1, <2>2 DEF CountInv, ReadsAreEarned, OnlyDoneIsRecorded
    <2> QED
      BY <1>0, <2>3, <2>4 DEF CountInv
  <1> QED
    BY <1>1, <1>2, <1>3, <1>4, <1>5, <1>6 DEF GapNext

\* However many tasks read one count before any of them writes it, a gap is
\* neither made up nor forgotten.
THEOREM CountsAlwaysEarned == GapSpec => []CountsAreEarned
  <1>1. GapInit => CountInv
    <2> SUFFICES ASSUME GapInit PROVE CountInv
      OBVIOUS
    <2>1. \A q : Recorded(q) = {}
      BY DEF GapInit, Recorded
    <2>2. \A q : Cardinality(Recorded(q)) = 0
      BY <2>1, FS_EmptySet
    <2>3. GapTypes
      BY TypeInit
    <2> QED
      BY <2>1, <2>2, <2>3 DEF GapInit, CountInv, CountsAreEarned, ReadsAreEarned, OnlyDoneIsRecorded
  <1>2. CountInv => CountsAreEarned
    BY DEF CountInv
  <1>3. QED
    BY <1>1, <1>2, CountNext, PTL DEF GapSpec

-----------------------------------------------------------------------------
(* The tasks of chat requests.                                             *)

\* A step of ChatServing is a step of one task or leaves the tasks alone.
LEMMA StepOfTask == [Next]_vars => [GapNext]_gapVars
  <1> SUFFICES ASSUME [Next]_vars PROVE [GapNext]_gapVars
    OBVIOUS
  <1>1. ASSUME NEW r \in Requests, LogEvent(r) PROVE GapNext
    BY <1>1, ServingAssumption DEF LogEvent, GapNext
  <1>2. ASSUME NEW r \in Requests, LookUpGap(r) PROVE GapNext
    BY <1>2, ServingAssumption DEF LookUpGap, GapNext
  <1>3. ASSUME NEW r \in Requests, RecordGap(r) PROVE GapNext
    BY <1>3, ServingAssumption DEF RecordGap, GapNext
  <1>4. ASSUME NEW r \in Requests, DatabaseFails(r) PROVE [GapNext]_gapVars
    BY <1>4, ServingAssumption DEF DatabaseFails, GapNext
  <1>5. ASSUME NEW r \in Requests,
               \/ Arrive(r) \/ Connect(r) \/ CacheHit(r) \/ CacheMiss(r)
               \/ Rewrite(r) \/ Retrieve(r) \/ Rerank(r) \/ Generate(r)
               \/ RaiseHttpError(r) \/ StoreInCache(r) \/ Commit(r)
        PROVE  UNCHANGED gapVars
    BY <1>5 DEF Arrive, Connect, CacheHit, CacheMiss, Rewrite, Retrieve, Rerank, Generate,
                RaiseHttpError, StoreInCache, Commit
  <1>6. ASSUME NEW r \in Requests,
               RewriteFails(r) \/ RetrievalFails(r) \/ GeminiFails(r) \/ GroqFails(r)
        PROVE  UNCHANGED gapVars
    BY <1>6 DEF RewriteFails, RetrievalFails, GeminiFails, GroqFails
  <1>7. CASE Tick \/ Crash \/ Terminated \/ UNCHANGED vars
    BY <1>7 DEF Tick, Crash, Terminated, vars
  <1> QED
    BY <1>1, <1>2, <1>3, <1>4, <1>5, <1>6, <1>7 DEF Next, Serve, Break

\* The background tasks of chat requests, which wait for connections and stop
\* where they are in a restart, behave as KnowledgeGaps says of tasks.
THEOREM TasksAreImplemented == Spec => GapSpec
  <1>1. Init => GapInit
    BY DEF Init
  <1>2. QED
    BY <1>1, StepOfTask, PTL DEF Spec, GapSpec

\* Counts are earned when the tasks are those of requests: for any size of the
\* pool, and any failures and restarts that interrupt them.
THEOREM ServedCountsEarned == Spec => []CountsAreEarned
  BY TasksAreImplemented, CountsAlwaysEarned, PTL
=============================================================================
