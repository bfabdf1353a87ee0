-------------------------- MODULE ChatServingProofs --------------------------
(***************************************************************************)
(* Proofs about ChatServing: for any requests, clients, queries and        *)
(* conversations, any size of the pool, any window, and any number of      *)
(* crashes and failing calls.                                              *)
(***************************************************************************)
EXTENDS ChatServing, TLAPS

-----------------------------------------------------------------------------
(* Where a request is says what was stored and told.                       *)

\* The turn is not committed yet and the client waits.
Before == {"new", "connect", "begin", "rewriting", "rephrasing", "retrieving", "reranking",
           "generating", "fallback", "produced", "commit"} \cup ErrorCodes

\* The steps up to the rewritten queries.
Early == {"new", "connect", "begin", "rewriting", "rephrasing"}

\* What the requests have come to: their steps, answers and turns.
Course ==
    /\ pc \in [Requests -> Steps]
    /\ status \in [Requests -> Statuses]
    /\ stored \in SUBSET Requests

\* A client waits until the turn is stored, and is told of success after it.
Told ==
    \A r \in Requests :
        /\ pc[r] \in Before => status[r] = "none" /\ r \notin stored
        /\ pc[r] \in {"refresh", "log"} => status[r] = "none" /\ r \in stored
        /\ pc[r] \in {"gap", "record"} => status[r] = "200"
        /\ pc[r] = "done" => status[r] # "none"
        /\ status[r] = "200" => r \in stored

Ordered == Course /\ Told

\* What an action of request r does to the course of the requests.
Advance(r) ==
    /\ status' = status /\ stored' = stored
    /\ \/ /\ pc[r] \in Before \ ({"new", "commit"} \cup ErrorCodes)
          /\ \E s \in Before \ {"new"} :
                pc' = [pc EXCEPT ![r] = s] /\ (pc[r] \notin Early => s \notin Early)
       \/ pc[r] = "refresh" /\ pc' = [pc EXCEPT ![r] = "log"]
       \/ pc[r] = "gap" /\ pc' = [pc EXCEPT ![r] = "record"]
       \/ pc[r] \in {"gap", "record"} /\ pc' = [pc EXCEPT ![r] = "done"]

Fails(r) ==
    /\ pc[r] \in (Before \ {"new"}) \cup {"refresh", "log"}
    /\ stored' = stored
    /\ pc' = [pc EXCEPT ![r] = "done"]
    /\ \E s \in ErrorCodes : status' = [status EXCEPT ![r] = s]

\* Steps of which the requests see nothing.
LEMMA Idle ==
    ASSUME Terminated \/ UNCHANGED vars \/ \E r \in Requests : LookUpGap(r)
    PROVE  UNCHANGED serving
BY DEF Terminated, vars, LookUpGap

\* The steps of the pipeline and of the pool advance a request or fail it.
LEMMA Advances ==
    ASSUME Ordered, NEW r \in Requests,
           \/ Connect(r) \/ CacheHit(r) \/ CacheMiss(r) \/ Rewrite(r) \/ Retrieve(r)
           \/ Rerank(r) \/ Generate(r) \/ StoreInCache(r) \/ RecordGap(r)
    PROVE  Advance(r)
<1>. USE DEF Goto, Advance, Before, Early, ErrorCodes
<1>1. CASE Connect(r)
  BY <1>1 DEF Connect, Waiting
<1>2. CASE CacheHit(r) \/ CacheMiss(r) \/ Rewrite(r)
  BY <1>2 DEF CacheHit, CacheMiss, Rewrite
<1>3. CASE Retrieve(r) \/ Rerank(r) \/ Generate(r) \/ StoreInCache(r)
  BY <1>3 DEF Retrieve, Rerank, Generate, StoreInCache
<1>4. CASE RecordGap(r)
  BY <1>4 DEF RecordGap
<1>. QED  BY <1>1, <1>2, <1>3, <1>4

LEMMA ClassifiedErrors ==
    ASSUME NEW words
    PROVE  (IF Eligible(words) THEN "503" ELSE ClassifyLlmError(words)) \in ErrorCodes
BY DEF ClassifyLlmError, ErrorCodes

\* A prompt that is blocked goes no further than its model call.
LEMMA GeminiSteps ==
    ASSUME NEW r \in Requests, GeminiFails(r)
    PROVE  /\ pc[r] = "generating" /\ UNCHANGED <<status, window, holds, stored, cache, crashes>>
           /\ \/ pc' = [pc EXCEPT ![r] = "fallback"] /\ UNCHANGED <<blocked, progress>>
              \/ /\ Emit(r, "Generating", "failed")
                 /\ \E s \in ErrorCodes : pc' = [pc EXCEPT ![r] = s]
                 /\ blocked' \in {blocked, blocked \cup {<<r, "generating">>}}
BY ClassifiedErrors DEF GeminiFails, Refuse, Eligible, Goto

LEMMA RewriteSteps ==
    ASSUME NEW r \in Requests, RewriteFails(r)
    PROVE  /\ pc[r] = "rewriting" /\ UNCHANGED <<status, window, holds, stored, cache, crashes>>
           /\ \/ pc' = [pc EXCEPT ![r] = "rephrasing"] /\ UNCHANGED <<blocked, progress>>
              \/ /\ Emit(r, "Retrieving", "in_progress")
                 /\ pc' = [pc EXCEPT ![r] = "retrieving"]
                 /\ blocked' \in {blocked, blocked \cup {<<r, "rewriting">>}}
BY DEF RewriteFails, Refuse, Eligible, Goto

LEMMA Breaks ==
    ASSUME Ordered, NEW r \in Requests, Break(r) \/ RaiseHttpError(r)
    PROVE  Fails(r) \/ Advance(r)
<1>. USE DEF Before, Early, ErrorCodes
<1>1. CASE RetrievalFails(r)
  <2>1. /\ pc[r] \in {"retrieving", "reranking"} /\ UNCHANGED <<status, stored>>
        /\ pc' = [pc EXCEPT ![r] = "500"]
    BY <1>1 DEF RetrievalFails, Goto
  <2>2. "500" \in Before \ {"new"} /\ (pc[r] \notin Early => "500" \notin Early)
    OBVIOUS
  <2>3. pc[r] \in Before \ ({"new", "commit"} \cup ErrorCodes)
    BY <2>1
  <2>. QED
    <3>. HIDE DEF Before, Early, ErrorCodes
    <3>. QED  BY <2>1, <2>2, <2>3 DEF Advance
<1>2. CASE GeminiFails(r)
  BY <1>2, GeminiSteps DEF Advance
<1>3. CASE RewriteFails(r)
  BY <1>3, RewriteSteps DEF Advance
<1>4. CASE GroqFails(r)
  <2>1. /\ pc[r] = "fallback" /\ UNCHANGED <<status, stored>>
        /\ pc' = [pc EXCEPT ![r] = "503"]
    BY <1>4 DEF GroqFails, Goto
  <2>2. "503" \in Before \ {"new"} /\ (pc[r] \notin Early => "503" \notin Early)
    OBVIOUS
  <2>3. pc[r] \in Before \ ({"new", "commit"} \cup ErrorCodes)
    BY <2>1
  <2>. QED
    <3>. HIDE DEF Before, Early, ErrorCodes
    <3>. QED  BY <2>1, <2>2, <2>3 DEF Advance
<1>5. CASE RaiseHttpError(r)
  BY <1>5 DEF RaiseHttpError, Fail, Goto, Fails
<1>6. CASE DatabaseFails(r)
  <2>1. CASE pc[r] \in {"gap", "record"}
    <3>1. status' = status
      BY <1>6, <2>1 DEF DatabaseFails, Fail, Ordered, Course
    <3>. QED  BY <1>6, <2>1, <3>1 DEF DatabaseFails, Fail, Goto, Advance
  <2>2. CASE pc[r] \notin {"gap", "record"}
    BY <1>6, <2>2 DEF DatabaseFails, Fail, Goto, Fails, Waiting
  <2>. QED  BY <2>1, <2>2
<1>. QED  BY <1>1, <1>2, <1>3, <1>4, <1>5, <1>6 DEF Break

LEMMA OrderedStart == Init => Ordered
BY DEF Init, Ordered, Course, Told, Steps, Waiting, Statuses, Before, ErrorCodes

LEMMA OrderedStep ==
    ASSUME Ordered, [Next]_vars
    PROVE  Ordered'
<1>. USE DEF Ordered, Course, Told, Before, Early, Steps, Waiting, Statuses, ErrorCodes
<1>1. ASSUME NEW r \in Requests, Advance(r) PROVE Ordered'
  BY <1>1 DEF Advance
<1>2. ASSUME NEW r \in Requests, Fails(r) PROVE Ordered'
  BY <1>2 DEF Fails
<1>3. ASSUME NEW r \in Requests, Arrive(r) PROVE Ordered'
  BY <1>3 DEF Arrive, Fail, Goto
<1>4. ASSUME NEW r \in Requests, Commit(r) PROVE Ordered'
  BY <1>4 DEF Commit, Goto
<1>5. ASSUME NEW r \in Requests, LogEvent(r) PROVE Ordered'
  BY <1>5 DEF LogEvent, Goto
<1>6. CASE Crash
  BY <1>6 DEF Crash
<1>7. CASE Tick \/ UNCHANGED serving
  BY <1>7 DEF Tick, serving
<1>. QED  BY <1>1, <1>2, <1>3, <1>4, <1>5, <1>6, <1>7, Idle, Advances, Breaks DEF Next, Serve

LEMMA AlwaysOrdered == Spec => []Ordered
BY OrderedStart, OrderedStep, PTL DEF Spec

-----------------------------------------------------------------------------
(* The refinement                                                          *)

LEMMA ContractStart == Init => Contract!Init
BY DEF Init, Contract!Init, turn

\* Two states with the same course are the same to the contract.
LEMMA ContractStep ==
    ASSUME Ordered, [Next]_vars
    PROVE  [Contract!Next]_turn
<1>. USE DEF Ordered, Course, Told, Before, ErrorCodes, turn
<1>1. ASSUME NEW r \in Requests, Advance(r) PROVE UNCHANGED turn
  BY <1>1 DEF Advance
<1>2. ASSUME NEW r \in Requests, Fails(r) PROVE Contract!Next
  <2>1. Contract!Abort({r})
    BY <1>2 DEF Fails, Contract!Abort
  <2>. QED  BY <2>1 DEF Contract!Next
<1>3. ASSUME NEW r \in Requests, Arrive(r) PROVE Contract!Next
  <2>1. Contract!Begin(r) \/ Contract!Reject(r)
    BY <1>3 DEF Arrive, Fail, Goto, Contract!Begin, Contract!Reject, Contract!Move
  <2>. QED  BY <2>1 DEF Contract!Next
<1>4. ASSUME NEW r \in Requests, Commit(r) PROVE Contract!Next
  <2>1. Contract!Store(r)
    BY <1>4 DEF Commit, Goto, Contract!Store, Contract!Move
  <2>. QED  BY <2>1 DEF Contract!Next
<1>5. ASSUME NEW r \in Requests, LogEvent(r) PROVE Contract!Next
  <2>1. Contract!Answer(r)
    BY <1>5 DEF LogEvent, Goto, Contract!Answer, Contract!Move
  <2>. QED  BY <2>1 DEF Contract!Next
<1>6. CASE Crash
  <2> DEFINE cut == {r \in Requests : pc[r] \notin {"new", "done"} /\ status[r] = "none"}
  <2>1. \A r \in cut : turn[r] \in {"open", "stored"}
    OBVIOUS
  <2>2. /\ pc' = [r \in Requests |-> IF pc[r] \notin {"new", "done"} THEN "done" ELSE pc[r]]
        /\ status' = [r \in Requests |-> IF r \in cut THEN "lost" ELSE status[r]]
        /\ stored' = stored
    BY <1>6 DEF Crash
  <2>3. turn' = [r \in Requests |->
                   IF r \notin cut THEN turn[r]
                   ELSE IF turn[r] = "open" THEN "refused" ELSE "unsure"]
    <3>1. ASSUME NEW r \in Requests
          PROVE  turn'[r] = IF r \notin cut THEN turn[r]
                            ELSE IF turn[r] = "open" THEN "refused" ELSE "unsure"
      BY <2>2
    <3>. QED  BY <3>1
  <2>4. cut \in SUBSET Requests
    OBVIOUS
  <2>5. Contract!Abort(cut)
    <3>. HIDE DEF turn, cut
    <3>. QED  BY <2>1, <2>3 DEF Contract!Abort
  <2>6. Contract!Next
    <3>. HIDE DEF turn, cut
    <3>. QED  BY <2>4, <2>5 DEF Contract!Next
  <2>. QED  BY <2>6
<1>7. CASE Tick \/ UNCHANGED serving
  BY <1>7 DEF Tick, serving
<1>. QED  BY <1>1, <1>2, <1>3, <1>4, <1>5, <1>6, <1>7, Idle, Advances, Breaks DEF Next, Serve

(* chat.py:109-311: an answered turn is stored, and was before the answer  *)
(* was given; a refused one is not stored and never will be.               *)
THEOREM TurnsAreImplemented == Spec => ImplementsTurns
<1>1. Ordered /\ [Next]_vars => [Contract!Next]_turn
  BY ContractStep
<1>. QED  BY <1>1, ContractStart, AlwaysOrdered, PTL DEF Spec, ImplementsTurns, Contract!Spec

-----------------------------------------------------------------------------
(* Types                                                                   *)

\* A report has the type of an entry, and counts one fault at most.
LEMMA EmitTypes ==
    ASSUME TypeOK, NEW r \in Requests, NEW stage \in Stages,
           NEW st \in {"in_progress", "completed", "failed"}, Emit(r, stage, st)
    PROVE  /\ redis' \in [Convs -> Entry \cup {None}]
           /\ spilled' \in SUBSET Requests
           /\ faults' \in 0..MaxFaults
<1>. DEFINE e == [request |-> r, stage |-> stage, status |-> st]
<1>1. e \in Entry
  BY DEF Entry
<1>2. CASE redis' = [redis EXCEPT ![Conv[r]] = e] /\ spilled' = spilled \ {r} /\ faults' = faults
  BY <1>1, <1>2 DEF TypeOK
<1>3. CASE /\ faults + crashes < MaxFaults
           /\ faults' = faults + 1
           /\ spilled' = spilled \cup {r}
           /\ UNCHANGED redis
  BY <1>3, ServingAssumption DEF TypeOK
<1>. QED  BY <1>2, <1>3 DEF Emit

\* The variables of a request's own course.
OwnTypes ==
    /\ pc \in [Requests -> Steps]
    /\ status \in [Requests -> Statuses]
    /\ holds \in SUBSET Requests
    /\ stored \in SUBSET Requests

LEMMA FailTypes ==
    ASSUME OwnTypes, NEW r \in Requests, NEW s \in Statuses, Fail(r, s), UNCHANGED stored
    PROVE  OwnTypes'
BY DEF OwnTypes, Fail, Goto, Steps

LEMMA TypeStart == Init => TypeOK
BY ServingAssumption DEF Init, TypeOK, Steps, Statuses, Queries, Keys

LEMMA ServeTypes ==
    ASSUME TypeOK, NEW r \in Requests, Serve(r)
    PROVE  TypeOK'
<1>. USE DEF Steps, Waiting, Statuses, Stages, Goto, ErrorCodes
<1>1. CASE CacheHit(r)
  <2>1. Emit(r, "Complete", "completed")
    BY <1>1 DEF CacheHit
  <2>. QED  BY <1>1, <2>1, EmitTypes DEF CacheHit, TypeOK, window
<1>2. CASE CacheMiss(r)
  <2>1. Emit(r, "Rewriting", "in_progress")
    BY <1>2 DEF CacheMiss
  <2>. QED  BY <1>2, <2>1, EmitTypes DEF CacheMiss, TypeOK, window
<1>3. CASE Rewrite(r)
  <2>1. Emit(r, "Retrieving", "in_progress")
    BY <1>3 DEF Rewrite
  <2>. QED  BY <1>3, <2>1, EmitTypes DEF Rewrite, TypeOK, window
<1>4. CASE Retrieve(r)
  <2>1. Emit(r, "Reranking", "in_progress") \/ Emit(r, "Generating", "in_progress")
    BY <1>4 DEF Retrieve
  <2>. QED  BY <1>4, <2>1, EmitTypes DEF Retrieve, TypeOK, window
<1>5. CASE Rerank(r)
  <2>1. Emit(r, "Generating", "in_progress")
    BY <1>5 DEF Rerank
  <2>. QED  BY <1>5, <2>1, EmitTypes DEF Rerank, TypeOK, window
<1>6. CASE Generate(r)
  <2>1. Emit(r, "Complete", "completed")
    BY <1>6 DEF Generate
  <2>. QED  BY <1>6, <2>1, EmitTypes DEF Generate, TypeOK, window
<1>7. CASE Connect(r)
  BY <1>7 DEF Connect, TypeOK, window, progress
<1>8. CASE StoreInCache(r)
  BY <1>8 DEF StoreInCache, TypeOK, window, progress
<1>9. CASE Commit(r) \/ LogEvent(r) \/ RecordGap(r)
  BY <1>9 DEF Commit, LogEvent, RecordGap, TypeOK, window, progress
<1>10. CASE RaiseHttpError(r)
  <2>1. OwnTypes'
    BY <1>10, FailTypes DEF RaiseHttpError, OwnTypes, TypeOK
  <2>. QED  BY <1>10, <2>1 DEF RaiseHttpError, OwnTypes, TypeOK, window, progress
<1>11. CASE LookUpGap(r)
  BY <1>11 DEF LookUpGap, serving, TypeOK
<1>. QED  BY <1>1, <1>2, <1>3, <1>4, <1>5, <1>6, <1>7, <1>8, <1>9, <1>10, <1>11 DEF Serve

LEMMA BreakTypes ==
    ASSUME TypeOK, NEW r \in Requests, Break(r)
    PROVE  TypeOK'
<1>. USE DEF Stages, Steps, ErrorCodes
<1>0. OwnTypes
  BY DEF OwnTypes, TypeOK
<1>1. CASE RetrievalFails(r)
  <2>1. Emit(r, "Reranking", "failed") \/ Emit(r, "Retrieving", "failed")
    BY <1>1 DEF RetrievalFails
  <2>. QED  BY <1>1, <2>1, EmitTypes DEF RetrievalFails, Goto, TypeOK, window
<1>2. CASE GroqFails(r)
  <2>1. Emit(r, "Generating", "failed")
    BY <1>2 DEF GroqFails
  <2>. QED  BY <1>2, <2>1, EmitTypes DEF GroqFails, Goto, TypeOK, window
<1>3. CASE GeminiFails(r)
  <2>1. \/ UNCHANGED progress
        \/ Emit(r, "Generating", "failed")
    BY <1>3, GeminiSteps
  <2>2. /\ redis' \in [Convs -> Entry \cup {None}]
        /\ spilled' \in SUBSET Requests /\ faults' \in 0..MaxFaults
    BY <2>1, EmitTypes DEF TypeOK, progress
  <2>3. pc' \in [Requests -> Steps] /\ blocked' \in SUBSET Prompts
    BY <1>3, GeminiSteps DEF TypeOK, Prompts
  <2>. QED  BY <1>3, <2>2, <2>3, GeminiSteps DEF TypeOK, window
<1>4. CASE RewriteFails(r)
  <2>1. \/ UNCHANGED progress
        \/ Emit(r, "Retrieving", "in_progress")
    BY <1>4, RewriteSteps
  <2>2. /\ redis' \in [Convs -> Entry \cup {None}]
        /\ spilled' \in SUBSET Requests /\ faults' \in 0..MaxFaults
    BY <2>1, EmitTypes DEF TypeOK, progress
  <2>3. pc' \in [Requests -> Steps] /\ blocked' \in SUBSET Prompts
    BY <1>4, RewriteSteps DEF TypeOK, Prompts
  <2>. QED  BY <1>4, <2>2, <2>3, RewriteSteps DEF TypeOK, window
<1>5. CASE DatabaseFails(r)
  <2>1. status[r] \in Statuses
    BY DEF TypeOK
  <2>2. OwnTypes'
    BY <1>0, <1>5, <2>1, FailTypes DEF DatabaseFails, Statuses
  <2>. QED  BY <1>5, <2>2 DEF DatabaseFails, OwnTypes, TypeOK, window, progress
<1>. QED  BY <1>1, <1>2, <1>3, <1>4, <1>5 DEF Break

LEMMA ArriveTypes ==
    ASSUME TypeOK, NEW r \in Requests, Arrive(r)
    PROVE  TypeOK'
<1>1. OwnTypes
  BY DEF OwnTypes, TypeOK
<1>2. Fail(r, "duplicate") \/ (Goto(r, "connect") /\ UNCHANGED <<status, holds>>)
  BY DEF Arrive
<1>3. UNCHANGED <<now, stored, cache, blocked, progress, crashes>>
  BY DEF Arrive
<1>4. OwnTypes'
  BY <1>1, <1>2, <1>3, FailTypes DEF OwnTypes, Goto, Steps, Waiting, Statuses
<1>5. [at |-> now, epoch |-> crashes] \in [at: 0..MaxTime, epoch: 0..MaxFaults]
  BY ServingAssumption DEF TypeOK
<1>6. arrived' \in [Requests -> [at: 0..MaxTime, epoch: 0..MaxFaults]]
  <2>1. arrived' = [arrived EXCEPT ![r] = [at |-> now, epoch |-> crashes]]
    BY DEF Arrive
  <2>. QED  BY <1>5, <2>1 DEF TypeOK
<1>7. \A k \in Keys : Pruned(k) \in 0..MaxTime /\ now \in 0..MaxTime
  BY ServingAssumption DEF TypeOK, Pruned
<1>8. recent' \in [Keys -> 0..MaxTime]
  BY <1>7 DEF Arrive
<1>. QED  BY <1>3, <1>4, <1>6, <1>8 DEF OwnTypes, TypeOK, progress

LEMMA TypeStep ==
    ASSUME TypeOK, [Next]_vars
    PROVE  TypeOK'
<1>1. CASE Tick
  BY <1>1, ServingAssumption DEF Tick, TypeOK, progress
<1>2. CASE Crash
  <2>1. crashes' \in 0..MaxFaults
    BY <1>2, ServingAssumption DEF Crash, TypeOK
  <2>. QED  BY <1>2, <2>1, ServingAssumption DEF Crash, TypeOK, Steps, Statuses, progress
<1>3. CASE UNCHANGED serving
  BY <1>3 DEF serving, TypeOK
<1>. QED  BY <1>1, <1>2, <1>3, Idle, ServeTypes, BreakTypes, ArriveTypes DEF Next

(* The types of all variables, for any constants. *)
THEOREM TypeCorrect == Spec => []TypeOK
BY TypeStart, TypeStep, PTL DEF Spec

-----------------------------------------------------------------------------
(* Blocked questions                                                       *)

\* Only a request with an answer is in the cache.  A request whose rewriting
\* was blocked is past it; one whose answer was blocked fails or has failed,
\* neither stored nor cached.
Apart ==
    /\ Ordered
    /\ cache \in [Queries -> Requests \cup {None}]
    /\ blocked \in SUBSET Prompts
    /\ \A r \in Requests, q \in Queries : cache[q] = r => pc[r] \notin Before \ {"commit"}
    /\ \A r \in Requests : <<r, "rewriting">> \in blocked => pc[r] \notin Early
    /\ \A r \in Requests : <<r, "generating">> \in blocked =>
          /\ pc[r] \in ErrorCodes \cup {"done"} /\ r \notin stored
          /\ \A q \in Queries : cache[q] # r

\* Steps that neither block a question nor cache an answer.
LEMMA ApartFrame ==
    ASSUME Apart, Ordered', UNCHANGED <<cache, blocked>>,
           \A r \in Requests :
              /\ pc'[r] \in Before \ {"commit"} => pc[r] \in Before \ {"commit"}
              /\ pc[r] \notin Early => pc'[r] \notin Early
              /\ pc[r] \in ErrorCodes \cup {"done"} =>
                    pc'[r] \in ErrorCodes \cup {"done"} /\ (r \in stored' => r \in stored)
    PROVE  Apart'
BY DEF Apart

LEMMA ApartGemini ==
    ASSUME Apart, Ordered', NEW r \in Requests, GeminiFails(r)
    PROVE  Apart'
<1>1. /\ pc[r] = "generating" /\ UNCHANGED <<stored, cache>>
      /\ pc \in [Requests -> Steps]
  BY GeminiSteps DEF Apart, Ordered, Course
<1>2. r \notin stored /\ \A q \in Queries : cache[q] # r
  BY <1>1 DEF Apart, Before, Ordered, Told
<1>3. <<r, "generating">> \in Prompts /\ <<r, "generating">> \notin blocked
  BY <1>1 DEF Apart, Prompts, ErrorCodes
<1>4. CASE pc' = [pc EXCEPT ![r] = "fallback"] /\ UNCHANGED blocked
  BY <1>1, <1>2, <1>3, <1>4 DEF Apart, Before, Early
<1>5. ASSUME NEW s \in ErrorCodes, pc' = [pc EXCEPT ![r] = s],
             blocked' \in {blocked, blocked \cup {<<r, "generating">>}}
      PROVE  Apart'
  <2>1. pc'[r] = s /\ \A t \in Requests \ {r} : pc'[t] = pc[t]
    BY <1>1, <1>5
  <2>2. blocked' \in SUBSET Prompts
    BY <1>3, <1>5 DEF Apart
  <2>3. \A t \in Requests, q \in Queries : cache[q] = t => pc'[t] \notin Before \ {"commit"}
    BY <1>2, <2>1 DEF Apart
  <2>4. \A t \in Requests : <<t, "rewriting">> \in blocked' => pc'[t] \notin Early
    BY <1>5, <2>1 DEF Apart, Early, ErrorCodes
  <2>5. \A t \in Requests : <<t, "generating">> \in blocked' =>
          /\ pc'[t] \in ErrorCodes \cup {"done"} /\ t \notin stored
          /\ \A q \in Queries : cache[q] # t
    BY <1>2, <1>5, <2>1 DEF Apart
  <2>. QED  BY <1>1, <2>2, <2>3, <2>4, <2>5 DEF Apart
<1>. QED  BY <1>4, <1>5, GeminiSteps

LEMMA ApartRewriting ==
    ASSUME Apart, Ordered', NEW r \in Requests, RewriteFails(r)
    PROVE  Apart'
<1>1. /\ pc[r] = "rewriting" /\ UNCHANGED <<stored, cache>>
      /\ pc \in [Requests -> Steps]
      /\ \/ pc' = [pc EXCEPT ![r] = "rephrasing"] /\ blocked' = blocked
         \/ /\ pc' = [pc EXCEPT ![r] = "retrieving"]
            /\ blocked' \in {blocked, blocked \cup {<<r, "rewriting">>}}
  BY RewriteSteps DEF Apart, Ordered, Course
<1>2. \A q \in Queries : cache[q] # r
  BY <1>1 DEF Apart, Before
<1>3. /\ <<r, "rewriting">> \in Prompts /\ <<r, "rewriting">> \notin blocked
      /\ <<r, "generating">> \notin blocked
  BY <1>1 DEF Apart, Prompts, Early, ErrorCodes
<1>4. pc'[r] \in {"rephrasing", "retrieving"} /\ \A t \in Requests \ {r} : pc'[t] = pc[t]
  BY <1>1
<1>5. blocked' \in SUBSET Prompts
  BY <1>1, <1>3 DEF Apart
<1>6. \A t \in Requests, q \in Queries : cache[q] = t => pc'[t] \notin Before \ {"commit"}
  BY <1>2, <1>4 DEF Apart
<1>7. \A t \in Requests : <<t, "rewriting">> \in blocked' => pc'[t] \notin Early
  <2>1. ASSUME NEW t \in Requests, <<t, "rewriting">> \in blocked', t # r
        PROVE  pc'[t] \notin Early
    BY <1>1, <1>4, <2>1 DEF Apart
  <2>2. <<r, "rewriting">> \in blocked' => pc'[r] = "retrieving"
    BY <1>1, <1>3
  <2>. QED  BY <2>1, <2>2 DEF Early
<1>8. \A t \in Requests : <<t, "generating">> \in blocked' =>
          /\ pc'[t] \in ErrorCodes \cup {"done"} /\ t \notin stored
          /\ \A q \in Queries : cache[q] # t
  <2>1. \A t \in Requests : <<t, "generating">> \in blocked' => <<t, "generating">> \in blocked
    BY <1>1
  <2>. QED  BY <1>3, <1>4, <2>1 DEF Apart
<1>. QED  BY <1>1, <1>5, <1>6, <1>7, <1>8 DEF Apart

LEMMA ApartStep ==
    ASSUME Apart, [Next]_vars
    PROVE  Apart'
<1>0. Ordered /\ Ordered' /\ pc \in [Requests -> Steps]
  BY OrderedStep DEF Apart, Ordered, Course
<1>. USE DEF Before, Early, ErrorCodes
<1>1. ASSUME NEW r \in Requests, Advance(r), UNCHANGED <<cache, blocked>> PROVE Apart'
  BY <1>0, <1>1, ApartFrame DEF Advance
<1>2. ASSUME NEW r \in Requests, Fails(r), UNCHANGED <<cache, blocked>> PROVE Apart'
  BY <1>0, <1>2, ApartFrame DEF Fails
<1>3. ASSUME NEW r \in Requests, Arrive(r) PROVE Apart'
  BY <1>0, <1>3, ApartFrame DEF Arrive, Fail, Goto
<1>4. ASSUME NEW r \in Requests, Commit(r) PROVE Apart'
  BY <1>0, <1>4, ApartFrame DEF Commit, Goto
<1>5. ASSUME NEW r \in Requests, LogEvent(r) PROVE Apart'
  BY <1>0, <1>5, ApartFrame DEF LogEvent, Goto
<1>6. ASSUME NEW r \in Requests, StoreInCache(r) PROVE Apart'
  BY <1>0, <1>6 DEF StoreInCache, Goto, Apart
<1>7. CASE Crash
  BY <1>0, <1>7, ApartFrame DEF Crash
<1>8. CASE Tick \/ UNCHANGED serving
  BY <1>0, <1>8, ApartFrame DEF Tick, serving
<1>9. ASSUME NEW r \in Requests,
             \/ Connect(r) \/ CacheHit(r) \/ CacheMiss(r) \/ Rewrite(r)
             \/ Retrieve(r) \/ Rerank(r) \/ Generate(r) \/ RecordGap(r)
      PROVE  Apart'
  <2>1. UNCHANGED <<cache, blocked>>
    BY <1>9 DEF Connect, CacheHit, CacheMiss, Rewrite, Retrieve, Rerank, Generate, RecordGap
  <2>. QED  BY <1>0, <1>1, <1>9, <2>1, Advances
<1>10. ASSUME NEW r \in Requests, \/ RetrievalFails(r) \/ GroqFails(r)
                            \/ DatabaseFails(r) \/ RaiseHttpError(r)
       PROVE  Apart'
  <2>1. UNCHANGED <<cache, blocked>>
    BY <1>10 DEF RetrievalFails, GroqFails, DatabaseFails, RaiseHttpError
  <2>. QED  BY <1>0, <1>1, <1>2, <1>10, <2>1, Breaks DEF Break
<1>. QED  BY <1>0, <1>3, <1>4, <1>5, <1>6, <1>7, <1>8, <1>9, <1>10,
          Idle, ApartGemini, ApartRewriting
          DEF Next, Serve, Break

LEMMA ApartStart == Init => Apart
BY OrderedStart, ServingAssumption DEF Init, Apart, Queries, Before

(* llm_service.py:147-227 with pipeline.py:391-405 and                     *)
(* query_rewriter.py:93-114: a prompt that Gemini says it blocked is not   *)
(* put to Groq, whatever else Gemini says; a request whose answer it       *)
(* blocked is not stored, cached or answered.                              *)
THEOREM BlockedStayOut == Spec => []BlockedQuestionsStayOut
<1>1. Apart => BlockedQuestionsStayOut
  BY DEF Apart, BlockedQuestionsStayOut, Ordered, Told, Early, ErrorCodes
<1>. QED  BY <1>1, ApartStart, ApartStep, PTL DEF Spec

-----------------------------------------------------------------------------
(* The window of duplicate detection                                       *)

Accepted(r) == Came(r) /\ ~Rejected(r)

WindowTypes ==
    /\ now \in Nat \ {0}
    /\ crashes \in Nat
    /\ recent \in [Keys -> Nat]
    /\ arrived \in [Requests -> [at: Nat, epoch: Nat]]

\* What is remembered of a key is its last accepted request, and what is
\* forgotten was longer ago than the window.
Remembered ==
    /\ \A r \in Requests : Came(r) =>
          /\ arrived[r].at \in 1..now
          /\ arrived[r].epoch <= crashes
    /\ \A k \in Keys : recent[k] <= now
    /\ \A k \in Keys : recent[k] > 0 =>
          \E s \in Requests :
             /\ Accepted(s) /\ Key(s) = k
             /\ arrived[s].at = recent[k] /\ arrived[s].epoch = crashes
    /\ \A r \in Requests : Accepted(r) /\ arrived[r].epoch = crashes =>
          \/ arrived[r].at <= recent[Key(r)]
          \/ now - arrived[r].at >= Window

Apace == Ordered /\ WindowTypes /\ Remembered /\ WindowIsKept

\* Steps that neither accept nor reject a request.
LEMMA ApaceFrame ==
    ASSUME Apace, Ordered', UNCHANGED <<window, crashes>>,
           \A r \in Requests : (Came(r)' <=> Came(r)) /\ (Rejected(r)' <=> Rejected(r))
    PROVE  Apace'
<1>1. \A r \in Requests : Accepted(r)' <=> Accepted(r)
  BY DEF Accepted
<1>2. WindowTypes'
  BY DEF Apace, WindowTypes, window
<1>3. Remembered'
  BY <1>1 DEF Apace, Remembered, window
<1>4. WindowIsKept'
  BY DEF Apace, WindowIsKept, Within, window
<1>. QED  BY <1>2, <1>3, <1>4 DEF Apace

LEMMA ApaceTick ==
    ASSUME Apace, Ordered', Tick
    PROVE  Apace'
<1>1. now' = now + 1 /\ UNCHANGED <<pc, status, arrived, recent, crashes>>
  BY DEF Tick
<1>2. WindowTypes'
  BY <1>1 DEF Apace, WindowTypes
<1>3. \A r \in Requests : Accepted(r)' <=> Accepted(r)
  BY <1>1 DEF Accepted, Came, Rejected
<1>4. \A r \in Requests : arrived[r].at \in Nat /\ arrived[r].epoch \in Nat
  BY DEF Apace, WindowTypes
<1>5. \A r \in Requests : Key(r) \in Keys
  BY DEF Keys
<1>6. Remembered'
  BY <1>1, <1>3, <1>4, <1>5, ServingAssumption DEF Apace, Remembered, WindowTypes, Came
<1>7. WindowIsKept'
  BY <1>1 DEF Apace, WindowIsKept, Within, Came, Rejected
<1>. QED  BY <1>2, <1>6, <1>7 DEF Apace

LEMMA ApaceCrash ==
    ASSUME Apace, Ordered', Crash
    PROVE  Apace'
<1>1. crashes' = crashes + 1 /\ recent' = [k \in Keys |-> 0] /\ UNCHANGED <<arrived, now>>
  BY DEF Crash
<1>2. \A r \in Requests : (Came(r)' <=> Came(r)) /\ (Rejected(r)' <=> Rejected(r))
  BY DEF Crash, Came, Rejected
<1>3. WindowTypes'
  BY <1>1 DEF Apace, WindowTypes
<1>4. \A r \in Requests : arrived[r].at \in Nat /\ arrived[r].epoch \in Nat
  BY DEF Apace, WindowTypes
<1>5. Remembered'
  <2>1. \A r \in Requests : Came(r)' => arrived[r].at \in 1..now /\ arrived[r].epoch <= crashes
    BY <1>2 DEF Apace, Remembered
  <2>2. \A r \in Requests : Accepted(r)' => arrived'[r].epoch # crashes'
    BY <1>1, <1>4, <2>1 DEF Accepted, Apace, WindowTypes
  <2>. QED  BY <1>1, <1>4, <2>1, <2>2 DEF Remembered, Apace, WindowTypes
<1>6. WindowIsKept'
  BY <1>1, <1>2 DEF Apace, WindowIsKept, Within
<1>. QED  BY <1>3, <1>5, <1>6 DEF Apace

LEMMA ApaceArrive ==
    ASSUME Apace, Ordered', NEW r \in Requests, Arrive(r)
    PROVE  Apace'
<1> DEFINE k == Key(r)
           duplicate == Pruned(k) > 0 /\ now - Pruned(k) < Window
<1>1. /\ ~Came(r) /\ status[r] = "none" /\ k \in Keys
      /\ now \in Nat \ {0} /\ crashes \in Nat /\ Window \in Nat \ {0}
      /\ recent \in [Keys -> Nat]
  BY ServingAssumption DEF Arrive, Came, Apace, Ordered, Told, Before, WindowTypes, Keys
<1>2. /\ arrived' = [arrived EXCEPT ![r] = [at |-> now, epoch |-> crashes]]
      /\ recent' = [j \in Keys |-> IF j = k /\ ~duplicate THEN now ELSE Pruned(j)]
      /\ now' = now /\ crashes' = crashes
  BY DEF Arrive, progress
<1>3. /\ arrived'[r] = [at |-> now, epoch |-> crashes]
      /\ \A s \in Requests \ {r} : arrived'[s] = arrived[s]
      /\ \A s \in Requests : arrived[s].at \in Nat /\ arrived[s].epoch \in Nat
  BY <1>2 DEF Apace, WindowTypes
<1>4. /\ Came(r)' /\ (Rejected(r)' <=> duplicate)
      /\ \A s \in Requests \ {r} : (Came(s)' <=> Came(s)) /\ (Rejected(s)' <=> Rejected(s))
  BY <1>1 DEF Arrive, Fail, Goto, Came, Rejected, Apace, Ordered, Course
<1>5. /\ \A s \in Requests \ {r} : Accepted(s)' <=> Accepted(s)
      /\ Accepted(r)' <=> ~duplicate
      /\ ~Accepted(r)
  BY <1>1, <1>4 DEF Accepted
<1>6. \A j \in Keys : \/ Pruned(j) = recent[j]
                      \/ Pruned(j) = 0 /\ now - recent[j] > 2 * Window
  BY DEF Pruned
<1>7. WindowTypes'
  <2>1. [at |-> now, epoch |-> crashes] \in [at: Nat, epoch: Nat]
    BY <1>1
  <2>2. recent' \in [Keys -> Nat]
    BY <1>1, <1>2 DEF Pruned
  <2>. QED  BY <1>1, <1>2, <2>1, <2>2 DEF Apace, WindowTypes
<1>8. \A s \in Requests : Came(s)' => arrived'[s].at \in 1..now' /\ arrived'[s].epoch <= crashes'
  BY <1>1, <1>2, <1>3, <1>4 DEF Apace, Remembered
<1>9. \A j \in Keys : recent'[j] <= now'
  BY <1>1, <1>2, <1>6 DEF Apace, Remembered
<1>10. ASSUME NEW j \in Keys, recent'[j] > 0
       PROVE  \E s \in Requests : /\ Accepted(s)' /\ Key(s) = j
                                  /\ arrived'[s].at = recent'[j] /\ arrived'[s].epoch = crashes'
  <2>1. CASE j = k /\ ~duplicate
    BY <1>1, <1>2, <1>3, <1>5, <2>1
  <2>2. CASE ~(j = k /\ ~duplicate)
    <3>1. recent'[j] = recent[j] /\ recent[j] > 0
      BY <1>1, <1>2, <1>6, <1>10, <2>2
    <3>2. PICK s \in Requests : /\ Accepted(s) /\ Key(s) = j
                                /\ arrived[s].at = recent[j] /\ arrived[s].epoch = crashes
      BY <3>1 DEF Apace, Remembered
    <3>. QED  BY <1>2, <1>3, <1>5, <3>1, <3>2
  <2>. QED  BY <2>1, <2>2
<1>11. ASSUME NEW s \in Requests, Accepted(s)', arrived'[s].epoch = crashes'
       PROVE  arrived'[s].at <= recent'[Key(s)] \/ now' - arrived'[s].at >= Window
  <2>0. Key(s) \in Keys
    BY DEF Keys
  <2>1. CASE s = r
    BY <1>1, <1>2, <1>3, <1>5, <1>11, <2>1
  <2>2. CASE s # r
    <3>1. Accepted(s) /\ arrived[s].epoch = crashes /\ arrived'[s].at = arrived[s].at
      BY <1>2, <1>3, <1>5, <1>11, <2>2
    <3>2. arrived[s].at <= recent[Key(s)] \/ now - arrived[s].at >= Window
      BY <3>1 DEF Apace, Remembered
    <3>3. arrived[s].at <= now /\ recent[Key(s)] \in Nat
      BY <1>1, <2>0, <3>1 DEF Apace, Remembered, Accepted
    <3>4. recent'[Key(s)] \in {now, recent[Key(s)]} \/ now - recent[Key(s)] > 2 * Window
      BY <1>2, <1>6, <2>0
    <3>. QED  BY <1>1, <1>2, <1>3, <3>1, <3>2, <3>3, <3>4
  <2>. QED  BY <2>1, <2>2
<1>12. Remembered'
  BY <1>8, <1>9, <1>10, <1>11 DEF Remembered
<1>13. ASSUME NEW s \in Requests \ {r}, Accepted(s), Key(s) = k, arrived[s].epoch = crashes,
              ~duplicate
       PROVE  now - arrived[s].at >= Window
  <2>1. arrived[s].at \in 1..now
    BY <1>13 DEF Apace, Remembered, Accepted
  <2>2. CASE arrived[s].at <= recent[k]
    BY <1>1, <1>6, <1>13, <2>1, <2>2
  <2>3. CASE ~(arrived[s].at <= recent[k])
    BY <1>13, <2>3 DEF Apace, Remembered
  <2>. QED  BY <2>2, <2>3
<1>14. ASSUME NEW s \in Requests, Came(s)', Rejected(s)'
       PROVE  \E t \in Requests : Came(t)' /\ ~Rejected(t)' /\ Within(s, t)'
  <2>1. CASE s = r
    <3>1. Pruned(k) = recent[k] /\ recent[k] > 0 /\ now - recent[k] < Window
      BY <1>1, <1>4, <1>6, <1>14, <2>1
    <3>2. PICK t \in Requests : /\ Accepted(t) /\ Key(t) = k
                                /\ arrived[t].at = recent[k] /\ arrived[t].epoch = crashes
      BY <1>1, <3>1 DEF Apace, Remembered
    <3>3. t # r /\ Came(t)' /\ ~Rejected(t)'
      BY <1>4, <1>5, <3>2 DEF Accepted
    <3>4. recent[k] <= now /\ recent[k] \in Nat
      BY <1>1 DEF Apace, Remembered
    <3>5. Within(s, t)'
      BY <1>1, <1>3, <2>1, <3>1, <3>2, <3>3, <3>4 DEF Within
    <3>. QED  BY <3>3, <3>5
  <2>2. CASE s # r
    <3>1. PICK t \in Requests : Came(t) /\ ~Rejected(t) /\ Within(s, t)
      BY <1>4, <1>14, <2>2 DEF Apace, WindowIsKept
    <3>2. t # r
      BY <1>1, <3>1
    <3>. QED  BY <1>3, <1>4, <2>2, <3>1, <3>2 DEF Within
  <2>. QED  BY <2>1, <2>2
<1>15. ASSUME NEW s \in Requests, Accepted(s)', NEW t \in Requests \ {s}, Accepted(t)'
       PROVE  ~Within(s, t)'
  <2>1. CASE s = r
    <3>1. t # r /\ Accepted(t) /\ ~duplicate
      BY <1>5, <1>15, <2>1
    <3>2. Within(s, t)' => Key(t) = k /\ arrived[t].epoch = crashes /\ now < arrived[t].at + Window
      BY <1>3, <2>1, <3>1 DEF Within
    <3>. QED  BY <1>1, <1>3, <1>13, <3>1, <3>2
  <2>2. CASE t = r
    <3>1. s # r /\ Accepted(s) /\ ~duplicate
      BY <1>5, <1>15, <2>2
    <3>2. Within(s, t)' => Key(s) = k /\ arrived[s].epoch = crashes /\ now <= arrived[s].at
      BY <1>3, <2>2, <3>1 DEF Within
    <3>. QED  BY <1>1, <1>3, <1>13, <3>1, <3>2
  <2>3. CASE s # r /\ t # r
    <3>1. Accepted(s) /\ Accepted(t)
      BY <1>5, <1>15, <2>3
    <3>2. ~Within(s, t)
      BY <3>1 DEF Apace, WindowIsKept, Accepted
    <3>. QED  BY <1>3, <2>3, <3>2 DEF Within
  <2>. QED  BY <2>1, <2>2, <2>3
<1>16. WindowIsKept'
  BY <1>14, <1>15 DEF WindowIsKept, Accepted
<1>. QED  BY <1>7, <1>12, <1>16 DEF Apace

LEMMA ApaceStep ==
    ASSUME Apace, [Next]_vars
    PROVE  Apace'
<1>0. Ordered /\ Ordered' /\ pc \in [Requests -> Steps] /\ status \in [Requests -> Statuses]
  BY OrderedStep DEF Apace, Ordered, Course
<1>. USE DEF Before, ErrorCodes, Came, Rejected
<1>1. ASSUME NEW r \in Requests, Advance(r), UNCHANGED <<window, crashes>> PROVE Apace'
  BY <1>0, <1>1, ApaceFrame DEF Advance
<1>2. ASSUME NEW r \in Requests, Fails(r), UNCHANGED <<window, crashes>> PROVE Apace'
  <2>1. status[r] = "none"
    BY <1>0, <1>2 DEF Fails, Ordered, Told
  <2>. QED  BY <1>0, <1>2, <2>1, ApaceFrame DEF Fails
<1>3. ASSUME NEW r \in Requests, Commit(r) \/ LogEvent(r) PROVE Apace'
  <2>1. status[r] = "none" /\ pc[r] \in {"commit", "log"}
    BY <1>0, <1>3 DEF Commit, LogEvent, Ordered, Told
  <2>. QED  BY <1>0, <1>3, <2>1, ApaceFrame DEF Commit, LogEvent, Goto
<1>4. ASSUME NEW r \in Requests,
             \/ Connect(r) \/ CacheHit(r) \/ CacheMiss(r) \/ Rewrite(r) \/ Retrieve(r)
             \/ Rerank(r) \/ Generate(r) \/ StoreInCache(r) \/ RecordGap(r)
      PROVE  Apace'
  <2>1. UNCHANGED <<window, crashes>>
    BY <1>4 DEF Connect, CacheHit, CacheMiss, Rewrite, Retrieve, Rerank, Generate,
                StoreInCache, RecordGap
  <2>. QED  BY <1>0, <1>1, <1>4, <2>1, Advances
<1>5. ASSUME NEW r \in Requests, Break(r) \/ RaiseHttpError(r) PROVE Apace'
  <2>1. UNCHANGED <<window, crashes>>
    BY <1>5, GeminiSteps, RewriteSteps
       DEF Break, RetrievalFails, GroqFails, DatabaseFails, RaiseHttpError
  <2>. QED  BY <1>0, <1>1, <1>2, <1>5, <2>1, Breaks
<1>6. CASE UNCHANGED serving
  BY <1>0, <1>6, ApaceFrame DEF serving, window
<1>. QED  BY <1>0, <1>3, <1>4, <1>5, <1>6, Idle, ApaceTick, ApaceCrash, ApaceArrive DEF Next, Serve

LEMMA ApaceStart == Init => Apace
<1>. SUFFICES ASSUME Init PROVE Apace
  OBVIOUS
<1>1. \A r \in Requests : ~Came(r)
  BY DEF Init, Came
<1>2. WindowTypes
  BY DEF Init, WindowTypes
<1>3. Remembered
  BY <1>1 DEF Init, Remembered, Accepted
<1>4. WindowIsKept
  BY <1>1 DEF WindowIsKept
<1>. QED  BY <1>2, <1>3, <1>4, OrderedStart DEF Apace

(* limiter.py:129-165: for any window, clients and queries, and whatever   *)
(* pruning has forgotten, accepted requests of a key are a window apart,   *)
(* and a rejected one follows an accepted one within the window.           *)
THEOREM WindowAlwaysKept == Spec => []WindowIsKept
<1>1. Apace => WindowIsKept
  BY DEF Apace
<1>. QED  BY <1>1, ApaceStart, ApaceStep, PTL DEF Spec

-----------------------------------------------------------------------------
(* Progress                                                                *)

\* What ProgressIsTrue says of an entry whose request is at a step, was told
\* something, has its turn stored or not, and a report gone astray or not.
Honest(e, step, told, kept, astray) ==
    ~astray /\ told # "lost" =>
        CASE e.status = "in_progress" -> step \in StepsOf(e.stage)
          [] e.status = "failed" -> step \in ErrorCodes \/ told \in ErrorCodes
          [] e.status = "completed" -> step \in {"produced", "commit"} \/ kept \/ told = "500"

Held(e) == Honest(e, pc[e.request], status[e.request], e.request \in stored,
                     e.request \in spilled)
After(e) == Honest(e, pc'[e.request], status'[e.request], e.request \in stored',
                   e.request \in spilled')

\* An entry is honest, and kept under the conversation of its request.
Reported ==
    /\ Ordered
    /\ redis \in [Convs -> Entry \cup {None}]
    /\ \A c \in Convs : redis[c] # None => Conv[redis[c].request] = c /\ Held(redis[c])

\* A step of r alone.
Only(r) ==
    \A s \in Requests \ {r} :
        pc'[s] = pc[s] /\ status'[s] = status[s] /\ (s \in stored <=> s \in stored')

LEMMA OthersStay ==
    ASSUME NEW r \in Requests, Only(r), NEW e \in Entry, e.request # r, Held(e),
           e.request \in spilled => e.request \in spilled'
    PROVE  After(e)
<1>1. e.request \in Requests \ {r}
  BY DEF Entry
<1>. QED  BY <1>1 DEF Only, Held, After, Honest

\* A step of r that reports the truth.
LEMMA ReportStep ==
    ASSUME Reported, Ordered', NEW r \in Requests, Only(r),
           NEW stage \in Stages, NEW st \in {"in_progress", "completed", "failed"},
           Emit(r, stage, st),
           After([request |-> r, stage |-> stage, status |-> st])
    PROVE  Reported'
<1> DEFINE e == [request |-> r, stage |-> stage, status |-> st]
<1>1. e \in Entry /\ Conv[r] \in Convs /\ e.request = r
  BY DEF Entry, Convs
<1>2. /\ spilled' \in {spilled \ {r}, spilled \cup {r}}
      /\ \/ redis' = [redis EXCEPT ![Conv[r]] = e]
         \/ redis' = redis /\ r \in spilled'
  BY DEF Emit
<1>3. redis' \in [Convs -> Entry \cup {None}]
  BY <1>1, <1>2 DEF Reported
<1>4. ASSUME NEW c \in Convs, redis'[c] # None
      PROVE  Conv[redis'[c].request] = c /\ After(redis'[c])
  <2>1. CASE redis'[c] = e /\ c = Conv[r]
    BY <1>1, <2>1
  <2>2. CASE redis'[c] = redis[c] /\ (c # Conv[r] \/ r \in spilled')
    <3>1. redis[c] \in Entry /\ Conv[redis[c].request] = c /\ Held(redis[c])
      BY <1>4, <2>2 DEF Reported
    <3>2. CASE redis[c].request # r
      BY <1>2, <2>2, <3>1, <3>2, OthersStay
    <3>3. CASE redis[c].request = r
      BY <2>2, <3>1, <3>3 DEF After, Honest
    <3>. QED  BY <3>2, <3>3
  <2>. QED  BY <1>1, <1>2, <2>1, <2>2 DEF Reported
<1>. QED  BY <1>3, <1>4 DEF Reported, After, Held

\* A step that reports nothing.
LEMMA QuietStep ==
    ASSUME Reported, Ordered', UNCHANGED progress,
           \A e \in Entry : Held(e) => After(e)
    PROVE  Reported'
<1>1. spilled' = spilled /\ redis' = redis
  BY DEF progress
<1>2. ASSUME NEW c \in Convs, redis[c] # None
      PROVE  Conv[redis[c].request] = c /\ After(redis[c])
  BY <1>2 DEF Reported
<1>. QED  BY <1>1, <1>2 DEF Reported, After, Held

\* What a request is told stays, and a step of its own is never a stage that
\* is shown as in progress, before and after the steps that report nothing.
LEMMA QuietOwn ==
    ASSUME Reported, Ordered', UNCHANGED progress, NEW r \in Requests, Only(r),
           pc[r] \notin {"rewriting", "rephrasing", "retrieving", "reranking", "generating",
                          "fallback"},
           status[r] # "none" => status'[r] = status[r],
           r \in stored => r \in stored',
           pc[r] \in ErrorCodes => status'[r] \in ErrorCodes,
           pc[r] \in {"produced", "commit"} =>
              pc'[r] \in {"produced", "commit"} \/ r \in stored' \/ status'[r] = "500"
    PROVE  Reported'
<1>1. ASSUME NEW e \in Entry, Held(e)
      PROVE  After(e)
  <2>1. CASE e.request # r
    BY <1>1, <2>1, OthersStay DEF progress
  <2>2. CASE e.request = r
    <3>1. e.status \in {"in_progress", "completed", "failed"} /\ e.stage \in Stages
      BY DEF Entry
    <3>2. spilled' = spilled
      BY DEF progress
    <3>3. pc[r] \notin StepsOf(e.stage)
      BY <3>1 DEF StepsOf, Stages
    <3>4. CASE r \in spilled
      BY <2>2, <3>2, <3>4 DEF After, Honest
    <3>5. CASE r \notin spilled /\ status[r] = "lost"
      BY <2>2, <3>5 DEF After, Honest
    <3>6. CASE r \notin spilled /\ status[r] # "lost"
      <4>1. status[r] \in ErrorCodes => status'[r] = status[r]
        BY DEF ErrorCodes
      <4>. QED  BY <1>1, <2>2, <3>1, <3>3, <3>6, <4>1 DEF Held, After, Honest
    <3>. QED  BY <3>4, <3>5, <3>6
  <2>. QED  BY <2>1, <2>2
<1>. QED  BY <1>1, QuietStep

\* Steps forward that report where they lead.
LEMMA ReportedServe ==
    ASSUME Reported, Ordered', NEW r \in Requests,
           \/ CacheHit(r) \/ CacheMiss(r) \/ Rewrite(r) \/ Retrieve(r)
           \/ Rerank(r) \/ Generate(r)
    PROVE  Reported'
<1> DEFINE E(stage, st) == [request |-> r, stage |-> stage, status |-> st]
<1>0. pc \in [Requests -> Steps] /\ Only(r)
  BY DEF Reported, Ordered, Course, Only, CacheHit, CacheMiss, Rewrite, Retrieve, Rerank,
         Generate, Goto
<1>1. CASE CacheHit(r) \/ Generate(r)
  <2>1. pc'[r] \in {"commit", "produced"} /\ Emit(r, "Complete", "completed")
    BY <1>0, <1>1 DEF CacheHit, Generate, Goto
  <2>2. After(E("Complete", "completed"))
    BY <2>1 DEF After, Honest
  <2>. QED  BY <1>0, <2>1, <2>2, ReportStep DEF Stages
<1>2. ASSUME NEW stage \in Stages, Emit(r, stage, "in_progress"), pc'[r] \in StepsOf(stage)
      PROVE  Reported'
  <2>1. After(E(stage, "in_progress"))
    BY <1>2 DEF After, Honest
  <2>. QED  BY <1>0, <1>2, <2>1, ReportStep
<1>3. CASE CacheMiss(r)
  BY <1>0, <1>2, <1>3 DEF CacheMiss, Goto, StepsOf, Stages
<1>4. CASE Rewrite(r)
  BY <1>0, <1>2, <1>4 DEF Rewrite, Goto, StepsOf, Stages
<1>5. CASE Retrieve(r)
  BY <1>0, <1>2, <1>5 DEF Retrieve, Goto, StepsOf, Stages
<1>6. CASE Rerank(r)
  BY <1>0, <1>2, <1>6 DEF Rerank, Goto, StepsOf, Stages
<1>. QED  BY <1>1, <1>3, <1>4, <1>5, <1>6

\* Steps that report a failure.
LEMMA ReportedFailure ==
    ASSUME Reported, Ordered', NEW r \in Requests, NEW stage \in Stages,
           Emit(r, stage, "failed"), UNCHANGED <<status, stored>>,
           NEW s \in ErrorCodes, pc' = [pc EXCEPT ![r] = s]
    PROVE  Reported'
<1>1. Only(r) /\ pc'[r] = s
  BY DEF Reported, Ordered, Course, Only
<1>2. After([request |-> r, stage |-> stage, status |-> "failed"])
  BY <1>1 DEF After, Honest
<1>. QED  BY <1>1, <1>2, ReportStep

\* From one model to the other, within a stage.
LEMMA ReportedFallback ==
    ASSUME Reported, Ordered', NEW r \in Requests, UNCHANGED <<status, stored, progress>>,
           \/ pc[r] = "rewriting" /\ pc' = [pc EXCEPT ![r] = "rephrasing"]
           \/ pc[r] = "generating" /\ pc' = [pc EXCEPT ![r] = "fallback"]
    PROVE  Reported'
<1>1. /\ Only(r) /\ status' = status /\ stored' = stored /\ spilled' = spilled
      /\ \/ pc[r] = "rewriting" /\ pc'[r] = "rephrasing"
         \/ pc[r] = "generating" /\ pc'[r] = "fallback"
  BY DEF Reported, Ordered, Course, Only, progress
<1>2. ASSUME NEW e \in Entry, Held(e) PROVE After(e)
  <2>1. CASE e.request # r
    BY <1>1, <1>2, <2>1, OthersStay
  <2>2. CASE e.request = r
    <3>1. e.stage \in Stages /\ e.status \in {"in_progress", "completed", "failed"}
      BY DEF Entry
    <3>2. pc[r] \in StepsOf(e.stage) => pc'[r] \in StepsOf(e.stage)
      BY <1>1, <3>1 DEF StepsOf, Stages
    <3>3. pc[r] \notin ErrorCodes \cup {"produced", "commit"}
      BY <1>1 DEF ErrorCodes
    <3>. QED  BY <1>1, <1>2, <2>2, <3>1, <3>2, <3>3 DEF Held, After, Honest
  <2>. QED  BY <2>1, <2>2
<1>. QED  BY <1>2, QuietStep

LEMMA ReportedBreak ==
    ASSUME Reported, Ordered', NEW r \in Requests,
           RetrievalFails(r) \/ GeminiFails(r) \/ GroqFails(r) \/ RewriteFails(r)
    PROVE  Reported'
<1>. USE DEF Stages
<1>1. CASE RetrievalFails(r)
  <2>1. /\ Emit(r, "Reranking", "failed") \/ Emit(r, "Retrieving", "failed")
        /\ pc' = [pc EXCEPT ![r] = "500"] /\ UNCHANGED <<status, stored>>
    BY <1>1 DEF RetrievalFails, Goto
  <2>. QED  BY <2>1, ReportedFailure DEF ErrorCodes
<1>2. CASE GroqFails(r)
  BY <1>2, ReportedFailure DEF GroqFails, Goto, ErrorCodes
<1>3. CASE GeminiFails(r)
  BY <1>3, GeminiSteps, ReportedFailure, ReportedFallback
<1>4. CASE RewriteFails(r)
  <2>1. CASE /\ Emit(r, "Retrieving", "in_progress")
             /\ pc' = [pc EXCEPT ![r] = "retrieving"]
    <3>1. Only(r) /\ pc'[r] = "retrieving"
      BY <1>4, <2>1, RewriteSteps DEF Reported, Ordered, Course, Only
    <3>2. After([request |-> r, stage |-> "Retrieving", status |-> "in_progress"])
      BY <3>1 DEF After, Honest, StepsOf
    <3>. QED  BY <2>1, <3>1, <3>2, ReportStep
  <2>. QED  BY <1>4, <2>1, RewriteSteps, ReportedFallback
<1>. QED  BY <1>1, <1>2, <1>3, <1>4

\* Steps that report nothing.
LEMMA ReportedQuiet ==
    ASSUME Reported, Ordered', NEW r \in Requests,
           \/ Arrive(r) \/ Connect(r) \/ StoreInCache(r) \/ Commit(r) \/ LogEvent(r)
           \/ RecordGap(r) \/ DatabaseFails(r) \/ RaiseHttpError(r)
    PROVE  Reported'
<1>0. /\ pc \in [Requests -> Steps] /\ status \in [Requests -> Statuses]
      /\ stored \in SUBSET Requests /\ Told
  BY DEF Reported, Ordered, Course
<1>. USE DEF Only, Goto, Fail, progress, Told, Before, ErrorCodes
<1>1. CASE Arrive(r)
  BY <1>0, <1>1, QuietOwn DEF Arrive
<1>2. CASE Connect(r)
  BY <1>0, <1>2, QuietOwn DEF Connect, Waiting
<1>3. CASE StoreInCache(r)
  BY <1>0, <1>3, QuietOwn DEF StoreInCache
<1>4. CASE Commit(r)
  BY <1>0, <1>4, QuietOwn DEF Commit
<1>5. CASE LogEvent(r)
  BY <1>0, <1>5, QuietOwn DEF LogEvent
<1>6. CASE RecordGap(r)
  BY <1>0, <1>6, QuietOwn DEF RecordGap
<1>7. CASE DatabaseFails(r)
  BY <1>0, <1>7, QuietOwn DEF DatabaseFails, Waiting
<1>8. CASE RaiseHttpError(r)
  BY <1>0, <1>8, QuietOwn DEF RaiseHttpError
<1>. QED  BY <1>1, <1>2, <1>3, <1>4, <1>5, <1>6, <1>7, <1>8

LEMMA ReportedCrash ==
    ASSUME Reported, Ordered', Crash
    PROVE  Reported'
<1>1. /\ UNCHANGED progress /\ stored' = stored /\ spilled' = spilled
      /\ pc' = [r \in Requests |-> IF pc[r] \notin {"new", "done"} THEN "done" ELSE pc[r]]
      /\ status' = [r \in Requests |-> IF pc[r] \notin {"new", "done"} /\ status[r] = "none"
                                       THEN "lost" ELSE status[r]]
  BY DEF Crash, progress
<1>2. ASSUME NEW e \in Entry, Held(e)
      PROVE  After(e)
  <2>1. /\ e.request \in Requests /\ e.stage \in Stages
        /\ e.status \in {"in_progress", "completed", "failed"}
    BY DEF Entry
  <2>2. CASE pc[e.request] \in Before \ {"new"}
    <3>1. status'[e.request] = "lost"
      BY <1>1, <2>1, <2>2 DEF Reported, Ordered, Told, Before, ErrorCodes
    <3>. QED  BY <3>1 DEF After, Honest
  <2>3. CASE pc[e.request] \notin Before \ {"new"}
    <3>0. pc[e.request] \notin Before \/ pc[e.request] = "new"
      BY <2>3
    <3>1. /\ pc[e.request] \notin StepsOf(e.stage)
          /\ pc[e.request] \notin {"produced", "commit"} /\ pc[e.request] \notin ErrorCodes
      BY <2>1, <3>0 DEF StepsOf, Stages, Before, ErrorCodes
    <3>2. status'[e.request] \in {"lost", status[e.request]}
      BY <1>1, <2>1
    <3>. QED  BY <1>1, <1>2, <2>1, <3>1, <3>2 DEF Held, After, Honest
  <2>. QED  BY <2>2, <2>3
<1>. QED  BY <1>1, <1>2, QuietStep

LEMMA ReportedStep ==
    ASSUME Reported, [Next]_vars
    PROVE  Reported'
<1>1. Ordered'
  BY OrderedStep DEF Reported
<1>2. CASE Tick \/ UNCHANGED serving
  <2>1. UNCHANGED <<pc, status, stored, progress>>
    BY <1>2 DEF Tick, serving, progress
  <2>2. \A e \in Entry : Held(e) => After(e)
    BY <2>1 DEF Held, After, progress
  <2>. QED  BY <1>1, <2>1, <2>2, QuietStep
<1>. QED  BY <1>1, <1>2, Idle, ReportedServe, ReportedBreak, ReportedQuiet, ReportedCrash
          DEF Next, Serve, Break

LEMMA ReportedStart == Init => Reported
BY OrderedStart DEF Init, Reported

(* progress_service.py:28-64 with pipeline.py:323-407: however many        *)
(* requests of a conversation overlap, what Redis shows of the last one    *)
(* that reported is true.                                                  *)
THEOREM ProgressAlwaysTrue == Spec => []ProgressIsTrue
<1>1. Reported => ProgressIsTrue
  <2>. SUFFICES ASSUME Reported, NEW c \in Convs, redis[c] # None
                PROVE  Held(redis[c])
    BY DEF ProgressIsTrue, Held, Honest
  <2>. QED  BY DEF Reported
<1>. QED  BY <1>1, ReportedStart, ReportedStep, PTL DEF Spec
=============================================================================
