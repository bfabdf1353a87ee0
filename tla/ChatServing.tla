----------------------------- MODULE ChatServing -----------------------------
(***************************************************************************)
(* A chat request from its arrival to its answer: the window of duplicate  *)
(* detection (limiter.py), the pool of database connections (database.py), *)
(* the handler (routers/chat.py), the pipeline with its stages             *)
(* (rag/pipeline.py), the two language models (services/llm_service.py),   *)
(* and the progress that the browser polls (services/progress_service.py). *)
(*                                                                         *)
(* Requests run concurrently on one event loop; their pipelines run in     *)
(* threads.  A step is what happens between two awaits, or between two     *)
(* calls to a shared store.  Messages and history are in Conversations,    *)
(* versions and freshness of cached answers in ResponseCache; here a turn  *)
(* is stored or not, and a cached answer is the request it was made for.   *)
(* The background task of a request is the one of KnowledgeGaps with its   *)
(* name; it begins when the request is answered, and takes a connection of *)
(* the pool for its session.                                               *)
(***************************************************************************)
EXTENDS Naturals, FiniteSets, KnowledgeGaps

CONSTANTS
    Requests,        \* POST /chat requests
    Query,           \* [Requests -> queries]; the knowledge mode is the same for all
    Client,          \* [Requests -> client addresses]
    Conv,            \* [Requests -> conversations], the client's own
    None,            \* no request, no entry
    PoolSize,        \* pool_size + max_overflow
    Window,          \* _DEDUP_WINDOW_SECONDS
    RerankEnabled,   \* not settings.disable_reranker
    GroqKey,         \* settings.groq_api_key is set
    GeminiErrors,    \* what a failing Gemini may say: sets of telling words, where
                     \* "rate" stands for 429, 413 and quota too, "key" for 401
                     \* and 403, and "unavailable" for 502 and 503
    MaxTime, MaxFaults   \* bounds: of the clock, of restarts and failing Redis calls

Key(r) == <<Client[r], Query[r]>>
Keys == {Key(r) : r \in Requests}
Queries == {Query[r] : r \in Requests}
Convs == {Conv[r] : r \in Requests}

ASSUME ServingAssumption ==
    /\ PoolSize \in Nat \ {0}
    /\ Window \in Nat \ {0}
    /\ MaxTime \in Nat \ {0} /\ MaxFaults \in Nat
    /\ RerankEnabled \in BOOLEAN /\ GroqKey \in BOOLEAN
    /\ None \notin Requests
    /\ IsFiniteSet(Requests)
    /\ Tasks = Requests

VARIABLES
    pc,        \* where each request is
    status,    \* what its client was told
    arrived,   \* when it came, and after how many restarts
    now,       \* time.monotonic()
    recent,    \* _recent_queries: the time of the last accepted one, 0 if none
    holds,     \* the requests whose session holds a connection of the pool
    stored,    \* the requests whose turn is committed
    cache,     \* the request whose answer is cached for a query
    blocked,   \* the prompts of which Gemini says that it blocked them
    redis,     \* progress in Redis, by conversation
    spilled,   \* the requests whose last report went to the process's memory instead
    faults,    \* calls to Redis that failed so far
    crashes    \* restarts of the server so far

serving == <<pc, status, arrived, now, recent, holds, stored, cache, blocked,
             redis, spilled, faults, crashes>>
vars == <<serving, gapVars>>
progress == <<redis, spilled, faults>>
window == <<arrived, now, recent>>

-----------------------------------------------------------------------------
Waiting == {"connect", "refresh", "gap"}

\* What an error of the pipeline becomes.
ErrorCodes == {"422", "429", "500", "503"}

(* In "rewriting" and "generating" a prompt is with Gemini, in "rephrasing" *)
(* and "fallback" with Groq.  A code stands for the step at which the      *)
(* pipeline has raised and the handler has not yet answered with it.       *)
Steps == Waiting \cup ErrorCodes \cup
         {"new", "begin", "rewriting", "rephrasing", "retrieving", "reranking", "generating",
          "fallback", "produced", "commit", "log", "record", "done"}

Statuses == {"none", "200", "duplicate", "lost"} \cup ErrorCodes

\* A prompt is for the rewriting or for the answer of a request.
Prompts == Requests \X {"rewriting", "generating"}

Stages == {"Rewriting", "Retrieving", "Reranking", "Generating", "Complete"}

Entry == [request: Requests, stage: Stages, status: {"in_progress", "completed", "failed"}]

Init ==
    /\ pc = [r \in Requests |-> "new"]
    /\ status = [r \in Requests |-> "none"]
    /\ arrived = [r \in Requests |-> [at |-> 0, epoch |-> 0]]
    /\ now = 1
    /\ recent = [k \in Keys |-> 0]
    /\ holds = {} /\ stored = {}
    /\ cache = [q \in Queries |-> None]
    /\ blocked = {}
    /\ redis = [c \in Convs |-> None]
    /\ spilled = {}
    /\ faults = 0 /\ crashes = 0
    /\ GapInit
    /\ \A r, s \in Requests : Query[r] = Query[s] => task[r].text = task[s].text

Goto(r, step) == pc' = [pc EXCEPT ![r] = step]

(* The client is told s; the session is closed, which gives back its       *)
(* connection and undoes what it has not committed.                        *)
Fail(r, s) ==
    /\ Goto(r, "done")
    /\ status' = [status EXCEPT ![r] = s]
    /\ holds' = holds \ {r}

(* update_progress: the entry of the conversation in Redis is replaced, or *)
(* stays as it is when the call fails and the stage goes to the dictionary *)
(* of the process, which is not read while Redis has an entry.             *)
Emit(r, stage, st) ==
    LET e == [request |-> r, stage |-> stage, status |-> st]
    IN  \/ /\ redis' = [redis EXCEPT ![Conv[r]] = e]
           /\ spilled' = spilled \ {r}
           /\ UNCHANGED faults
        \/ /\ faults + crashes < MaxFaults
           /\ faults' = faults + 1
           /\ spilled' = spilled \cup {r}
           /\ UNCHANGED redis

-----------------------------------------------------------------------------
(* Arrival and connections                                                 *)

\* Mutant: the comparison the wrong way round.
PrunedYoung(k) == IF now - recent[k] < 2 * Window THEN 0 ELSE recent[k]

\* An entry that is older than two windows is forgotten.
Pruned(k) == IF now - recent[k] > 2 * Window THEN 0 ELSE recent[k]

\* Mutant: a rejected request starts the window again.
ArriveRestarting(r) ==
    LET last == Pruned(Key(r))
        duplicate == last > 0 /\ now - last < Window
    IN  /\ pc[r] = "new"
        /\ arrived' = [arrived EXCEPT ![r] = [at |-> now, epoch |-> crashes]]
        /\ recent' = [k \in Keys |-> IF k = Key(r) THEN now ELSE Pruned(k)]
        /\ IF duplicate THEN Fail(r, "duplicate")
                        ELSE Goto(r, "connect") /\ UNCHANGED <<status, holds>>
        /\ UNCHANGED <<now, stored, cache, blocked, progress, crashes, gapVars>>

(* is_duplicate_query: old entries are pruned, then the request is         *)
(* rejected within the window of the last accepted one with the same query *)
(* from the same client, or accepted and remembered.                       *)
Arrive(r) ==
    LET last == Pruned(Key(r))
        duplicate == last > 0 /\ now - last < Window
    IN  /\ pc[r] = "new"
        /\ arrived' = [arrived EXCEPT ![r] = [at |-> now, epoch |-> crashes]]
        /\ recent' = [k \in Keys |-> IF k = Key(r) /\ ~duplicate THEN now ELSE Pruned(k)]
        /\ IF duplicate THEN Fail(r, "duplicate")
                        ELSE Goto(r, "connect") /\ UNCHANGED <<status, holds>>
        /\ UNCHANGED <<now, stored, cache, blocked, progress, crashes, gapVars>>

(* The clock matters while a request is still to come. *)
Tick ==
    /\ now < MaxTime
    /\ \E r \in Requests : pc[r] = "new"
    /\ now' = now + 1
    /\ UNCHANGED <<pc, status, arrived, recent, holds, stored, cache, blocked, progress, crashes, gapVars>>

(* The first statement of a session takes a connection, and waits for one  *)
(* when PoolSize are taken.                                                *)
Connect(r) ==
    /\ pc[r] \in Waiting
    /\ Cardinality(holds) < PoolSize
    /\ holds' = holds \cup {r}
    /\ Goto(r, CASE pc[r] = "connect" -> "begin"
                 [] pc[r] = "refresh" -> "log"
                 [] pc[r] = "gap"     -> "record")
    /\ UNCHANGED <<status, window, stored, cache, blocked, progress, crashes, gapVars>>

(* Waiting for a connection takes too long, or a statement fails: the      *)
(* request ends with an error, also when its turn is already committed.    *)
(* The same in the background task is only logged.                         *)
DatabaseFails(r) ==
    /\ pc[r] \in Waiting \cup {"begin", "commit", "log", "record"}
    /\ IF pc[r] \in {"gap", "record"}
         THEN Fail(r, status[r]) /\ TaskFails(r)
         ELSE Fail(r, "500") /\ UNCHANGED gapVars
    /\ UNCHANGED <<window, stored, cache, blocked, progress, crashes>>

-----------------------------------------------------------------------------
(* The handler up to the pipeline                                          *)

(* The question is flushed and the cache holds an answer: Complete is      *)
(* reported before the turn is committed.                                  *)
CacheHit(r) ==
    /\ pc[r] = "begin"
    /\ cache[Query[r]] # None
    /\ Emit(r, "Complete", "completed")
    /\ Goto(r, "commit")
    /\ UNCHANGED <<status, window, holds, stored, cache, blocked, crashes, gapVars>>

(* Nothing is cached, the entry has expired or Redis fails: the pipeline   *)
(* starts with rewriting.                                                  *)
CacheMiss(r) ==
    /\ pc[r] = "begin"
    /\ Emit(r, "Rewriting", "in_progress")
    /\ Goto(r, "rewriting")
    /\ UNCHANGED <<status, window, holds, stored, cache, blocked, crashes, gapVars>>

-----------------------------------------------------------------------------
(* The pipeline                                                            *)

\* Mutant: any error of the first model leads to the second.
EligibleAlways(words) == TRUE

(* _is_fallback_eligible_error, which compares in lower case. *)
Eligible(words) == words \cap {"safety", "blocked", "harm", "HARM"} = {}

(* Gemini fails with a prompt of r; a message with these words says that   *)
(* it was blocked.  An answer withheld for safety has no text and becomes  *)
(* the error "empty response", which has none of them.                     *)
Refuse(r, words) ==
    blocked' = IF words \cap {"safety", "blocked", "harm", "HARM"} # {}
               THEN blocked \cup {<<r, pc[r]>>} ELSE blocked

\* Mutant: a stage that the browser does not know.
RewriteUnnamed(r) ==
    /\ pc[r] = "rewriting"
    /\ Emit(r, "Searching", "in_progress")
    /\ Goto(r, "retrieving")
    /\ UNCHANGED <<status, window, holds, stored, cache, blocked, crashes, gapVars>>

(* rewrite_query: whatever the models answered, and also when the second   *)
(* failed, retrieval begins, with rewritten queries or without.            *)
Rewrite(r) ==
    /\ pc[r] \in {"rewriting", "rephrasing"}
    /\ Emit(r, "Retrieving", "in_progress")
    /\ Goto(r, "retrieving")
    /\ UNCHANGED <<status, window, holds, stored, cache, blocked, crashes, gapVars>>

(* Gemini fails to rewrite.  An eligible error leads to Groq; any other is *)
(* swallowed, a blocked prompt included, and retrieval begins.             *)
RewriteFails(r) ==
    /\ pc[r] = "rewriting"
    /\ \E words \in GeminiErrors :
          /\ Refuse(r, words)
          /\ \/ /\ Eligible(words) /\ GroqKey
                /\ Goto(r, "rephrasing")
                /\ UNCHANGED progress
             \/ /\ ~(Eligible(words) /\ GroqKey)
                /\ Emit(r, "Retrieving", "in_progress")
                /\ Goto(r, "retrieving")
    /\ UNCHANGED <<status, window, holds, stored, cache, crashes, gapVars>>

(* hybrid_retrieve: with candidates, reranking is reported if it is        *)
(* enabled; without any, there is none.                                    *)
Retrieve(r) ==
    /\ pc[r] = "retrieving"
    /\ \/ RerankEnabled /\ Emit(r, "Reranking", "in_progress") /\ Goto(r, "reranking")
       \/ Emit(r, "Generating", "in_progress") /\ Goto(r, "generating")
    /\ UNCHANGED <<status, window, holds, stored, cache, blocked, crashes, gapVars>>

(* The cross-encoder's order, or that of the fusion when it is not there.  *)
Rerank(r) ==
    /\ pc[r] = "reranking"
    /\ Emit(r, "Generating", "in_progress")
    /\ Goto(r, "generating")
    /\ UNCHANGED <<status, window, holds, stored, cache, blocked, crashes, gapVars>>

(* BM25, the embedder, pgvector or the cross-encoder raises.  *)
RetrievalFails(r) ==
    /\ pc[r] \in {"retrieving", "reranking"}
    /\ Emit(r, IF pc[r] = "reranking" THEN "Reranking" ELSE "Retrieving", "failed")
    /\ Goto(r, "500")
    /\ UNCHANGED <<status, window, holds, stored, cache, blocked, crashes, gapVars>>

(* An answer, cleaned, of either model. *)
Generate(r) ==
    /\ pc[r] \in {"generating", "fallback"}
    /\ Emit(r, "Complete", "completed")
    /\ Goto(r, "produced")
    /\ UNCHANGED <<status, window, holds, stored, cache, blocked, crashes, gapVars>>

(* _classify_llm_error, in the order of its questions.  Quota words come   *)
(* first, and "HARM" counts in upper case only.                            *)
ClassifyLlmError(words) ==
    IF "rate" \in words THEN "429"
    ELSE IF words \cap {"key", "unavailable"} # {} THEN "503"
    ELSE IF words \cap {"safety", "blocked", "HARM"} # {} THEN "422"
    ELSE "500"

(* Gemini raises, or answers with nothing, which raises too.  An eligible  *)
(* error leads to Groq, and without a key to the 503 of an exhausted       *)
(* chain; any other error is classified.                                   *)
GeminiFails(r) ==
    /\ pc[r] = "generating"
    /\ \E words \in GeminiErrors :
          /\ Refuse(r, words)
          /\ \/ /\ Eligible(words) /\ GroqKey
                /\ Goto(r, "fallback")
                /\ UNCHANGED progress
             \/ /\ ~(Eligible(words) /\ GroqKey)
                /\ Emit(r, "Generating", "failed")
                /\ Goto(r, IF Eligible(words) THEN "503" ELSE ClassifyLlmError(words))
    /\ UNCHANGED <<status, window, holds, stored, cache, crashes, gapVars>>

\* Mutant: the last failure of the chain is not reported.
GroqFailsSilently(r) ==
    /\ pc[r] = "fallback"
    /\ Goto(r, "503")
    /\ UNCHANGED <<status, window, holds, stored, cache, blocked, progress, crashes, gapVars>>

(* Groq fails as well: all models are exhausted. *)
GroqFails(r) ==
    /\ pc[r] = "fallback"
    /\ Emit(r, "Generating", "failed")
    /\ Goto(r, "503")
    /\ UNCHANGED <<status, window, holds, stored, cache, blocked, crashes, gapVars>>

-----------------------------------------------------------------------------
(* The handler behind the pipeline                                         *)

\* Mutant: the handler keeps its session open after an error.
RaiseHttpErrorOpen(r) ==
    /\ pc[r] \in ErrorCodes
    /\ Goto(r, "done")
    /\ status' = [status EXCEPT ![r] = pc[r]]
    /\ UNCHANGED <<window, holds, stored, cache, blocked, progress, crashes, gapVars>>

\* Mutant: the error is logged through the session of the request, whose
\* commit stores the question that was only flushed.
RaiseHttpErrorLogged(r) ==
    /\ pc[r] \in ErrorCodes
    /\ Fail(r, pc[r])
    /\ stored' = stored \cup {r}
    /\ UNCHANGED <<window, cache, blocked, progress, crashes, gapVars>>

(* The pipeline's error, back on the event loop, becomes an HTTPException  *)
(* with its code, and closes the session.                                  *)
RaiseHttpError(r) ==
    /\ pc[r] \in ErrorCodes
    /\ Fail(r, pc[r])
    /\ UNCHANGED <<window, stored, cache, blocked, progress, crashes, gapVars>>

(* An answer that is_cacheable, from a Redis that works, is cached before  *)
(* the turn is committed.                                                  *)
StoreInCache(r) ==
    /\ pc[r] = "produced"
    /\ \/ cache' = [cache EXCEPT ![Query[r]] = r]
       \/ UNCHANGED cache
    /\ Goto(r, "commit")
    /\ UNCHANGED <<status, window, holds, stored, blocked, progress, crashes, gapVars>>

(* Question and answer are committed, and the connection goes back to the  *)
(* pool.  The refresh that follows takes one again.                        *)
Commit(r) ==
    /\ pc[r] = "commit"
    /\ stored' = stored \cup {r}
    /\ holds' = holds \ {r}
    /\ Goto(r, "refresh")
    /\ UNCHANGED <<status, window, cache, blocked, progress, crashes, gapVars>>

(* The message is refreshed, log_event commits, and the client is told.    *)
(* The background task then classifies the outcome, and has nothing more   *)
(* to do or records a gap in a session of its own.                         *)
LogEvent(r) ==
    /\ pc[r] = "log"
    /\ holds' = holds \ {r}
    /\ Classify(r)
    /\ Goto(r, IF task'[r].pc = "select" THEN "gap" ELSE "done")
    /\ status' = [status EXCEPT ![r] = "200"]
    /\ UNCHANGED <<window, stored, cache, blocked, progress, crashes>>

\* The SELECT of record_knowledge_gap.
LookUpGap(r) ==
    /\ pc[r] = "record"
    /\ Select(r)
    /\ UNCHANGED serving

(* Its INSERT or UPDATE, whose commit or rollback gives the connection     *)
(* back.                                                                   *)
RecordGap(r) ==
    /\ pc[r] = "record"
    /\ Insert(r) \/ Update(r)
    /\ holds' = holds \ {r}
    /\ Goto(r, "done")
    /\ UNCHANGED <<status, window, stored, cache, blocked, progress, crashes>>

-----------------------------------------------------------------------------
(* The environment                                                         *)

(* The server dies and is started again: what runs is lost, uncommitted    *)
(* turns with it, and what the process remembered.  A task stops where it  *)
(* is, for good.                                                           *)
Crash ==
    LET running == {r \in Requests : pc[r] \notin {"new", "done"}}
    IN  /\ faults + crashes < MaxFaults
        /\ crashes' = crashes + 1
        /\ pc' = [r \in Requests |-> IF r \in running THEN "done" ELSE pc[r]]
        /\ status' = [r \in Requests |->
                         IF r \in running /\ status[r] = "none" THEN "lost" ELSE status[r]]
        /\ holds' = {}
        /\ recent' = [k \in Keys |-> 0]
        /\ UNCHANGED <<arrived, now, stored, cache, blocked, progress, gapVars>>

Serve(r) ==
    \/ Connect(r) \/ CacheHit(r) \/ CacheMiss(r)
    \/ Rewrite(r) \/ Retrieve(r) \/ Rerank(r) \/ Generate(r)
    \/ RaiseHttpError(r)
    \/ StoreInCache(r) \/ Commit(r) \/ LogEvent(r) \/ LookUpGap(r) \/ RecordGap(r)

Break(r) == RewriteFails(r) \/ RetrievalFails(r) \/ GeminiFails(r) \/ GroqFails(r) \/ DatabaseFails(r)

Terminated ==
    /\ \A r \in Requests : pc[r] = "done"
    /\ UNCHANGED vars

Next ==
    \/ \E r \in Requests : Arrive(r) \/ Serve(r) \/ Break(r)
    \/ Tick \/ Crash \/ Terminated

Spec == Init /\ [][Next]_vars

(* The event loop and the threads of the pool give every request its       *)
(* turns, and the models answer or fail; no timeout is counted on.         *)
FairSpec == Spec /\ \A r \in Requests : WF_vars(Serve(r))

-----------------------------------------------------------------------------
(* Properties                                                              *)

(* The types of all variables. *)
TypeOK ==
    /\ pc \in [Requests -> Steps]
    /\ status \in [Requests -> Statuses]
    /\ arrived \in [Requests -> [at: 0..MaxTime, epoch: 0..MaxFaults]]
    /\ now \in 1..MaxTime
    /\ recent \in [Keys -> 0..MaxTime]
    /\ holds \in SUBSET Requests /\ stored \in SUBSET Requests
    /\ cache \in [Queries -> Requests \cup {None}]
    /\ blocked \in SUBSET Prompts
    /\ redis \in [Convs -> Entry \cup {None}]
    /\ spilled \in SUBSET Requests
    /\ faults \in 0..MaxFaults /\ crashes \in 0..MaxFaults

Came(r) == pc[r] # "new"
Rejected(r) == status[r] = "duplicate"

(* r came no earlier than s and within the window of s, in one process. *)
Within(r, s) ==
    /\ Key(r) = Key(s) /\ arrived[r].epoch = arrived[s].epoch
    /\ arrived[s].at <= arrived[r].at
    /\ arrived[r].at < arrived[s].at + Window

(* limiter.py:122-165, the five seconds of duplicate detection, which are  *)
(* per client and begin with an accepted request.  While the process       *)
(* lives, two accepted requests of a client with the same query are a      *)
(* window apart, whatever pruning has forgotten; and a request is rejected *)
(* only for an accepted one less than a window before it, so that a client *)
(* who keeps trying is not kept out.  That is less than limiter.py says:   *)
(* it would "reject identical query spam regardless of source IP" (lines   *)
(* 22-24) and reject what "was received within the deduplication window"   *)
(* (135-136), but the address is part of the hash, and a rejected query is *)
(* not remembered.                                                         *)
WindowIsKept ==
    \A r \in Requests : Came(r) =>
        IF Rejected(r)
        THEN \E s \in Requests : Came(s) /\ ~Rejected(s) /\ Within(r, s)
        ELSE \A s \in Requests \ {r} : Came(s) /\ ~Rejected(s) => ~Within(r, s)

(* llm_service.py:147-227 with pipeline.py:391-405 and                     *)
(* query_rewriter.py:93-114: a prompt that Gemini says it blocked is not   *)
(* put to the second model instead; and when it was the prompt for the     *)
(* answer, the request ends with an error and leaves neither a turn nor a  *)
(* cached answer that later requests would be served.  A block of the      *)
(* rewriting is swallowed, and the request goes on.                        *)
BlockedQuestionsStayOut ==
    \A r \in Requests :
        /\ <<r, "rewriting">> \in blocked => pc[r] # "rephrasing"
        /\ <<r, "generating">> \in blocked =>
              /\ pc[r] # "fallback" /\ r \notin stored
              /\ \A q \in Queries : cache[q] # r
              /\ status[r] # "200"

(* The steps during which a stage is shown as in progress. *)
StepsOf(stage) ==
    CASE stage = "Rewriting"  -> {"rewriting", "rephrasing"}
      [] stage = "Retrieving" -> {"retrieving"}
      [] stage = "Reranking"  -> {"reranking"}
      [] stage = "Generating" -> {"generating", "fallback"}
      [] stage = "Complete"   -> {}

(* progress_service.py:28-64 with pipeline.py:323-407: what Redis shows of *)
(* a request whose last report did not go astray is true.  A stage that is *)
(* in progress is where the request is, however many pipelines of the      *)
(* conversation overlap; a completed one has its answer; a failed one has  *)
(* an error, which the client is told next or was told, and a request that *)
(* fails is not shown as in progress.  Only a crash and a failing database *)
(* leave a stage behind.                                                   *)
ProgressIsTrue ==
    \A c \in Convs : redis[c] # None =>
        LET r == redis[c].request
        IN  r \notin spilled /\ status[r] # "lost" =>
            CASE redis[c].status = "in_progress" -> pc[r] \in StepsOf(redis[c].stage)
              [] redis[c].status = "failed" -> pc[r] \in ErrorCodes \/ status[r] \in ErrorCodes
              [] redis[c].status = "completed" ->
                    pc[r] \in {"produced", "commit"} \/ r \in stored \/ status[r] = "500"

(* database.py:14-25 with chat.py:109-311: every request that comes is     *)
(* answered, if only with an error, although more of them run than there   *)
(* are connections, each needs one twice or three times, and no timeout of *)
(* the pool is counted on: what a request waits for is given back.         *)
EveryRequestIsAnswered ==
    \A r \in Requests : Came(r) ~> status[r] # "none"

(* What AnsweredTurns says of a request. *)
turn == [r \in Requests |->
            IF pc[r] = "new" THEN "absent"
            ELSE IF status[r] = "200" THEN "answered"
            ELSE IF status[r] = "none" THEN IF r \in stored THEN "stored" ELSE "open"
            ELSE IF r \in stored THEN "unsure" ELSE "refused"]

Contract == INSTANCE AnsweredTurns WITH turn <- turn

(* chat.py:109-311 implements AnsweredTurns: no answer before the commit,  *)
(* nothing stored of a refused turn, at once or later, in spite of the     *)
(* commits of log_event, of failing statements and of crashes.             *)
ImplementsTurns == Contract!Spec
=============================================================================
