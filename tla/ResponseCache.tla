--------------------------- MODULE ResponseCache ---------------------------
(***************************************************************************)
(* The response cache of the chat endpoint and the KB version that is to   *)
(* invalidate it.                                                          *)
(*                                                                         *)
(* A question is looked up under (mode, query, KB version).  On a miss the *)
(* pipeline retrieves from the knowledge base and generates an answer; a   *)
(* valid answer is then written under the version read at that moment.     *)
(* Every call to Redis is made in a worker thread and is a step of its     *)
(* own, so admin requests run between any two of them.                     *)
(*                                                                         *)
(* KnowledgeBase has the admin requests in full.  Here such a request      *)
(* changes what retrieval finds (one more change in content), flushes the  *)
(* cache if it is a patch, and increments the version.                     *)
(***************************************************************************)
EXTENDS Naturals

CONSTANTS
    Requests,       \* questions asked, each one request of a client
    Queries,        \* normalised query texts
    Modes,          \* knowledge modes: hybrid, official, experience
    Admins,         \* admin coroutines
    NoAnswer,       \* no answer yet
    MaxChanges,     \* bound: changes of the knowledge base
    MaxFlushes,     \* bound: calls of POST /cache/flush
    MaxRedisFaults  \* bound: failing calls to Redis

ASSUME BoundsAssumption ==
    MaxChanges \in Nat /\ MaxFlushes \in Nat /\ MaxRedisFaults \in Nat

VARIABLES
    content,      \* number of changes made to what retrieval finds
    version,      \* campusgpt:kb_version
    cache,        \* the entries of the cache, a set
    admin,        \* [Admins -> record], the admin coroutines
    req,          \* [Requests -> record], the chat requests
    finished,     \* history: the newest change whose admin request is finished
    flushedUpTo,  \* history: every entry written before this one was flushed
    writes, flushes, redisFaults   \* bounded counters

vars == <<content, version, cache, admin, req, finished, flushedUpTo,
          writes, flushes, redisFaults>>

-----------------------------------------------------------------------------
(* An answer is told apart by what it was computed from.  seen is the       *)
(* content that retrieval found; stable records that the version did not    *)
(* move between lookup and write, and serial when the entry was written.    *)
Answer == [query : Queries, mode : Modes, seen : Nat, stable : BOOLEAN,
           serial : Nat]

\* Mutant: the mode is left out of the hash.
CacheKeyOfQuery(query, mode, v) == <<CHOOSE m \in Modes : TRUE, query, v>>

\* make_cache_key over _cache_key_with_mode: a collision-free hash of the
\* mode, the normalised query and the version.
CacheKey(query, mode, v) == <<mode, query, v>>

Entry == [key : Modes \X Queries \X Nat, answer : Answer]

ReqSteps == {"new", "lookupVersion", "get", "retrieve", "generate",
             "setVersion", "set", "answered", "failed"}
Request == [pc : ReqSteps, query : Queries, mode : Modes,
            lookupVer : Nat, setVer : Nat, seen : Nat,
            mustSee : Nat, flushed : Nat,
            answer : Answer \cup {NoAnswer}, hit : BOOLEAN]

AdminSteps == {"idle", "flush", "bump"}
Admin == [pc : AdminSteps, op : {"none", "change", "patch", "flush"},
          change : Nat, left : SUBSET Entry, from : Nat]
IdleAdmin == [pc |-> "idle", op |-> "none", change |-> 0, left |-> {}, from |-> 0]

TypeOK ==
    /\ content \in Nat
    /\ version \in Nat
    /\ cache \in SUBSET Entry
    /\ admin \in [Admins -> Admin]
    /\ req \in [Requests -> Request]
    /\ finished \in Nat /\ flushedUpTo \in Nat
    /\ writes \in Nat /\ flushes \in Nat /\ redisFaults \in Nat

Init ==
    /\ content = 0
    /\ version = 1
    /\ cache = {}
    /\ admin = [a \in Admins |-> IdleAdmin]
    /\ req \in [Requests ->
          {[pc |-> "new", query |-> q, mode |-> m,
            lookupVer |-> 0, setVer |-> 0, seen |-> 0, mustSee |-> 0,
            flushed |-> 0, answer |-> NoAnswer, hit |-> FALSE] :
           q \in Queries, m \in Modes}]
    /\ finished = 0 /\ flushedUpTo = 0
    /\ writes = 0 /\ flushes = 0 /\ redisFaults = 0

-----------------------------------------------------------------------------
Max2(a, b) == IF a >= b THEN a ELSE b

\* A call to Redis fails; the caller carries on without the cache.
RedisFault ==
    /\ redisFaults < MaxRedisFaults
    /\ redisFaults' = redisFaults + 1

Move(r, pc) == req' = [req EXCEPT ![r].pc = pc]

kb == <<content, version, admin, finished, flushedUpTo, flushes>>

-----------------------------------------------------------------------------
(* A question: chat, with get_cached_response, run_rag_pipeline and         *)
(* set_cached_response.                                                    *)

\* The request arrives.  What it must see from now on is history only.
Ask(r) ==
    /\ req[r].pc = "new"
    /\ req' = [req EXCEPT ![r].pc = "lookupVersion",
                          ![r].mustSee = finished, ![r].flushed = flushedUpTo]
    /\ UNCHANGED <<kb, cache, writes, redisFaults>>

\* get_kb_version inside get_cached_response; 0 means no cache.
ReadVersion(r) ==
    /\ req[r].pc = "lookupVersion"
    /\ \/ /\ req' = [req EXCEPT ![r].pc = "get", ![r].lookupVer = version]
          /\ UNCHANGED redisFaults
       \/ Move(r, "retrieve") /\ RedisFault
    /\ UNCHANGED <<kb, cache, writes>>

KeyOf(r) == CacheKey(req[r].query, req[r].mode, req[r].lookupVer)

Hit(r) ==
    /\ req[r].pc = "get"
    /\ \E e \in cache :
          /\ e.key = KeyOf(r)
          /\ req' = [req EXCEPT ![r].pc = "answered", ![r].answer = e.answer,
                                ![r].hit = TRUE]
    /\ UNCHANGED <<kb, cache, writes, redisFaults>>

Miss(r) ==
    /\ req[r].pc = "get"
    /\ \/ (\A e \in cache : e.key # KeyOf(r)) /\ UNCHANGED redisFaults
       \/ RedisFault
    /\ Move(r, "retrieve")
    /\ UNCHANGED <<kb, cache, writes>>

\* hybrid_retrieve looks at the knowledge base.
Retrieve(r) ==
    /\ req[r].pc = "retrieve"
    /\ req' = [req EXCEPT ![r].pc = "generate", ![r].seen = content]
    /\ UNCHANGED <<kb, cache, writes, redisFaults>>

\* Mutant: what there is of a failed request's answer, nothing, is cached.
PipelineFailsCached(r) ==
    /\ req[r].pc \in {"retrieve", "generate"}
    /\ cache' = cache \cup {[key |-> KeyOf(r), answer |-> req[r].answer]}
    /\ Move(r, "failed")
    /\ UNCHANGED <<kb, writes, redisFaults>>

PipelineFails(r) ==
    /\ req[r].pc \in {"retrieve", "generate"}
    /\ Move(r, "failed")
    /\ UNCHANGED <<kb, cache, writes, redisFaults>>

\* The answer, from the mode's prompt and the retrieved chunks.  (It depends on
\* the conversation's history too, which the key of the cache leaves out.)
\* is_cacheable rejects short answers, answers without chunks and fallback
\* texts; those go out without being written.
Generate(r) ==
    /\ req[r].pc = "generate"
    /\ \E pc \in {"setVersion", "answered"} :
          req' = [req EXCEPT ![r].pc = pc,
                     ![r].answer = [query |-> req[r].query, mode |-> req[r].mode,
                                    seen |-> req[r].seen, stable |-> FALSE,
                                    serial |-> 0]]
    /\ UNCHANGED <<kb, cache, writes, redisFaults>>

\* get_kb_version again, inside set_cached_response.
ReadVersionAgain(r) ==
    /\ req[r].pc = "setVersion"
    /\ \/ /\ req' = [req EXCEPT ![r].pc = "set", ![r].setVer = version]
          /\ UNCHANGED redisFaults
       \/ Move(r, "answered") /\ RedisFault
    /\ UNCHANGED <<kb, cache, writes>>

\* redis.set replaces whatever the key held.  (A payload over the size limit
\* or a failing SET leaves the cache as it is.)
Store(r) ==
    LET key == CacheKey(req[r].query, req[r].mode, req[r].setVer)
        answer == [req[r].answer EXCEPT !.stable = req[r].lookupVer = req[r].setVer,
                                        !.serial = writes + 1]
    IN
    /\ req[r].pc = "set"
    /\ \/ /\ cache' = {e \in cache : e.key # key} \cup {[key |-> key, answer |-> answer]}
          /\ writes' = writes + 1
       \/ UNCHANGED <<cache, writes>>
    /\ Move(r, "answered")
    /\ UNCHANGED <<kb, redisFaults>>

\* The TTL of an entry runs out.
Expire ==
    \E e \in cache :
        /\ cache' = cache \ {e}
        /\ UNCHANGED <<kb, req, writes, redisFaults>>

-----------------------------------------------------------------------------
(* Admin requests.                                                         *)

\* Upload, delete, reindex or patch changes what retrieval finds.
Change(a) ==
    /\ admin[a].pc = "idle"
    /\ content < MaxChanges
    /\ content' = content + 1
    /\ \/ admin' = [admin EXCEPT ![a] = [IdleAdmin EXCEPT
              !.pc = "bump", !.op = "change", !.change = content + 1]]
       \/ admin' = [admin EXCEPT ![a] = [IdleAdmin EXCEPT
              !.pc = "flush", !.op = "patch", !.change = content + 1,
              !.left = cache, !.from = writes]]
    /\ UNCHANGED <<version, cache, req, finished, flushedUpTo, writes, flushes,
                   redisFaults>>

\* POST /cache/flush.
FlushStart(a) ==
    /\ admin[a].pc = "idle"
    /\ flushes < MaxFlushes
    /\ flushes' = flushes + 1
    /\ admin' = [admin EXCEPT ![a] = [IdleAdmin EXCEPT
              !.pc = "flush", !.op = "flush", !.left = cache, !.from = writes]]
    /\ UNCHANGED <<content, version, cache, req, finished, flushedUpTo, writes,
                   redisFaults>>

\* One SCAN page and its DEL.  SCAN returns every key that is there from its
\* start to its end, and maybe some that are not.
FlushPage(a) ==
    /\ admin[a].pc = "flush" /\ admin[a].left # {}
    /\ \E page \in (SUBSET (admin[a].left \cup cache)) \ {{}} :
          /\ cache' = {e \in cache : \A p \in page : p.key # e.key}
          /\ admin' = [admin EXCEPT ![a].left = @ \ page]
    /\ UNCHANGED <<content, version, req, finished, flushedUpTo, writes, flushes,
                   redisFaults>>

\* Mutant: the loop stops at the first page.
FlushEndsAnyway(a) ==
    /\ admin[a].pc = "flush"
    /\ admin' = [admin EXCEPT ![a] =
                    IF admin[a].op = "patch" THEN [@ EXCEPT !.pc = "bump"] ELSE IdleAdmin]
    /\ flushedUpTo' = Max2(flushedUpTo, admin[a].from)
    /\ UNCHANGED <<content, version, cache, req, finished, writes, flushes,
                   redisFaults>>

\* The cursor is 0 again.
FlushEnds(a) ==
    /\ admin[a].pc = "flush" /\ admin[a].left = {}
    /\ admin' = [admin EXCEPT ![a] =
                    IF admin[a].op = "patch" THEN [@ EXCEPT !.pc = "bump"] ELSE IdleAdmin]
    /\ flushedUpTo' = Max2(flushedUpTo, admin[a].from)
    /\ UNCHANGED <<content, version, cache, req, finished, writes, flushes,
                   redisFaults>>

\* flush_response_cache gives up and returns -1: a patch goes on to the bump.
FlushFails(a) ==
    /\ admin[a].pc = "flush"
    /\ RedisFault
    /\ admin' = [admin EXCEPT ![a] =
                    IF admin[a].op = "patch" THEN [@ EXCEPT !.pc = "bump"] ELSE IdleAdmin]
    /\ UNCHANGED <<content, version, cache, req, finished, flushedUpTo, writes,
                   flushes>>

\* Mutant: the version is read, not incremented.
BumpReads(a) ==
    /\ admin[a].pc = "bump"
    /\ admin' = [admin EXCEPT ![a] = IdleAdmin]
    /\ finished' = Max2(finished, admin[a].change)
    /\ UNCHANGED <<content, version, cache, req, flushedUpTo, writes, flushes,
                   redisFaults>>

\* bump_kb_version, the last step that matters here; 0 when Redis fails.
Bump(a) ==
    /\ admin[a].pc = "bump"
    /\ \/ version' = version + 1 /\ UNCHANGED redisFaults
       \/ version' = version /\ RedisFault
    /\ admin' = [admin EXCEPT ![a] = IdleAdmin]
    /\ finished' = Max2(finished, admin[a].change)
    /\ UNCHANGED <<content, cache, req, flushedUpTo, writes, flushes>>

-----------------------------------------------------------------------------
Serve(r) ==
    \/ Ask(r) \/ ReadVersion(r) \/ Hit(r) \/ Miss(r) \/ Retrieve(r)
    \/ PipelineFails(r) \/ Generate(r) \/ ReadVersionAgain(r) \/ Store(r)

Administer(a) ==
    \/ Change(a) \/ FlushStart(a) \/ FlushPage(a) \/ FlushEnds(a)
    \/ FlushFails(a) \/ Bump(a)

Next ==
    \/ \E r \in Requests : Serve(r)
    \/ \E a \in Admins : Administer(a)
    \/ Expire

Spec == Init /\ [][Next]_vars

-----------------------------------------------------------------------------
(* Properties.                                                             *)

FromCache(r) == req[r].pc = "answered" /\ req[r].hit

\* Modes and queries are never mixed: an answer served from the cache was
\* generated for this query under this mode's prompt and filter.
HitsKeepModeAndQuery ==
    \A r \in Requests : FromCache(r) =>
        req[r].answer.mode = req[r].mode /\ req[r].answer.query = req[r].query

\* The version does its work for every answer whose pipeline no increment
\* overlapped: it is never served to a request that came after a change it
\* does not know had been made and announced.
StableHitsAreFresh ==
    redisFaults = 0 =>
        \A r \in Requests :
            FromCache(r) /\ req[r].answer.stable
                => req[r].answer.seen >= req[r].mustSee

\* After a flush nobody is served an answer written before it began, whatever
\* pages SCAN returned and whoever was writing meanwhile.
FlushedAnswersStayAway ==
    \A r \in Requests : FromCache(r) => req[r].answer.serial > req[r].flushed

\* What the documentation says, and the code does not do.

\* "old entries become unreachable the moment the KB changes": an answer from
\* the cache knows every change that was announced before its question came.
HitsAreFresh ==
    \A r \in Requests : FromCache(r) => req[r].answer.seen >= req[r].mustSee
=============================================================================
