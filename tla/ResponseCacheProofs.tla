------------------------ MODULE ResponseCacheProofs ------------------------
(***************************************************************************)
(* Proofs about ResponseCache: for any number of requests and admin        *)
(* coroutines, any changes, flushes and failures.                          *)
(***************************************************************************)
EXTENDS ResponseCache, TLAPS

-----------------------------------------------------------------------------
(* Types.                                                                  *)

\* A request that writes has its answer.
WritersHaveAnswers ==
    \A r \in Requests : req[r].pc \in {"setVersion", "set"} => req[r].answer \in Answer

CacheTypes == TypeOK /\ WritersHaveAnswers

\* The initial requests are of their type.
LEMMA TypeInit == Init => CacheTypes
  <1> SUFFICES ASSUME Init PROVE CacheTypes
    OBVIOUS
  <1>1. IdleAdmin \in Admin
    BY DEF IdleAdmin, Admin, AdminSteps
  <1>2. req \in [Requests -> Request]
    <2>1. ASSUME NEW q \in Queries, NEW m \in Modes
          PROVE  [pc |-> "new", query |-> q, mode |-> m, lookupVer |-> 0, setVer |-> 0,
                  seen |-> 0, mustSee |-> 0, flushed |-> 0, answer |-> NoAnswer,
                  hit |-> FALSE] \in Request
      BY DEF Request, ReqSteps
    <2> QED
      BY <2>1 DEF Init
  <1>3. WritersHaveAnswers
    BY DEF Init, WritersHaveAnswers
  <1> QED
    BY <1>1, <1>2, <1>3 DEF Init, CacheTypes, TypeOK

\* Entries keep their type when some are taken away.
LEMMA MaxIsNumber == \A a, b \in Nat : Max2(a, b) \in Nat /\ Max2(a, b) >= a /\ Max2(a, b) >= b
                                       /\ (Max2(a, b) = a \/ Max2(a, b) = b)
  BY DEF Max2

\* The steps of a question.
LEMMA ServeKeepsTypes ==
    ASSUME CacheTypes, NEW r \in Requests, Serve(r)
    PROVE  CacheTypes'
  <1> USE DEF CacheTypes, TypeOK, WritersHaveAnswers, kb
  <1>0. req[r] \in Request
    OBVIOUS
  <1>1. CASE Ask(r)
    <2>1. [req[r] EXCEPT !.pc = "lookupVersion", !.mustSee = finished, !.flushed = flushedUpTo]
              \in Request
      BY <1>0 DEF Request, ReqSteps
    <2> QED
      BY <1>1, <2>1 DEF Ask
  <1>2. CASE ReadVersion(r)
    BY <1>2 DEF ReadVersion, Request, ReqSteps, Move, RedisFault
  <1>3. CASE Hit(r)
    <2> PICK e \in cache :
            req' = [req EXCEPT ![r].pc = "answered", ![r].answer = e.answer, ![r].hit = TRUE]
      BY <1>3 DEF Hit
    <2>1. [req[r] EXCEPT !.pc = "answered", !.answer = e.answer, !.hit = TRUE] \in Request
      BY <1>0 DEF Request, ReqSteps, Entry
    <2> QED
      BY <1>3, <2>1 DEF Hit
  <1>4. CASE Miss(r)
    BY <1>4 DEF Miss, Request, ReqSteps, Move, RedisFault
  <1>5. CASE Retrieve(r)
    <2>1. [req[r] EXCEPT !.pc = "generate", !.seen = content] \in Request
      BY <1>0 DEF Request, ReqSteps
    <2> QED
      BY <1>5, <2>1 DEF Retrieve
  <1>6. CASE PipelineFails(r)
    BY <1>6 DEF PipelineFails, Request, ReqSteps, Move
  <1>7. CASE Generate(r)
    <2> DEFINE answer == [query |-> req[r].query, mode |-> req[r].mode, seen |-> req[r].seen,
                          stable |-> FALSE, serial |-> 0]
    <2> PICK pc \in {"setVersion", "answered"} :
            req' = [req EXCEPT ![r].pc = pc, ![r].answer = answer]
      BY <1>7 DEF Generate
    <2>1. answer \in Answer
      BY <1>0 DEF Request, Answer
    <2>2. [req[r] EXCEPT !.pc = pc, !.answer = answer] \in Request
      BY <1>0, <2>1 DEF Request, ReqSteps
    <2> QED
      BY <1>7, <2>1, <2>2 DEF Generate
  <1>8. CASE ReadVersionAgain(r)
    BY <1>8 DEF ReadVersionAgain, Request, ReqSteps, Move, RedisFault
  <1>9. CASE Store(r)
    <2> DEFINE key == CacheKey(req[r].query, req[r].mode, req[r].setVer)
               answer == [req[r].answer EXCEPT !.stable = req[r].lookupVer = req[r].setVer,
                                               !.serial = writes + 1]
    <2>1. key \in Modes \X Queries \X Nat
      BY <1>0 DEF CacheKey, Request
    <2>2. answer \in Answer
      <3> DEFINE same == (req[r].lookupVer = req[r].setVer)
                 serial == writes + 1
      <3>1. same \in BOOLEAN /\ serial \in Nat /\ req[r].answer \in Answer
        BY <1>9 DEF Store
      <3>2. answer = [req[r].answer EXCEPT !.stable = same, !.serial = serial]
        OBVIOUS
      <3> HIDE DEF same, serial
      <3>3. [req[r].answer EXCEPT !.stable = same, !.serial = serial] \in Answer
        BY <3>1 DEF Answer
      <3> QED
        BY <3>2, <3>3
    <2>3. [key |-> key, answer |-> answer] \in Entry
      BY <2>1, <2>2 DEF Entry
    <2>4. cache' \in SUBSET Entry /\ writes' \in Nat
      BY <1>9, <2>3 DEF Store
    <2>5. [req[r] EXCEPT !.pc = "answered"] \in Request
      BY <1>0 DEF Request, ReqSteps
    <2> QED
      BY <1>9, <2>4, <2>5 DEF Store, Move
  <1> QED
    BY <1>1, <1>2, <1>3, <1>4, <1>5, <1>6, <1>7, <1>8, <1>9 DEF Serve

\* The steps of an admin coroutine.
LEMMA AdministerKeepsTypes ==
    ASSUME CacheTypes, NEW a \in Admins, Administer(a)
    PROVE  CacheTypes'
  <1> USE DEF CacheTypes, TypeOK, WritersHaveAnswers
  <1>0. IdleAdmin \in Admin
    BY DEF IdleAdmin, Admin, AdminSteps
  <1>1. CASE Change(a)
    <2> DEFINE n == content + 1
    <2>0. n \in Nat
      OBVIOUS
    <2> HIDE DEF n
    <2>1. [IdleAdmin EXCEPT !.pc = "bump", !.op = "change", !.change = n] \in Admin
      BY <1>0, <2>0 DEF Admin, AdminSteps
    <2>2. [IdleAdmin EXCEPT !.pc = "flush", !.op = "patch", !.change = n,
                            !.left = cache, !.from = writes] \in Admin
      BY <1>0, <2>0 DEF Admin, AdminSteps
    <2> QED
      BY <1>1, <2>0, <2>1, <2>2 DEF Change, n
  <1>2. CASE FlushStart(a)
    <2>1. [IdleAdmin EXCEPT !.pc = "flush", !.op = "flush", !.left = cache, !.from = writes]
              \in Admin
      BY DEF IdleAdmin, Admin, AdminSteps
    <2> QED
      BY <1>2, <2>1 DEF FlushStart
  <1>3. CASE FlushPage(a)
    BY <1>3 DEF FlushPage, Admin, AdminSteps
  <1>4. CASE FlushEnds(a)
    BY <1>0, <1>4, MaxIsNumber DEF FlushEnds, Admin, AdminSteps
  <1>5. CASE FlushFails(a)
    BY <1>0, <1>5 DEF FlushFails, Admin, AdminSteps, RedisFault
  <1>6. CASE Bump(a)
    <2>1. finished' \in Nat
      BY <1>6, MaxIsNumber DEF Bump, Admin
    <2>2. version' \in Nat /\ redisFaults' \in Nat
      BY <1>6 DEF Bump, RedisFault
    <2> QED
      BY <1>0, <1>6, <2>1, <2>2 DEF Bump
  <1> QED
    BY <1>1, <1>2, <1>3, <1>4, <1>5, <1>6 DEF Administer

\* Every step keeps the types.
LEMMA TypeNext == CacheTypes /\ [Next]_vars => CacheTypes'
  <1> SUFFICES ASSUME CacheTypes, [Next]_vars PROVE CacheTypes'
    OBVIOUS
  <1>1. CASE Expire
    BY <1>1 DEF Expire, kb, CacheTypes, TypeOK, WritersHaveAnswers
  <1>2. CASE UNCHANGED vars
    BY <1>2 DEF vars, CacheTypes, TypeOK, WritersHaveAnswers
  <1> QED
    BY <1>1, <1>2, ServeKeepsTypes, AdministerKeepsTypes DEF Next

\* Entries, requests and coroutines keep their types.
THEOREM TypeCorrect == Spec => []TypeOK
  <1>1. CacheTypes => TypeOK
    BY DEF CacheTypes
  <1>2. QED
    BY <1>1, TypeInit, TypeNext, PTL DEF Spec

-----------------------------------------------------------------------------
\* What a SET does to the cache: nothing, or it adds the request's answer, under
\* the request's mode and query and the version read last.
LEMMA StoreWrites ==
    ASSUME CacheTypes, NEW r \in Requests, Store(r)
    PROVE  \/ UNCHANGED <<cache, writes>>
           \/ /\ writes' = writes + 1
              /\ \E f \in Entry :
                    /\ f.key = <<req[r].mode, req[r].query, req[r].setVer>>
                    /\ f.answer.mode = req[r].answer.mode
                    /\ f.answer.query = req[r].answer.query
                    /\ f.answer.seen = req[r].answer.seen
                    /\ f.answer.stable => req[r].lookupVer = req[r].setVer
                    /\ f.answer.serial = writes + 1
                    /\ \A e \in cache' : e \in cache \/ e = f
  <1> DEFINE key == CacheKey(req[r].query, req[r].mode, req[r].setVer)
             same == (req[r].lookupVer = req[r].setVer)
             serial == writes + 1
             answer == [req[r].answer EXCEPT !.stable = same, !.serial = serial]
             f == [key |-> key, answer |-> answer]
  <1>1. same \in BOOLEAN /\ serial \in Nat /\ req[r].answer \in Answer
    BY DEF CacheTypes, TypeOK, WritersHaveAnswers, Store
  <1>2. key \in Modes \X Queries \X Nat /\ key = <<req[r].mode, req[r].query, req[r].setVer>>
    BY DEF CacheTypes, TypeOK, Request, CacheKey
  <1>3. \/ UNCHANGED <<cache, writes>>
        \/ cache' = {e \in cache : e.key # key} \cup {f} /\ writes' = serial
    BY Zenon DEF Store
  <1>4. same => req[r].lookupVer = req[r].setVer
    OBVIOUS
  <1>5. serial = writes + 1
    OBVIOUS
  <1> HIDE DEF key, same, serial
  <1>6. answer \in Answer
    BY <1>1 DEF Answer
  <1>7. /\ answer.mode = req[r].answer.mode /\ answer.query = req[r].answer.query
        /\ answer.seen = req[r].answer.seen /\ answer.serial = serial
    BY <1>1 DEF Answer
  <1>8. answer.stable = same
    BY <1>1, Zenon DEF Answer
  <1> HIDE DEF answer
  <1>9. f \in Entry /\ f.key = key /\ f.answer = answer
    BY <1>2, <1>6 DEF Entry
  <1> HIDE DEF f
  <1>10. CASE cache' = {e \in cache : e.key # key} \cup {f} /\ writes' = serial
    <2>1. \A e \in cache' : e \in cache \/ e = f
      BY <1>10
    <2>2. f.answer.stable => req[r].lookupVer = req[r].setVer
      BY <1>4, <1>8, <1>9, Zenon
    <2> QED
      BY <1>2, <1>5, <1>7, <1>9, <1>10, <2>1, <2>2
  <1> QED
    BY <1>3, <1>10

-----------------------------------------------------------------------------
(* Modes and queries.  An entry's key names the mode and the query of its   *)
(* answer, because the request that writes it has both.                    *)

EntriesMatch ==
    \A e \in cache : e.key[1] = e.answer.mode /\ e.key[2] = e.answer.query

WritersMatch ==
    \A r \in Requests : req[r].pc \in {"setVersion", "set"} =>
        req[r].answer.mode = req[r].mode /\ req[r].answer.query = req[r].query

HitsMatch ==
    \A r \in Requests : req[r].hit =>
        /\ req[r].pc = "answered"
        /\ req[r].answer.mode = req[r].mode /\ req[r].answer.query = req[r].query

MatchInv == CacheTypes /\ EntriesMatch /\ WritersMatch /\ HitsMatch

\* One step per action of a question; all others only take entries away.
LEMMA MatchNext == MatchInv /\ [Next]_vars => MatchInv'
  <1> SUFFICES ASSUME MatchInv, [Next]_vars PROVE MatchInv'
    OBVIOUS
  <1>0. CacheTypes'
    BY TypeNext DEF MatchInv
  <1> USE DEF MatchInv, EntriesMatch, WritersMatch, HitsMatch
  <1>1. ASSUME NEW r \in Requests,
               Ask(r) \/ ReadVersion(r) \/ Miss(r) \/ Retrieve(r) \/ PipelineFails(r)
                   \/ ReadVersionAgain(r)
        PROVE MatchInv'
    <2>1. cache' = cache
      BY <1>1 DEF Ask, ReadVersion, Miss, Retrieve, PipelineFails, ReadVersionAgain
    <2>2. \A q \in Requests :
              /\ req'[q].mode = req[q].mode /\ req'[q].query = req[q].query
              /\ req'[q].answer = req[q].answer /\ req'[q].hit = req[q].hit
              /\ req'[q].pc \in {"setVersion", "set"} => req[q].pc \in {"setVersion", "set"}
              /\ req'[q].pc = req[q].pc \/ req[q].pc # "answered"
      BY <1>1 DEF Ask, ReadVersion, Miss, Retrieve, PipelineFails, ReadVersionAgain, Move,
                  CacheTypes, TypeOK, Request
    <2> QED
      BY <1>0, <2>1, <2>2
  <1>2. ASSUME NEW r \in Requests, Hit(r) PROVE MatchInv'
    <2> PICK e \in cache :
            /\ e.key = KeyOf(r)
            /\ req' = [req EXCEPT ![r].pc = "answered", ![r].answer = e.answer, ![r].hit = TRUE]
      BY <1>2 DEF Hit
    <2>1. e.answer.mode = req[r].mode /\ e.answer.query = req[r].query
      BY DEF KeyOf, CacheKey
    <2> QED
      BY <1>0, <1>2, <2>1 DEF Hit, CacheTypes, TypeOK, Request
  <1>3. ASSUME NEW r \in Requests, Generate(r) PROVE MatchInv'
    BY <1>0, <1>3 DEF Generate, CacheTypes, TypeOK, Request
  <1>4. ASSUME NEW r \in Requests, Store(r) PROVE MatchInv'
    <2>1. req[r].pc = "set"
      BY <1>4 DEF Store
    <2>2. req[r].answer.mode = req[r].mode /\ req[r].answer.query = req[r].query
      BY <2>1
    <2>3. EntriesMatch'
      <3>1. CASE UNCHANGED <<cache, writes>>
        BY <3>1
      <3>2. CASE \E f \in Entry :
                    /\ f.key = <<req[r].mode, req[r].query, req[r].setVer>>
                    /\ f.answer.mode = req[r].answer.mode
                    /\ f.answer.query = req[r].answer.query
                    /\ \A e \in cache' : e \in cache \/ e = f
        BY <2>2, <3>2
      <3> QED
        BY <1>4, <3>1, <3>2, StoreWrites
    <2>4. WritersMatch' /\ HitsMatch'
      BY <1>4, <2>1 DEF Store, Move, CacheTypes, TypeOK, Request
    <2> QED
      BY <1>0, <2>3, <2>4
  <1>5. ASSUME NEW a \in Admins, Administer(a) PROVE MatchInv'
    BY <1>0, <1>5 DEF Administer, Change, FlushStart, FlushPage, FlushEnds, FlushFails, Bump
  <1>6. CASE Expire
    BY <1>0, <1>6 DEF Expire
  <1>7. CASE UNCHANGED vars
    BY <1>0, <1>7 DEF vars
  <1> QED
    BY <1>1, <1>2, <1>3, <1>4, <1>5, <1>6, <1>7 DEF Next, Serve

\* An answer from the cache was generated for this query in this mode.
THEOREM HitsAlwaysMatch == Spec => []HitsKeepModeAndQuery
  <1>1. Init => MatchInv
    BY TypeInit DEF Init, MatchInv, EntriesMatch, WritersMatch, HitsMatch
  <1>2. MatchInv => HitsKeepModeAndQuery
    BY DEF MatchInv, HitsMatch, HitsKeepModeAndQuery, FromCache
  <1>3. QED
    BY <1>1, <1>2, MatchNext, PTL DEF Spec

-----------------------------------------------------------------------------
(* Flushes.  What a flush has still to remove is among the keys it has not  *)
(* come to yet, and what is written meanwhile is newer.                    *)

EntriesAreLeft ==
    \A e \in cache : e.answer.serial <= writes /\ e.answer.serial > flushedUpTo

FlushersKnow ==
    \A a \in Admins : admin[a].pc = "flush" =>
        /\ admin[a].from <= writes
        /\ \A e \in cache : e.answer.serial <= admin[a].from => e \in admin[a].left

ReadersKnow ==
    /\ flushedUpTo <= writes
    /\ \A r \in Requests :
           /\ req[r].flushed <= flushedUpTo
           /\ req[r].hit => req[r].pc = "answered" /\ req[r].answer.serial > req[r].flushed

FlushInv == CacheTypes /\ EntriesAreLeft /\ FlushersKnow /\ ReadersKnow

\* One step per action that writes or removes entries or answers from them.
LEMMA FlushNext == FlushInv /\ [Next]_vars => FlushInv'
  <1> SUFFICES ASSUME FlushInv, [Next]_vars PROVE FlushInv'
    OBVIOUS
  <1>0. CacheTypes'
    BY TypeNext DEF FlushInv
  <1> USE DEF FlushInv, EntriesAreLeft, FlushersKnow, ReadersKnow
  <1>1. ASSUME NEW r \in Requests,
               \/ Ask(r) \/ ReadVersion(r) \/ Miss(r) \/ Retrieve(r) \/ PipelineFails(r)
               \/ ReadVersionAgain(r) \/ Generate(r)
        PROVE FlushInv'
    <2>1. UNCHANGED <<cache, writes, flushedUpTo, admin>>
      BY <1>1 DEF Ask, ReadVersion, Miss, Retrieve, PipelineFails, ReadVersionAgain, Generate, kb
    <2>2. \A q \in Requests :
              /\ req'[q].flushed \in {req[q].flushed, flushedUpTo}
              /\ req'[q].hit => req'[q] = req[q]
      BY <1>1 DEF Ask, ReadVersion, Miss, Retrieve, PipelineFails, ReadVersionAgain, Generate,
                  Move, CacheTypes, TypeOK, Request
    <2> QED
      BY <1>0, <2>1, <2>2 DEF CacheTypes, TypeOK
  <1>2. ASSUME NEW r \in Requests, Hit(r) PROVE FlushInv'
    <2> PICK e \in cache :
            req' = [req EXCEPT ![r].pc = "answered", ![r].answer = e.answer, ![r].hit = TRUE]
      BY <1>2 DEF Hit
    <2>1. UNCHANGED <<cache, writes, flushedUpTo, admin>>
      BY <1>2 DEF Hit, kb
    <2>2. e.answer.serial > req[r].flushed
      BY DEF CacheTypes, TypeOK, Entry, Answer, Request
    <2> QED
      BY <1>0, <2>1, <2>2 DEF CacheTypes, TypeOK, Request
  <1>3. ASSUME NEW r \in Requests, Store(r) PROVE FlushInv'
    <2>1. UNCHANGED <<flushedUpTo, admin>> /\ writes' >= writes /\ req[r].pc = "set"
      BY <1>3 DEF Store, kb, CacheTypes, TypeOK
    <2>2. \A e \in cache' : e \in cache \/ (e.answer.serial = writes + 1 /\ writes' = writes + 1)
      BY <1>3, StoreWrites
    <2>3. \A q \in Requests :
              /\ req'[q].flushed = req[q].flushed
              /\ req'[q].hit => req'[q] = req[q]
      BY <1>3 DEF Store, Move, CacheTypes, TypeOK, Request
    <2>4. EntriesAreLeft'
      <3> SUFFICES ASSUME NEW e \in cache'
                   PROVE  e.answer.serial <= writes' /\ e.answer.serial > flushedUpTo
        BY <2>1
      <3>1. writes \in Nat /\ writes' \in Nat /\ flushedUpTo \in Nat
        BY <1>0 DEF CacheTypes, TypeOK
      <3>2. CASE e \in cache
        BY <2>1, <3>1, <3>2 DEF CacheTypes, TypeOK, Entry, Answer
      <3>3. CASE e.answer.serial = writes + 1 /\ writes' = writes + 1
        BY <3>1, <3>3
      <3> QED
        BY <2>2, <3>2, <3>3
    <2>5. FlushersKnow'
      <3> SUFFICES ASSUME NEW b \in Admins, admin[b].pc = "flush"
                   PROVE  /\ admin[b].from <= writes'
                          /\ \A e \in cache' : e.answer.serial <= admin[b].from
                                                   => e \in admin[b].left
        BY <2>1
      <3>1. writes \in Nat /\ writes' \in Nat /\ admin[b].from \in Nat
        BY <1>0 DEF CacheTypes, TypeOK, Admin
      <3> QED
        BY <2>1, <2>2, <3>1
    <2>6. ReadersKnow'
      <3>1. writes \in Nat /\ writes' \in Nat /\ flushedUpTo \in Nat
        BY <1>0 DEF CacheTypes, TypeOK
      <3> QED
        BY <2>1, <2>3, <3>1
    <2> QED
      BY <1>0, <2>4, <2>5, <2>6
  <1>4. ASSUME NEW a \in Admins, Change(a) \/ FlushStart(a) \/ FlushFails(a) \/ Bump(a)
        PROVE FlushInv'
    <2>1. UNCHANGED <<cache, writes, flushedUpTo, req>>
      BY <1>4 DEF Change, FlushStart, FlushFails, Bump
    <2>2. \A b \in Admins : admin'[b].pc = "flush" =>
              \/ admin'[b] = admin[b]
              \/ admin'[b].from = writes /\ admin'[b].left = cache
      <3>1. CASE Change(a)
        BY <3>1 DEF Change, IdleAdmin, CacheTypes, TypeOK, Admin
      <3>2. CASE FlushStart(a)
        BY <3>2 DEF FlushStart, IdleAdmin, CacheTypes, TypeOK, Admin
      <3>3. CASE FlushFails(a) \/ Bump(a)
        BY <3>3 DEF FlushFails, Bump, IdleAdmin, CacheTypes, TypeOK, Admin
      <3> QED
        BY <1>4, <3>1, <3>2, <3>3
    <2> QED
      BY <1>0, <2>1, <2>2 DEF CacheTypes, TypeOK
  <1>5. ASSUME NEW a \in Admins, FlushPage(a) PROVE FlushInv'
    <2> PICK page \in SUBSET (admin[a].left \cup cache) :
            /\ cache' = {e \in cache : \A p \in page : p.key # e.key}
            /\ admin' = [admin EXCEPT ![a].left = @ \ page]
      BY <1>5 DEF FlushPage
    <2>1. UNCHANGED <<writes, flushedUpTo, req>>
      BY <1>5 DEF FlushPage
    <2>2. cache' \subseteq cache /\ \A e \in cache' : e \notin page
      OBVIOUS
    <2>3. \A b \in Admins : admin'[b].pc = "flush" =>
              /\ admin[b].pc = "flush" /\ admin'[b].from = admin[b].from
              /\ admin[b].left \ page \subseteq admin'[b].left
      BY DEF CacheTypes, TypeOK, Admin
    <2>4. FlushersKnow'
      BY <2>1, <2>2, <2>3
    <2> QED
      BY <1>0, <2>1, <2>2, <2>4
  <1>6. ASSUME NEW a \in Admins, FlushEnds(a) PROVE FlushInv'
    <2>1. UNCHANGED <<cache, writes, req>> /\ flushedUpTo' = Max2(flushedUpTo, admin[a].from)
          /\ admin[a].pc = "flush" /\ admin[a].left = {}
      BY <1>6 DEF FlushEnds
    <2>2. \A e \in cache : e.answer.serial > admin[a].from
      BY <2>1 DEF CacheTypes, TypeOK, Entry, Answer, Admin
    <2>3. flushedUpTo \in Nat /\ admin[a].from \in Nat
      BY DEF CacheTypes, TypeOK, Admin
    <2>4. flushedUpTo' >= flushedUpTo /\ flushedUpTo' \in {flushedUpTo, admin[a].from}
      BY <2>1, <2>3, MaxIsNumber
    <2>5. EntriesAreLeft' /\ ReadersKnow'
      BY <2>1, <2>2, <2>3, <2>4 DEF CacheTypes, TypeOK, Request
    <2>6. \A b \in Admins : admin'[b].pc = "flush" => admin'[b] = admin[b]
      BY <1>6 DEF FlushEnds, IdleAdmin, CacheTypes, TypeOK, Admin
    <2>7. FlushersKnow'
      BY <2>1, <2>6
    <2> QED
      BY <1>0, <2>5, <2>7
  <1>7. CASE Expire
    BY <1>0, <1>7 DEF Expire, kb
  <1>8. CASE UNCHANGED vars
    BY <1>0, <1>8 DEF vars
  <1> QED
    BY <1>1, <1>2, <1>3, <1>4, <1>5, <1>6, <1>7, <1>8 DEF Next, Serve, Administer

\* Nobody is served an answer from before a flush that ended before he asked.
THEOREM FlushedStayAway == Spec => []FlushedAnswersStayAway
  <1>1. Init => FlushInv
    BY TypeInit DEF Init, IdleAdmin, FlushInv, EntriesAreLeft, FlushersKnow, ReadersKnow
  <1>2. FlushInv => FlushedAnswersStayAway
    BY DEF FlushInv, ReadersKnow, FlushedAnswersStayAway, FromCache
  <1>3. QED
    BY <1>1, <1>2, FlushNext, PTL DEF Spec

-----------------------------------------------------------------------------
(* Freshness, while Redis answers.  A change is announced by an increment,  *)
(* so whoever does not know an announced change looked the version up       *)
(* before that increment, and whoever must know it looked it up afterwards. *)

ChangesAreMade ==
    /\ finished <= content
    /\ \A a \in Admins : admin[a].change <= content

VersionsAreRead ==
    /\ \A r \in Requests : req[r].lookupVer <= version /\ req[r].setVer <= version
    /\ \A e \in cache : e.key[3] <= version

Computes(p) == req[p].pc \in {"generate", "setVersion", "set"}

\* An answer that lacks an announced change was looked up under an old version.
LateAnswersAreOld ==
    \A p \in Requests : Computes(p) =>
        /\ finished > req[p].seen => version > req[p].lookupVer
        /\ req[p].pc # "generate" => req[p].answer.seen = req[p].seen

LateEntriesAreOld ==
    \A e \in cache : e.answer.stable =>
        (finished > e.answer.seen => version > e.key[3])

\* A reader with a version has a newer one than any answer it must not get.
ReadersPassOldAnswers ==
    \A r \in Requests :
        /\ req[r].mustSee <= finished
        /\ req[r].pc = "get" =>
              /\ \A p \in Requests : Computes(p) =>
                    (req[r].mustSee > req[p].seen => req[r].lookupVer > req[p].lookupVer)
              /\ \A e \in cache : e.answer.stable =>
                    (req[r].mustSee > e.answer.seen => req[r].lookupVer > e.key[3])

HitsKnow ==
    \A r \in Requests : req[r].hit =>
        /\ req[r].pc = "answered"
        /\ req[r].answer.stable => req[r].answer.seen >= req[r].mustSee

FreshParts ==
    /\ ChangesAreMade /\ VersionsAreRead /\ LateAnswersAreOld /\ LateEntriesAreOld
    /\ ReadersPassOldAnswers /\ HitsKnow

FreshInv == CacheTypes /\ (redisFaults = 0 => FreshParts)

\* What a request keeps in a step that only moves requests.
KeepsCourse(q) ==
    /\ req'[q].mustSee \in {req[q].mustSee, finished}
    /\ req'[q].lookupVer = req[q].lookupVer
    /\ req'[q].setVer \in {req[q].setVer, version}
    /\ req'[q].pc = "get" => req'[q] = req[q]
    /\ req'[q].hit => req'[q] = req[q]
    /\ Computes(q)' =>
          \/ req'[q].seen = content /\ req'[q].pc = "generate"
          \/ /\ Computes(q) /\ req'[q].seen = req[q].seen
             /\ req'[q].pc # "generate" => req'[q].answer.seen = req[q].seen

\* Such a step keeps the invariant.
LEMMA FreshKept ==
    ASSUME FreshInv, CacheTypes', redisFaults' \in Nat, redisFaults' >= redisFaults,
           UNCHANGED <<content, version, admin, finished, cache>>,
           redisFaults = 0 => \A q \in Requests : KeepsCourse(q)
    PROVE  FreshInv'
  <1> SUFFICES ASSUME redisFaults' = 0 PROVE FreshParts'
    BY DEF FreshInv
  <1>0. redisFaults = 0
    BY DEF FreshInv, CacheTypes, TypeOK
  <1> USE DEF FreshInv, FreshParts
  <1>1. ChangesAreMade' /\ VersionsAreRead' /\ LateEntriesAreOld'
    BY <1>0 DEF ChangesAreMade, VersionsAreRead, LateEntriesAreOld, CacheTypes, TypeOK,
                KeepsCourse
  <1>2. HitsKnow'
    BY <1>0 DEF HitsKnow, KeepsCourse
  <1>3. finished \in Nat /\ content \in Nat /\ finished <= content
    BY <1>0 DEF CacheTypes, TypeOK, ChangesAreMade
  <1>4. LateAnswersAreOld'
    <2> SUFFICES ASSUME NEW p \in Requests, Computes(p)'
                 PROVE  /\ finished > req'[p].seen => version > req'[p].lookupVer
                        /\ req'[p].pc # "generate" => req'[p].answer.seen = req'[p].seen
      BY DEF LateAnswersAreOld
    <2> QED
      BY <1>0, <1>3 DEF LateAnswersAreOld, KeepsCourse
  <1>5. ReadersPassOldAnswers'
    <2> SUFFICES ASSUME NEW r \in Requests
                 PROVE  /\ req'[r].mustSee <= finished
                        /\ req'[r].pc = "get" =>
                              /\ \A p \in Requests : Computes(p)' =>
                                    (req'[r].mustSee > req'[p].seen
                                        => req'[r].lookupVer > req'[p].lookupVer)
                              /\ \A e \in cache : e.answer.stable =>
                                    (req'[r].mustSee > e.answer.seen
                                        => req'[r].lookupVer > e.key[3])
      BY DEF ReadersPassOldAnswers
    <2>1. req'[r].mustSee <= finished /\ req'[r].mustSee \in Nat
      BY <1>0, <1>3 DEF ReadersPassOldAnswers, CacheTypes, TypeOK, Request, KeepsCourse
    <2>2. ASSUME req'[r].pc = "get", NEW p \in Requests, Computes(p)',
                 req'[r].mustSee > req'[p].seen
          PROVE  req'[r].lookupVer > req'[p].lookupVer
      BY <1>0, <1>3, <2>1, <2>2 DEF ReadersPassOldAnswers, KeepsCourse
    <2> QED
      BY <1>0, <2>1, <2>2 DEF ReadersPassOldAnswers, KeepsCourse
  <1> QED
    BY <1>1, <1>2, <1>4, <1>5

\* One step per action; Bump and Store are the interesting ones.
LEMMA FreshNext == FreshInv /\ [Next]_vars => FreshInv'
  <1> SUFFICES ASSUME FreshInv, [Next]_vars PROVE FreshInv'
    OBVIOUS
  <1>0. CacheTypes'
    BY TypeNext DEF FreshInv
  <1>1. ASSUME NEW r \in Requests,
               \/ Ask(r) \/ Miss(r) \/ Retrieve(r) \/ PipelineFails(r)
               \/ ReadVersionAgain(r) \/ Generate(r)
        PROVE FreshInv'
    <2>1. /\ UNCHANGED <<content, version, admin, finished, cache>>
          /\ redisFaults' \in Nat /\ redisFaults' >= redisFaults
      BY <1>1 DEF Ask, Miss, Retrieve, PipelineFails, ReadVersionAgain, Generate, FreshInv,
                  CacheTypes, TypeOK, RedisFault, kb
    <2>2. ASSUME redisFaults = 0, NEW q \in Requests PROVE KeepsCourse(q)
      <3>1. req \in [Requests -> Request] /\ (req[q].hit => req[q].pc = "answered")
            /\ (Computes(q) => (req[q].pc # "generate" => req[q].answer.seen = req[q].seen))
        BY <2>2 DEF FreshInv, FreshParts, HitsKnow, LateAnswersAreOld, CacheTypes, TypeOK
      <3> USE DEF KeepsCourse, Computes, Request, Move
      <3>2. CASE Ask(r)
        BY <3>1, <3>2 DEF Ask
      <3>3. CASE Miss(r)
        BY <3>1, <3>3 DEF Miss
      <3>4. CASE Retrieve(r)
        BY <3>1, <3>4 DEF Retrieve
      <3>5. CASE PipelineFails(r)
        BY <3>1, <3>5 DEF PipelineFails
      <3>6. CASE ReadVersionAgain(r)
        BY <3>1, <3>6 DEF ReadVersionAgain
      <3>7. CASE Generate(r)
        BY <3>1, <3>7 DEF Generate
      <3> QED
        BY <1>1, <3>2, <3>3, <3>4, <3>5, <3>6, <3>7
    <2> QED
      BY <1>0, <2>1, <2>2, FreshKept
  <1>2. ASSUME NEW r \in Requests, ReadVersion(r) PROVE FreshInv'
    <2>1. /\ UNCHANGED <<content, version, admin, finished, cache>>
          /\ redisFaults' = 0 => redisFaults = 0
          /\ redisFaults' = 0 =>
                 req' = [req EXCEPT ![r].pc = "get", ![r].lookupVer = version]
      BY <1>2 DEF ReadVersion, FreshInv, CacheTypes, TypeOK, RedisFault, kb
    <2> SUFFICES ASSUME redisFaults' = 0 PROVE FreshParts'
      BY <1>0 DEF FreshInv
    <2>2. /\ redisFaults = 0 /\ FreshParts /\ CacheTypes
          /\ req' = [req EXCEPT ![r].pc = "get", ![r].lookupVer = version]
      BY <2>1 DEF FreshInv
    <2>3. /\ req'[r] = [req[r] EXCEPT !.pc = "get", !.lookupVer = version]
          /\ \A q \in Requests \ {r} : req'[q] = req[q]
      BY <2>2 DEF CacheTypes, TypeOK
    <2>4. /\ req'[r].pc = "get" /\ req'[r].lookupVer = version
          /\ req'[r].mustSee = req[r].mustSee /\ req'[r].setVer = req[r].setVer
          /\ req'[r].hit = req[r].hit /\ req[r].pc = "lookupVersion"
      BY <1>2, <2>2, <2>3 DEF CacheTypes, TypeOK, Request, ReadVersion
    <2>5. \A p \in Requests : Computes(p)' => Computes(p) /\ req'[p] = req[p]
      BY <2>3, <2>4 DEF Computes
    <2>6. ChangesAreMade' /\ LateEntriesAreOld'
      BY <2>1, <2>2 DEF FreshParts, ChangesAreMade, LateEntriesAreOld
    <2>7. HitsKnow'
      BY <2>2, <2>3, <2>4 DEF FreshParts, HitsKnow
    <2>8. LateAnswersAreOld'
      BY <2>1, <2>2, <2>5 DEF FreshParts, LateAnswersAreOld
    <2>9. ChangesAreMade' /\ LateEntriesAreOld' /\ HitsKnow' /\ LateAnswersAreOld'
      BY <2>6, <2>7, <2>8
    <2>10. VersionsAreRead'
      BY <2>1, <2>2, <2>3, <2>4 DEF FreshParts, VersionsAreRead, CacheTypes, TypeOK
    <2>11. ReadersPassOldAnswers'
      <3> SUFFICES ASSUME NEW q \in Requests
                   PROVE  /\ req'[q].mustSee <= finished
                          /\ req'[q].pc = "get" =>
                                /\ \A p \in Requests : Computes(p)' =>
                                      (req'[q].mustSee > req'[p].seen
                                          => req'[q].lookupVer > req'[p].lookupVer)
                                /\ \A e \in cache : e.answer.stable =>
                                      (req'[q].mustSee > e.answer.seen
                                          => req'[q].lookupVer > e.key[3])
        BY <2>1 DEF ReadersPassOldAnswers
      <3>1. \A p \in Requests : Computes(p)' => Computes(p) /\ req'[p] = req[p]
        BY <2>5
      <3>2. CASE q # r
        BY <2>2, <2>3, <3>1, <3>2 DEF FreshParts, ReadersPassOldAnswers
      <3>3. CASE q = r
        <4>1. req[r].mustSee <= finished /\ req[r].mustSee \in Nat /\ finished \in Nat
          BY <2>2 DEF FreshParts, ReadersPassOldAnswers, CacheTypes, TypeOK, Request
        <4>2. \A p \in Requests : Computes(p)' =>
                  (req[r].mustSee > req'[p].seen => version > req'[p].lookupVer)
          BY <2>2, <3>1, <4>1 DEF FreshParts, LateAnswersAreOld, CacheTypes, TypeOK, Request
        <4>3. \A e \in cache : e.answer.stable =>
                  (req[r].mustSee > e.answer.seen => version > e.key[3])
          BY <2>2, <4>1 DEF FreshParts, LateEntriesAreOld, CacheTypes, TypeOK, Entry, Answer
        <4> QED
          BY <2>4, <3>3, <4>1, <4>2, <4>3
      <3> QED
        BY <3>2, <3>3
    <2> QED
      BY <2>9, <2>10, <2>11 DEF FreshParts
  <1>3. ASSUME NEW r \in Requests, Hit(r) PROVE FreshInv'
    <2>1. UNCHANGED <<content, version, admin, finished, cache, redisFaults>>
      BY <1>3 DEF Hit, kb
    <2> PICK e \in cache :
            /\ e.key = KeyOf(r)
            /\ req' = [req EXCEPT ![r].pc = "answered", ![r].answer = e.answer, ![r].hit = TRUE]
      BY <1>3 DEF Hit
    <2> SUFFICES ASSUME redisFaults' = 0 PROVE FreshParts'
      BY <1>0 DEF FreshInv
    <2>2. FreshParts /\ CacheTypes /\ req[r].pc = "get"
      BY <1>3, <2>1 DEF FreshInv, Hit
    <2>3. e.key[3] = req[r].lookupVer /\ req[r].lookupVer \in Nat /\ req[r].mustSee \in Nat
          /\ e.answer.seen \in Nat
      BY <2>2 DEF KeyOf, CacheKey, CacheTypes, TypeOK, Request, Entry, Answer
    <2>4. e.answer.stable => e.answer.seen >= req[r].mustSee
      BY <2>2, <2>3 DEF FreshParts, ReadersPassOldAnswers
    <2>5. \A q \in Requests :
              /\ req'[q].mustSee = req[q].mustSee /\ req'[q].lookupVer = req[q].lookupVer
              /\ req'[q].setVer = req[q].setVer /\ req'[q].seen = req[q].seen
              /\ q # r => req'[q] = req[q]
      BY <2>2 DEF CacheTypes, TypeOK, Request
    <2>6. req'[r].pc = "answered" /\ req'[r].answer = e.answer
      BY <2>2 DEF CacheTypes, TypeOK, Request
    <2>7. ChangesAreMade' /\ VersionsAreRead' /\ LateEntriesAreOld'
      BY <2>1, <2>2, <2>5 DEF FreshParts, ChangesAreMade, VersionsAreRead, LateEntriesAreOld
    <2>8. \A p \in Requests : Computes(p)' => Computes(p) /\ req'[p] = req[p]
      BY <2>5, <2>6 DEF Computes
    <2>9. LateAnswersAreOld'
      BY <2>1, <2>2, <2>8 DEF FreshParts, LateAnswersAreOld
    <2>10. HitsKnow'
      <3> SUFFICES ASSUME NEW q \in Requests, req'[q].hit
                   PROVE  /\ req'[q].pc = "answered"
                          /\ req'[q].answer.stable => req'[q].answer.seen >= req'[q].mustSee
        BY DEF HitsKnow
      <3>1. CASE q = r
        BY <2>4, <2>5, <2>6, <3>1
      <3>2. CASE q # r
        BY <2>2, <2>5, <3>2 DEF FreshParts, HitsKnow
      <3> QED
        BY <3>1, <3>2
    <2>11. ReadersPassOldAnswers'
      <3>1. \A q \in Requests : req'[q].mustSee <= finished'
        BY <2>1, <2>2, <2>5 DEF FreshParts, ReadersPassOldAnswers
      <3>2. \A q \in Requests : req'[q].pc = "get" => req'[q] = req[q]
        BY <2>5, <2>6
      <3> QED
        BY <2>1, <2>2, <2>8, <3>1, <3>2 DEF FreshParts, ReadersPassOldAnswers
    <2> QED
      BY <2>7, <2>9, <2>10, <2>11 DEF FreshParts
  <1>4. ASSUME NEW r \in Requests, Store(r) PROVE FreshInv'
    <2>1. /\ UNCHANGED <<content, version, admin, finished, redisFaults>>
          /\ req[r].pc = "set" /\ req' = [req EXCEPT ![r].pc = "answered"]
      BY <1>4 DEF Store, Move, kb
    <2> SUFFICES ASSUME redisFaults' = 0 PROVE FreshParts'
      BY <1>0 DEF FreshInv
    <2>2. FreshParts /\ CacheTypes
      BY <2>1 DEF FreshInv
    <2>3. /\ \A q \in Requests :
                /\ req'[q].mustSee = req[q].mustSee /\ req'[q].lookupVer = req[q].lookupVer
                /\ req'[q].setVer = req[q].setVer /\ req'[q].hit = req[q].hit
                /\ req'[q].answer = req[q].answer
                /\ q # r => req'[q] = req[q]
          /\ req'[r].pc = "answered"
      BY <2>1, <2>2 DEF CacheTypes, TypeOK, Request
    <2>4. \A p \in Requests : Computes(p)' => Computes(p) /\ req'[p] = req[p]
      BY <2>3 DEF Computes
    <2>5. Computes(r) /\ req[r].answer.seen = req[r].seen
      BY <2>1, <2>2 DEF Computes, FreshParts, LateAnswersAreOld
    <2>6. \A e \in cache' :
              \/ e \in cache
              \/ /\ e.key[3] = req[r].setVer /\ e.answer.seen = req[r].seen
                 /\ e.answer.stable => req[r].lookupVer = req[r].setVer
      <3>1. CASE UNCHANGED <<cache, writes>>
        BY <3>1
      <3>2. CASE \E f \in Entry :
                    /\ f.key = <<req[r].mode, req[r].query, req[r].setVer>>
                    /\ f.answer.seen = req[r].answer.seen
                    /\ f.answer.stable => req[r].lookupVer = req[r].setVer
                    /\ \A e \in cache' : e \in cache \/ e = f
        BY <2>5, <3>2
      <3> QED
        BY <1>4, <2>2, <3>1, <3>2, StoreWrites
    <2>7. ChangesAreMade' /\ HitsKnow'
      BY <2>1, <2>2, <2>3 DEF FreshParts, ChangesAreMade, HitsKnow
    <2>8. VersionsAreRead'
      BY <2>1, <2>2, <2>3, <2>6 DEF FreshParts, VersionsAreRead
    <2>9. LateAnswersAreOld'
      BY <2>1, <2>2, <2>4 DEF FreshParts, LateAnswersAreOld
    <2>10. LateEntriesAreOld'
      BY <2>1, <2>2, <2>5, <2>6 DEF FreshParts, LateAnswersAreOld, LateEntriesAreOld
    <2>11. ReadersPassOldAnswers'
      <3> SUFFICES ASSUME NEW q \in Requests
                   PROVE  /\ req'[q].mustSee <= finished'
                          /\ req'[q].pc = "get" =>
                                /\ \A p \in Requests : Computes(p)' =>
                                      (req'[q].mustSee > req'[p].seen
                                          => req'[q].lookupVer > req'[p].lookupVer)
                                /\ \A e \in cache' : e.answer.stable =>
                                      (req'[q].mustSee > e.answer.seen
                                          => req'[q].lookupVer > e.key[3])
        BY DEF ReadersPassOldAnswers
      <3>1. req'[q].mustSee <= finished'
        BY <2>1, <2>2, <2>3 DEF FreshParts, ReadersPassOldAnswers
      <3> SUFFICES ASSUME req'[q].pc = "get"
                   PROVE  /\ \A p \in Requests : Computes(p)' =>
                                (req'[q].mustSee > req'[p].seen
                                    => req'[q].lookupVer > req'[p].lookupVer)
                          /\ \A e \in cache' : e.answer.stable =>
                                (req'[q].mustSee > e.answer.seen
                                    => req'[q].lookupVer > e.key[3])
        BY <3>1
      <3>2. req'[q] = req[q] /\ req[q].pc = "get"
        BY <2>3
      <3>3. /\ \A p \in Requests : Computes(p) =>
                   (req[q].mustSee > req[p].seen => req[q].lookupVer > req[p].lookupVer)
            /\ \A e \in cache : e.answer.stable =>
                   (req[q].mustSee > e.answer.seen => req[q].lookupVer > e.key[3])
        BY <2>2, <3>2 DEF FreshParts, ReadersPassOldAnswers
      <3> QED
        BY <2>4, <2>5, <2>6, <3>2, <3>3
    <2> QED
      BY <2>7, <2>8, <2>9, <2>10, <2>11 DEF FreshParts
  <1>5. ASSUME NEW a \in Admins, Bump(a) PROVE FreshInv'
    <2>1. /\ UNCHANGED <<content, cache, req>>
          /\ redisFaults' = 0 => redisFaults = 0 /\ version' = version + 1
          /\ admin' = [admin EXCEPT ![a] = IdleAdmin]
          /\ finished' = Max2(finished, admin[a].change)
      BY <1>5 DEF Bump, RedisFault, FreshInv, CacheTypes, TypeOK
    <2> SUFFICES ASSUME redisFaults' = 0 PROVE FreshParts'
      BY <1>0 DEF FreshInv
    <2>2. FreshParts /\ CacheTypes /\ version' = version + 1
      BY <2>1 DEF FreshInv
    <2>3. /\ content \in Nat /\ version \in Nat /\ finished \in Nat
          /\ admin[a].change \in Nat
      BY <2>2 DEF CacheTypes, TypeOK, Admin
    <2>4. finished' \in Nat /\ finished <= finished'
          /\ finished' \in {finished, admin[a].change}
      BY <2>1, <2>3, MaxIsNumber
    <2>5. ChangesAreMade'
      <3>1. \A b \in Admins : admin'[b].change \in {0, admin[b].change}
        BY <2>1, <2>2 DEF CacheTypes, TypeOK, IdleAdmin
      <3> QED
        BY <2>1, <2>2, <2>3, <2>4, <3>1 DEF FreshParts, ChangesAreMade
    <2>6. /\ \A r \in Requests : req[r].lookupVer \in Nat /\ req[r].setVer \in Nat
                                 /\ req[r].mustSee \in Nat
          /\ \A e \in cache : e.key[3] \in Nat
      BY <2>2 DEF CacheTypes, TypeOK, Request, Entry
    <2>7. VersionsAreRead'
      BY <2>1, <2>2, <2>3, <2>6 DEF FreshParts, VersionsAreRead
    <2>8. LateAnswersAreOld' /\ LateEntriesAreOld'
      BY <2>1, <2>2, <2>3, <2>6
         DEF FreshParts, VersionsAreRead, LateAnswersAreOld, LateEntriesAreOld, Computes
    <2>9. HitsKnow'
      BY <2>1, <2>2 DEF FreshParts, HitsKnow
    <2>10. ReadersPassOldAnswers'
      BY <2>1, <2>2, <2>3, <2>4, <2>6 DEF FreshParts, ReadersPassOldAnswers, Computes
    <2> QED
      BY <2>5, <2>7, <2>8, <2>9, <2>10 DEF FreshParts
  <1>6. ASSUME NEW a \in Admins,
               Change(a) \/ FlushStart(a) \/ FlushPage(a) \/ FlushEnds(a) \/ FlushFails(a)
        PROVE FreshInv'
    <2>1. /\ UNCHANGED <<version, req, finished>> /\ cache' \subseteq cache
          /\ content' \in Nat /\ content' >= content
          /\ redisFaults' = 0 => redisFaults = 0
      BY <1>6 DEF Change, FlushStart, FlushPage, FlushEnds, FlushFails, RedisFault, FreshInv,
                  CacheTypes, TypeOK
    <2>2. \A b \in Admins : admin'[b].change \in {0, admin[b].change, content'}
      <3>1. admin \in [Admins -> Admin] /\ content \in Nat
        BY DEF FreshInv, CacheTypes, TypeOK
      <3>2. CASE Change(a)
        BY <3>1, <3>2 DEF Change, IdleAdmin, Admin
      <3>3. CASE FlushStart(a)
        BY <3>1, <3>3 DEF FlushStart, IdleAdmin, Admin
      <3>4. CASE FlushPage(a)
        BY <3>1, <3>4 DEF FlushPage, Admin
      <3>5. CASE FlushEnds(a) \/ FlushFails(a)
        <4>1. /\ admin'[a] \in {[admin[a] EXCEPT !.pc = "bump"], IdleAdmin}
              /\ \A b \in Admins \ {a} : admin'[b] = admin[b]
          BY <3>1, <3>5 DEF FlushEnds, FlushFails
        <4>2. admin'[a].change \in {0, admin[a].change}
          BY <3>1, <4>1 DEF IdleAdmin, Admin
        <4> QED
          BY <4>1, <4>2
      <3> QED
        BY <1>6, <3>2, <3>3, <3>4, <3>5
    <2> SUFFICES ASSUME redisFaults' = 0 PROVE FreshParts'
      BY <1>0 DEF FreshInv
    <2>3. FreshParts /\ CacheTypes
      BY <2>1 DEF FreshInv
    <2>4. ChangesAreMade'
      BY <2>1, <2>2, <2>3 DEF FreshParts, ChangesAreMade, CacheTypes, TypeOK, Admin
    <2>5. VersionsAreRead' /\ LateAnswersAreOld' /\ LateEntriesAreOld'
      BY <2>1, <2>3 DEF FreshParts, VersionsAreRead, LateAnswersAreOld, LateEntriesAreOld,
                        Computes
    <2>6. ReadersPassOldAnswers' /\ HitsKnow'
      BY <2>1, <2>3 DEF FreshParts, ReadersPassOldAnswers, HitsKnow, Computes
    <2> QED
      BY <2>4, <2>5, <2>6 DEF FreshParts
  <1>7. CASE Expire \/ UNCHANGED vars
    <2>1. /\ UNCHANGED <<content, version, admin, req, finished, redisFaults>>
          /\ cache' \subseteq cache
      BY <1>7 DEF Expire, kb, vars
    <2>2. FreshParts => FreshParts'
      BY <2>1 DEF FreshParts, ChangesAreMade, VersionsAreRead, LateAnswersAreOld,
                  LateEntriesAreOld, ReadersPassOldAnswers, HitsKnow, Computes
    <2> QED
      BY <1>0, <2>1, <2>2 DEF FreshInv
  <1> QED
    BY <1>1, <1>2, <1>3, <1>4, <1>5, <1>6, <1>7 DEF Next, Serve, Administer

\* While Redis answers, a stable answer from the cache knows every change that
\* was announced before the question came.
THEOREM StableHitsAlwaysFresh == Spec => []StableHitsAreFresh
  <1>1. Init => FreshInv
    BY TypeInit DEF Init, IdleAdmin, FreshInv, FreshParts, ChangesAreMade, VersionsAreRead,
                    LateAnswersAreOld, LateEntriesAreOld, ReadersPassOldAnswers, HitsKnow,
                    Computes
  <1>2. FreshInv => StableHitsAreFresh
    BY DEF FreshInv, FreshParts, HitsKnow, StableHitsAreFresh, FromCache
  <1>3. QED
    BY <1>1, <1>2, FreshNext, PTL DEF Spec
=============================================================================
