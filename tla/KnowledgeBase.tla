--------------------------- MODULE KnowledgeBase ---------------------------
(***************************************************************************)
(* The knowledge base of CampusGPT: one document is spread over five       *)
(* stores that no transaction spans,                                       *)
(*                                                                         *)
(*    status, src   its row in PostgreSQL (models.Document),               *)
(*    r2            its file in Cloudflare R2,                             *)
(*    pg            its chunks in pgvector (document_chunks),              *)
(*    bm25          its chunks in the in-memory BM25 index,                *)
(*    disk          the pickled copy of that index, labelled with a        *)
(*                  KB version,                                            *)
(*                                                                         *)
(* and a KB version in Redis that invalidates cached answers and the       *)
(* pickle.  Admin requests (upload with its background indexing, delete,   *)
(* patch, reindex) and the start-up of the server run as coroutines of one *)
(* event loop: an action is what one of them does between two awaits.      *)
(*                                                                         *)
(* Chunks of one document are inserted, relabelled and deleted by single   *)
(* SQL statements or single-threaded loops, so a document's chunks are one *)
(* unit here; what is told apart is their source_type and, in BM25,        *)
(* whether they came from ingestion or from a pgvector fetch (the two      *)
(* copies are different list elements in the code).                        *)
(***************************************************************************)
EXTENDS Naturals

CONSTANTS
    Docs,           \* document ids; PostgreSQL's serial never reuses one
    NoDoc,          \* "no document"
    Slots,          \* coroutines that may be running at the same time
    Ops,            \* the admin operations in use
    FaultySteps,    \* the steps whose calls to other services may fail
    MaxRequests,    \* bound: admin requests started
    MaxCrashes,     \* bound: crashes and redeployments of the server process
    MaxFaults,      \* bound: failing calls to R2, PostgreSQL or the models
    MaxRedisFaults  \* bound: failing increments of the KB version

ASSUME DocsAssumption == NoDoc \notin Docs
ASSUME OpsAssumption == Ops \subseteq {"upload", "delete", "patch", "reindex"}
ASSUME BoundsAssumption ==
    /\ MaxRequests \in Nat
    /\ MaxCrashes \in Nat
    /\ MaxFaults \in Nat
    /\ MaxRedisFaults \in Nat

VARIABLES
    status,      \* [Docs -> Statuses], the row's status
    src,         \* [Docs -> SourceTypes], the row's source_type
    r2,          \* documents whose file is in R2
    pg,          \* [Docs -> SourceTypes \cup {"none"}], the pgvector chunks
    bm25,        \* the chunks of the in-memory index
    disk,        \* [ver, chunks], the pickle; ver 0 stands for no file
    version,     \* campusgpt:kb_version in Redis, 0 while the key is absent
    server,      \* "down", "starting" or "up"
    job,         \* [Slots -> Job], the running coroutines
    settingOne,  \* a question read an absent version and is about to SET it to 1
    trust,       \* history: have requests disturbed each other?  See Conflict
    requests, crashes, faults, redisFaults   \* the bounded counters

stores == <<status, src, r2, pg>>
env == <<requests, crashes, faults, redisFaults, settingOne, trust>>
vars == <<status, src, r2, pg, bm25, disk, version, server, job, settingOne,
          trust, requests, crashes, faults, redisFaults>>

-----------------------------------------------------------------------------
SourceTypes == {"official", "experience"}
Live == {"pending", "indexing", "indexed", "error"}
\* "unborn" and "deleted" are the two ways of having no row.
Statuses == Live \cup {"unborn", "deleted"}
HasRow(d) == status[d] \in Live

Chunk == [doc : Docs, src : SourceTypes, via : {"ingest", "fetch"}]

JobOps == {"none", "upload", "delete", "patch", "reindex", "boot"}
Steps == {"idle", "insertRow",
          "setIndexing", "ingest", "upsert", "addBm25", "setIndexed", "setError",
          "delPg", "delBm25", "delR2", "delRow",
          "patchRow", "patchPg", "patchBm25", "flush",
          "fetch", "build", "bump", "save"}
Job == [op : JobOps, pc : Steps, doc : Docs \cup {NoDoc}, src : SourceTypes,
        snap : SUBSET Chunk, ver : Nat]

NewJob(op, pc, d, s) ==
    [op |-> op, pc |-> pc, doc |-> d, src |-> s, snap |-> {}, ver |-> 0]
IdleJob == NewJob("none", "idle", NoDoc, "official")

TypeOK ==
    /\ status \in [Docs -> Statuses]
    /\ src \in [Docs -> SourceTypes]
    /\ r2 \in SUBSET Docs
    /\ pg \in [Docs -> SourceTypes \cup {"none"}]
    /\ bm25 \in SUBSET Chunk
    /\ disk \in [ver : Nat, chunks : SUBSET Chunk]
    /\ version \in Nat
    /\ server \in {"down", "starting", "up"}
    /\ job \in [Slots -> Job]
    /\ \A t \in Slots :
           job[t].op \in {"upload", "delete", "patch"} => job[t].doc \in Docs
    /\ settingOne \in BOOLEAN
    /\ trust \in {"clean", "rows", "suspect", "repaired"}
    /\ requests \in Nat /\ crashes \in Nat
    /\ faults \in Nat /\ redisFaults \in Nat

\* An empty deployment: no documents, no Redis key, no pickle.
Init ==
    /\ status = [d \in Docs |-> "unborn"]
    /\ src = [d \in Docs |-> "official"]
    /\ r2 = {}
    /\ pg = [d \in Docs |-> "none"]
    /\ bm25 = {}
    /\ disk = [ver |-> 0, chunks |-> {}]
    /\ version = 0
    /\ server = "down"
    /\ job = [t \in Slots |-> IdleJob]
    /\ settingOne = FALSE
    /\ trust = "clean"
    /\ requests = 0 /\ crashes = 0 /\ faults = 0 /\ redisFaults = 0

-----------------------------------------------------------------------------
(* The stores' own operations.                                             *)

\* vectorstore.fetch_all_chunks: every chunk row, as dicts of its own.
Fetched == {[doc |-> d, src |-> pg[d], via |-> "fetch"] :
                d \in {e \in Docs : pg[e] # "none"}}

\* BM25Index.add_chunks and remove_by_document_id.
AddChunks(chunks) == bm25' = bm25 \cup chunks
RemoveByDocumentId(d) == bm25' = {c \in bm25 : c.doc # d}

\* The loop over bm25._chunks in update_document_source.
RelabelledAll(c, d, s) == [c EXCEPT !.src = s]  \* mutant: no test of the document
Relabelled(c, d, s) == IF c.doc = d THEN [c EXCEPT !.src = s] ELSE c

\* UPDATE documents SET status = s WHERE id = d: no row, no effect.
SetStatus(d, s) ==
    status' = IF HasRow(d) THEN [status EXCEPT ![d] = s] ELSE status

-----------------------------------------------------------------------------
(* Coroutine plumbing.                                                     *)

At(t, op, pc) == job[t].op = op /\ job[t].pc = pc
Goto(t, pc) == job' = [job EXCEPT ![t].pc = pc]

\* The requests that the code lets overlap although they disturb each other:
\* an upload's indexing and a deletion or a patch of the same document, two
\* patches of one document, and a rebuild and anything that changes chunks.
Conflict(running, op, d) ==
    \/ /\ running.doc = d
       /\ {running.op, op} \in {{"upload", "delete"}, {"upload", "patch"}, {"patch"}}
    \/ \E changing \in {"upload", "delete", "patch"} :
           {running.op, op} = {"reindex", changing}

\* trust is "clean" until such requests overlap, a call fails or the process
\* dies in the middle of something, and "suspect" from then on, until a rebuild
\* fetches with nothing else running: then it is "repaired".  It is "rows" when
\* the rows and pgvector agree, but BM25 is that of a pickle they have left behind.
IdleBut(t) == \A u \in Slots \ {t} : job[u].pc = "idle"

\* A request can be accepted by a free slot while the server is up.
Accept(t, op, d, s, pc) ==
    /\ server = "up"
    /\ op \in Ops
    /\ job[t].pc = "idle"
    /\ requests < MaxRequests
    /\ requests' = requests + 1
    /\ job' = [job EXCEPT ![t] = NewJob(op, pc, d, s)]
    /\ trust' = IF \E u \in Slots : Conflict(job[u], op, d) THEN "suspect" ELSE trust
    /\ UNCHANGED <<crashes, faults, redisFaults, settingOne>>

\* The coroutine returns; when it was the start-up, the server is ready.
Return(t) ==
    /\ job' = [job EXCEPT ![t] = IdleJob]
    /\ server' = IF job[t].op = "boot" THEN "up" ELSE server

\* The coroutine raises: a request answers 500, a start-up gives up.
Raise(t) ==
    /\ job' = [job EXCEPT ![t] = IdleJob]
    /\ server' = IF job[t].op = "boot" THEN "down" ELSE server

\* A call to R2, PostgreSQL or a model fails.
Fault(t) ==
    /\ job[t].pc \in FaultySteps
    /\ faults < MaxFaults
    /\ faults' = faults + 1
    /\ trust' = "suspect"
    /\ UNCHANGED <<requests, crashes, redisFaults, settingOne>>

-----------------------------------------------------------------------------
(* Upload (upload_document) and its background indexing (process_document). *)

\* The file is validated and stored in R2 under a fresh key.
UploadStart(t) ==
    \E d \in Docs, s \in SourceTypes :
        /\ status[d] = "unborn" /\ d \notin r2
        /\ Accept(t, "upload", d, s, "insertRow")
        /\ r2' = r2 \cup {d}
        /\ UNCHANGED <<status, src, pg, bm25, disk, version, server>>

\* The row is committed as "pending"; the response goes out and the same
\* coroutine carries on with the background task.
UploadInsertRow(t) ==
    LET d == job[t].doc IN
    /\ At(t, "upload", "insertRow")
    /\ status' = [status EXCEPT ![d] = "pending"]
    /\ src' = [src EXCEPT ![d] = job[t].src]
    /\ Goto(t, "setIndexing")
    /\ UNCHANGED <<r2, pg, bm25, disk, version, server, env>>

\* Mutant: the status is set to its final value at once.
ProcessSetIndexedEarly(t) ==
    /\ At(t, "upload", "setIndexing")
    /\ SetStatus(job[t].doc, "indexed")
    /\ Goto(t, "ingest")
    /\ UNCHANGED <<src, r2, pg, bm25, disk, version, server, env>>

ProcessSetIndexing(t) ==
    /\ At(t, "upload", "setIndexing")
    /\ SetStatus(job[t].doc, "indexing")
    /\ Goto(t, "ingest")
    /\ UNCHANGED <<src, r2, pg, bm25, disk, version, server, env>>

\* Download, extraction and embedding.  A file already deleted from R2
\* raises inside the try block.
ProcessIngest(t) ==
    /\ At(t, "upload", "ingest")
    /\ Goto(t, IF job[t].doc \in r2 THEN "upsert" ELSE "setError")
    /\ UNCHANGED <<stores, bm25, disk, version, server, env>>

\* INSERT of the chunks, labelled with the source_type of the upload request.
\* The foreign key refuses them when the row is gone.
ProcessUpsert(t) ==
    LET d == job[t].doc IN
    /\ At(t, "upload", "upsert")
    /\ IF HasRow(d)
         THEN pg' = [pg EXCEPT ![d] = job[t].src] /\ Goto(t, "addBm25")
         ELSE pg' = pg /\ Goto(t, "setError")
    /\ UNCHANGED <<status, src, r2, bm25, disk, version, server, env>>

\* Back on the event loop: bm25.add_chunks, up to the await of the UPDATE.
ProcessAddBm25(t) ==
    /\ At(t, "upload", "addBm25")
    /\ AddChunks({[doc |-> job[t].doc, src |-> job[t].src, via |-> "ingest"]})
    /\ Goto(t, "setIndexed")
    /\ UNCHANGED <<stores, disk, version, server, env>>

ProcessSetIndexed(t) ==
    /\ At(t, "upload", "setIndexed")
    /\ SetStatus(job[t].doc, "indexed")
    /\ Goto(t, "bump")
    /\ UNCHANGED <<src, r2, pg, bm25, disk, version, server, env>>

\* Mutant: a status the schema does not know.
ProcessSetFailed(t) ==
    /\ At(t, "upload", "setError")
    /\ SetStatus(job[t].doc, "failed")
    /\ Return(t)
    /\ UNCHANGED <<src, r2, pg, bm25, disk, version, env>>

\* The except block; the re-raised exception is logged by the wrapper.
ProcessSetError(t) ==
    /\ At(t, "upload", "setError")
    /\ SetStatus(job[t].doc, "error")
    /\ Return(t)
    /\ UNCHANGED <<src, r2, pg, bm25, disk, version, env>>

\* Mutant: no except block.
ProcessFaultEscapes(t) ==
    /\ job[t].op = "upload"
    /\ job[t].pc \in {"ingest", "upsert", "setIndexed"}
    /\ Fault(t)
    /\ Raise(t)
    /\ UNCHANGED <<stores, bm25, disk, version>>

\* A failing call inside the try block leads to the except block, which can
\* still use its database session: it was not the session that failed, or it
\* failed to get a connection.
ProcessFault(t) ==
    /\ job[t].op = "upload"
    /\ job[t].pc \in {"ingest", "upsert", "setIndexed"}
    /\ Fault(t)
    /\ Goto(t, "setError")
    /\ UNCHANGED <<stores, bm25, disk, version, server>>

-----------------------------------------------------------------------------
(* Delete (delete_doc, delete_document).                                   *)

\* The SELECT finds the row, else 404.
DeleteStart(t) ==
    \E d \in Docs :
        /\ HasRow(d)
        /\ Accept(t, "delete", d, src[d], "delPg")
        /\ UNCHANGED <<stores, bm25, disk, version, server>>

DeletePg(t) ==
    /\ At(t, "delete", "delPg")
    /\ pg' = [pg EXCEPT ![job[t].doc] = "none"]
    /\ Goto(t, "delBm25")
    /\ UNCHANGED <<status, src, r2, bm25, disk, version, server, env>>

DeleteBm25(t) ==
    /\ At(t, "delete", "delBm25")
    /\ RemoveByDocumentId(job[t].doc)
    /\ Goto(t, "delR2")
    /\ UNCHANGED <<stores, disk, version, server, env>>

\* r2_delete swallows the ClientError of the store: then the file stays.
DeleteR2(t) ==
    /\ At(t, "delete", "delR2")
    /\ \/ r2' = r2 \ {job[t].doc} /\ UNCHANGED env
       \/ r2' = r2 /\ Fault(t)
    /\ Goto(t, "delRow")
    /\ UNCHANGED <<status, src, pg, bm25, disk, version, server>>

\* Mutant: the foreign key does not cascade.
DeleteRowOnly(t) ==
    LET d == job[t].doc IN
    /\ At(t, "delete", "delRow")
    /\ status' = IF HasRow(d) THEN [status EXCEPT ![d] = "deleted"] ELSE status
    /\ Goto(t, "bump")
    /\ UNCHANGED <<src, r2, pg, bm25, disk, version, server, env>>

\* The row goes, and by ON DELETE CASCADE every chunk it still has.
DeleteRow(t) ==
    LET d == job[t].doc IN
    /\ At(t, "delete", "delRow")
    /\ status' = IF HasRow(d) THEN [status EXCEPT ![d] = "deleted"] ELSE status
    /\ pg' = [pg EXCEPT ![d] = "none"]
    /\ Goto(t, "bump")
    /\ UNCHANGED <<src, r2, bm25, disk, version, server, env>>

-----------------------------------------------------------------------------
(* Patch (update_doc, update_document_source).                             *)

\* The SELECT finds the row; a source_type missing from the body is the one
\* the row has now, so the choice of s covers that case.
PatchStart(t) ==
    \E d \in Docs, s \in SourceTypes :
        /\ HasRow(d)
        /\ Accept(t, "patch", d, s, "patchRow")
        /\ UNCHANGED <<stores, bm25, disk, version, server>>

PatchRow(t) ==
    LET d == job[t].doc IN
    /\ At(t, "patch", "patchRow")
    /\ src' = IF HasRow(d) THEN [src EXCEPT ![d] = job[t].src] ELSE src
    /\ Goto(t, "patchPg")
    /\ UNCHANGED <<status, r2, pg, bm25, disk, version, server, env>>

\* Mutant: the chunks keep the label of the upload.
PatchPgNot(t) ==
    /\ At(t, "patch", "patchPg")
    /\ Goto(t, "patchBm25")
    /\ UNCHANGED <<stores, bm25, disk, version, server, env>>

\* UPDATE document_chunks ... WHERE document_id = d.
PatchPg(t) ==
    LET d == job[t].doc IN
    /\ At(t, "patch", "patchPg")
    /\ pg' = IF pg[d] # "none" THEN [pg EXCEPT ![d] = job[t].src] ELSE pg
    /\ Goto(t, "patchBm25")
    /\ UNCHANGED <<status, src, r2, bm25, disk, version, server, env>>

PatchBm25(t) ==
    /\ At(t, "patch", "patchBm25")
    /\ bm25' = {Relabelled(c, job[t].doc, job[t].src) : c \in bm25}
    /\ Goto(t, "flush")
    /\ UNCHANGED <<stores, disk, version, server, env>>

\* flush_response_cache never raises; what it removes is in ResponseCache.
PatchFlush(t) ==
    /\ At(t, "patch", "flush")
    /\ Goto(t, "bump")
    /\ UNCHANGED <<stores, bm25, disk, version, server, env>>

-----------------------------------------------------------------------------
(* Rebuilding BM25 from pgvector (rebuild_bm25_from_vectorstore), for       *)
(* POST /reindex and for the start-up.                                     *)

ReindexStart(t) ==
    /\ Accept(t, "reindex", NoDoc, "official", "fetch")
    /\ UNCHANGED <<stores, bm25, disk, version, server>>

RebuildFetch(t) ==
    /\ job[t].pc = "fetch"
    /\ job' = [job EXCEPT ![t].snap = Fetched, ![t].pc = "build"]
    /\ trust' = IF ~IdleBut(t) THEN trust
                ELSE IF trust = "suspect" THEN "repaired"
                ELSE IF trust = "rows" THEN "clean" ELSE trust
    /\ UNCHANGED <<stores, bm25, disk, version, server, settingOne,
                   requests, crashes, faults, redisFaults>>

RebuildBuild(t) ==
    /\ job[t].pc = "build"
    /\ bm25' = job[t].snap
    /\ job' = [job EXCEPT ![t].snap = {}, ![t].pc = "bump"]
    /\ UNCHANGED <<stores, disk, version, server, env>>

-----------------------------------------------------------------------------
(* The common tail: bump_kb_version, then save_to_disk with the version it  *)
(* returned.  A patch does not save.                                       *)

\* Mutant: the version is read and returned, not incremented.
ReadKbVersion(t) ==
    /\ job[t].pc = "bump"
    /\ IF job[t].op = "patch"
         THEN Return(t)
         ELSE /\ job' = [job EXCEPT ![t].ver = version, ![t].pc = "save"]
              /\ UNCHANGED server
    /\ UNCHANGED <<stores, bm25, disk, version, env>>

BumpKbVersion(t) ==
    /\ job[t].pc = "bump"
    /\ version' = version + 1
    /\ IF job[t].op = "patch"
         THEN Return(t)
         ELSE /\ job' = [job EXCEPT ![t].ver = version + 1, ![t].pc = "save"]
              /\ UNCHANGED server
    /\ UNCHANGED <<stores, bm25, disk, env>>

\* Redis fails: bump_kb_version returns 0 and the save is skipped.
BumpFails(t) ==
    /\ job[t].pc = "bump"
    /\ redisFaults < MaxRedisFaults
    /\ redisFaults' = redisFaults + 1
    /\ Return(t)
    /\ UNCHANGED <<stores, bm25, disk, version, requests, crashes, faults,
                   settingOne, trust>>

\* The temporary file is renamed over the old pickle; an error in writing it
\* is swallowed.
SaveToDisk(t) ==
    /\ job[t].pc = "save"
    /\ \/ disk' = [ver |-> job[t].ver, chunks |-> bm25] /\ UNCHANGED env
       \/ disk' = disk /\ Fault(t)
    /\ Return(t)
    /\ UNCHANGED <<stores, bm25, version>>

\* A failing call outside process_document's try block ends the coroutine: its
\* remaining steps never run.  So does a statement of the last UPDATE inside it:
\* the session's transaction has failed, and the except block uses it as it is.
JobRaises(t) ==
    /\ job[t].pc \in {"insertRow", "setIndexing", "setIndexed", "setError",
                      "delPg", "delR2", "delRow", "patchRow", "patchPg", "fetch"}
    /\ Fault(t)
    /\ Raise(t)
    /\ UNCHANGED <<stores, bm25, disk, version>>

-----------------------------------------------------------------------------
(* The process: crash and start-up (lifespan).                             *)

Crash ==
    /\ server # "down"
    /\ crashes < MaxCrashes
    /\ crashes' = crashes + 1
    /\ server' = "down"
    /\ bm25' = {}
    /\ job' = [t \in Slots |-> IdleJob]
    /\ settingOne' = FALSE
    /\ trust' = IF redisFaults = 0 /\ \A t \in Slots : job[t].pc = "idle"
                  THEN trust ELSE "suspect"
    /\ UNCHANGED <<stores, disk, version, requests, faults, redisFaults>>

\* Mutant: the rows are left as they were.
RedeployRowsKept ==
    /\ server # "down"
    /\ crashes < MaxCrashes
    /\ crashes' = crashes + 1
    /\ server' = "down"
    /\ bm25' = {}
    /\ job' = [t \in Slots |-> IdleJob]
    /\ settingOne' = FALSE
    /\ pg' = [d \in Docs |-> "none"]
    /\ trust' = "rows"
    /\ UNCHANGED <<status, src, r2, disk, version, requests, faults, redisFaults>>

\* The process is started anew with another vector dimension.  One transaction
\* of init_db drops the chunks and sets every row to "pending"; the KB version
\* stays, so that the old pickle may be accepted after it.
Redeploy ==
    /\ server # "down"
    /\ crashes < MaxCrashes
    /\ crashes' = crashes + 1
    /\ server' = "down"
    /\ bm25' = {}
    /\ job' = [t \in Slots |-> IdleJob]
    /\ settingOne' = FALSE
    /\ pg' = [d \in Docs |-> "none"]
    /\ status' = [d \in Docs |-> IF HasRow(d) THEN "pending" ELSE status[d]]
    /\ trust' = "rows"
    /\ UNCHANGED <<src, r2, disk, version, requests, faults, redisFaults>>

\* get_kb_version initialises an absent counter to 1, and answers 0 when
\* Redis does not; no pickle carries 0.
BootVersion == IF version = 0 THEN 1 ELSE version

BootFromDisk ==
    /\ server = "down"
    /\ disk.ver = BootVersion
    /\ bm25' = disk.chunks
    /\ server' = "up"
    /\ version' = BootVersion
    /\ UNCHANGED <<stores, disk, job, env>>

\* No pickle, or one of another version: rebuild before serving.
StartRebuild(t) ==
    /\ server' = "starting"
    /\ job' = [job EXCEPT ![t] = NewJob("boot", "fetch", NoDoc, "official")]
    /\ UNCHANGED <<stores, bm25, disk>>

\* Mutant: a missing pickle is not a reason to rebuild.
BootRebuildIfStale(t) ==
    /\ server = "down"
    /\ disk.ver \notin {0, BootVersion}
    /\ StartRebuild(t)
    /\ version' = BootVersion
    /\ UNCHANGED env

BootRebuild(t) ==
    /\ server = "down"
    /\ disk.ver # BootVersion
    /\ StartRebuild(t)
    /\ version' = BootVersion
    /\ UNCHANGED env

\* Redis fails while the version is read.
BootWithoutRedis(t) ==
    /\ server = "down"
    /\ redisFaults < MaxRedisFaults
    /\ redisFaults' = redisFaults + 1
    /\ StartRebuild(t)
    /\ UNCHANGED <<version, requests, crashes, faults, settingOne, trust>>

-----------------------------------------------------------------------------
(* get_kb_version on behalf of a question: GET, then SET 1 if there was      *)
(* nothing.  Two calls to Redis, made in a worker thread.                  *)

ChatGetsNoVersion ==
    /\ server = "up" /\ version = 0 /\ ~settingOne
    /\ settingOne' = TRUE
    /\ UNCHANGED <<stores, bm25, disk, version, server, job, trust,
                   requests, crashes, faults, redisFaults>>

ChatSetsVersionOne ==
    /\ settingOne
    /\ settingOne' = FALSE
    /\ version' = 1
    /\ UNCHANGED <<stores, bm25, disk, server, job, trust,
                   requests, crashes, faults, redisFaults>>

-----------------------------------------------------------------------------
Start(t) == UploadStart(t) \/ DeleteStart(t) \/ PatchStart(t) \/ ReindexStart(t)

\* A step the event loop owes a running coroutine.
Advance(t) ==
    \/ UploadInsertRow(t)
    \/ ProcessSetIndexing(t) \/ ProcessIngest(t) \/ ProcessUpsert(t)
    \/ ProcessAddBm25(t) \/ ProcessSetIndexed(t) \/ ProcessSetError(t)
    \/ DeletePg(t) \/ DeleteBm25(t) \/ DeleteR2(t) \/ DeleteRow(t)
    \/ PatchRow(t) \/ PatchPg(t) \/ PatchBm25(t) \/ PatchFlush(t)
    \/ RebuildFetch(t) \/ RebuildBuild(t)
    \/ BumpKbVersion(t) \/ SaveToDisk(t)

Fail(t) == ProcessFault(t) \/ BumpFails(t) \/ JobRaises(t)

Boot(t) == BootRebuild(t) \/ BootWithoutRedis(t)

Next ==
    \/ \E t \in Slots : Start(t) \/ Advance(t) \/ Fail(t) \/ Boot(t)
    \/ BootFromDisk
    \/ ChatGetsNoVersion
    \/ ChatSetsVersionOne
    \/ Crash
    \/ Redeploy

Spec == Init /\ [][Next]_vars

\* uvicorn restarts a process that is down, and the event loop runs every
\* coroutine that is ready.
Fairness ==
    /\ WF_vars(BootFromDisk)
    /\ \A t \in Slots : WF_vars(Boot(t)) /\ WF_vars(Advance(t))

FairSpec == Spec /\ Fairness
-----------------------------------------------------------------------------
(* Properties.                                                             *)

Idle == \A t \in Slots : job[t].pc = "idle"
Quiet == server = "up" /\ Idle
Deleting(t, d) ==
    job[t].op = "delete" /\ job[t].doc = d
    /\ job[t].pc \in {"delBm25", "delR2", "delRow"}

\* No chunk outlives its document: whatever indexing, deletion and failure do
\* and in whatever order, every chunk in pgvector belongs to a document row.
ChunksHaveRow == \A d \in Docs : pg[d] # "none" => HasRow(d)

\* A document shown as "indexed" can be found: unless one is being deleted
\* right now, its chunks are in pgvector.  (A crash or a failing call in the
\* middle of a deletion takes the chunks and leaves the row.)
IndexedHasChunks ==
    faults = 0 /\ crashes = 0 =>
        \A d \in Docs :
            status[d] = "indexed" /\ (\A t \in Slots : ~Deleting(t, d))
                => pg[d] # "none"

\* The in-memory index was changed by a coroutine that has not bumped yet.
UnbumpedSteps == {"setIndexed", "delR2", "delRow", "flush", "bump"}

\* The pickle a restart would accept, the one labelled with the current KB
\* version, holds exactly the chunks the running index holds: no save, of any
\* of the coroutines that race to write the file, is ever labelled with a
\* version that a later change carries.  Crashes at any point are included.
AcceptedPickleIsCurrent ==
    /\ faults = 0 /\ redisFaults = 0
    /\ server = "up"
    /\ \A t \in Slots : job[t].pc \notin UnbumpedSteps
    /\ disk.ver = version
    => disk.chunks = bm25

\* Requests that do not disturb each other leave the rows right: once all have
\* ended, exactly the indexed documents have chunks in pgvector, and these
\* carry the source_type of the row.  Uploads, deletions and patches of
\* different documents may have overlapped in any way.  A change of the vector
\* dimension leaves them right, whatever it interrupts.
RowsAgreeWhenQuiet ==
    Quiet /\ trust \in {"clean", "rows"} =>
        \A d \in Docs :
            /\ status[d] = "indexed" <=> pg[d] # "none"
            /\ pg[d] # "none" => pg[d] = src[d]

\* They also leave the index right: a document is in BM25 exactly when it has
\* chunks in pgvector, once, and with their label.  After a restart of an idle
\* server this still holds, and a rebuild with nothing else running restores
\* it, whatever crashes and failing or half-finished requests came before.
IndexesAgreeWhenQuiet ==
    Quiet /\ trust \in {"clean", "repaired"} =>
        \A d \in Docs :
            LET copies == {c \in bm25 : c.doc = d} IN
            /\ copies # {} <=> pg[d] # "none"
            /\ \A c, e \in copies : c = e /\ c.src = pg[d]

\* The background task that indexes d is still to end.
BeingIndexed(d) ==
    \E t \in Slots :
        /\ job[t].op = "upload" /\ job[t].doc = d
        /\ job[t].pc \in {"setIndexing", "ingest", "upsert", "addBm25", "setIndexed", "setError"}

\* document_service.py:85-172.  Indexing ends: a document whose indexing is
\* scheduled or runs becomes "indexed" or "error", or is deleted, also when a
\* download, an extraction, an embedding or the INSERT of its chunks fails,
\* unless the process dies meanwhile.  After that the row stays "pending" or
\* "indexing" for ever: nothing starts the indexing again.  (A failure of the
\* session that holds the row's status leaves it there too, and is not among
\* those of the run.)
IndexingEnds ==
    \A d \in Docs :
        BeingIndexed(d) ~> status[d] \notin {"pending", "indexing"} \/ server # "up"

\* A restart recovers: the server comes back up.
ServerComesBack == server # "up" ~> server = "up"

\* "Delete a document from pgvector, BM25, R2 storage, and DB": once all
\* requests have ended, every chunk in BM25 belongs to a document with a row,
\* also when the deletion overlapped the indexing.  This is what the code
\* documents; the interleaving refutes it.
DeleteRemovesFromBm25 ==
    Quiet => \A c \in bm25 : HasRow(c.doc)
=============================================================================
