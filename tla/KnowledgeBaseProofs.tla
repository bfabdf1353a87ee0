------------------------ MODULE KnowledgeBaseProofs ------------------------
(***************************************************************************)
(* Proofs about KnowledgeBase: for any sets of documents and coroutines,   *)
(* any number of requests, crashes and failing calls.  The last part is    *)
(* about the BM25 index and its pickle, which agree with pgvector.         *)
(***************************************************************************)
EXTENDS KnowledgeBase, TLAPS

-----------------------------------------------------------------------------
(* Type correctness.                                                       *)

\* A free slot is a job, and a new job of a known operation is one.
LEMMA IdleJobIsJob ==
    IdleJob \in Job /\ IdleJob.op = "none" /\ IdleJob.pc = "idle"
  BY DEF IdleJob, NewJob, Job, JobOps, Steps, SourceTypes

\* The part of TypeOK that speaks of the coroutines.
JobTypeOK ==
    /\ job \in [Slots -> Job]
    /\ \A t \in Slots :
           job[t].op \in {"upload", "delete", "patch"} => job[t].doc \in Docs

\* A coroutine that ends keeps the types of job and server.
LEMMA EndingKeepsTypes ==
    ASSUME TypeOK, NEW t \in Slots, Return(t) \/ Raise(t)
    PROVE  JobTypeOK' /\ server' \in {"down", "starting", "up"}
  BY IdleJobIsJob DEF TypeOK, JobTypeOK, Return, Raise

\* Moving a coroutine to a next step keeps the type of job.
LEMMA GotoKeepsTypes ==
    ASSUME TypeOK, NEW t \in Slots, NEW pc \in Steps, Goto(t, pc)
    PROVE  JobTypeOK'
  BY DEF TypeOK, JobTypeOK, Goto, Job

\* What is fetched from pgvector is a set of chunks.
LEMMA FetchedIsChunks == TypeOK => Fetched \subseteq Chunk
  BY DEF TypeOK, Fetched, Chunk

\* Accepting a request keeps the types of job and of the counters.
LEMMA AcceptKeepsTypes ==
    ASSUME TypeOK, NEW t \in Slots, NEW op, NEW d \in Docs \cup {NoDoc},
           NEW s \in SourceTypes, NEW pc \in Steps,
           op \in {"upload", "delete", "patch"} => d \in Docs,
           Accept(t, op, d, s, pc)
    PROVE  JobTypeOK' /\ requests' \in Nat
  <1>1. NewJob(op, pc, d, s) \in Job
    BY OpsAssumption DEF NewJob, Job, JobOps, Accept
  <1>2. QED
    BY <1>1 DEF TypeOK, JobTypeOK, Accept, NewJob

\* So does the start of a rebuild at boot.
LEMMA StartRebuildKeepsTypes ==
    ASSUME TypeOK, NEW t \in Slots, StartRebuild(t)
    PROVE  JobTypeOK'
  <1>1. NewJob("boot", "fetch", NoDoc, "official") \in Job
    BY DEF NewJob, Job, JobOps, Steps, SourceTypes
  <1>2. QED
    BY <1>1 DEF TypeOK, JobTypeOK, StartRebuild, NewJob

\* An empty deployment is well typed.
LEMMA TypeInit == Init => TypeOK
  <1> SUFFICES ASSUME Init PROVE TypeOK
    OBVIOUS
  <1>1. JobTypeOK
    BY IdleJobIsJob DEF Init, JobTypeOK
  <1>2. status \in [Docs -> Statuses] /\ src \in [Docs -> SourceTypes]
    BY DEF Init, Statuses, SourceTypes
  <1>3. pg \in [Docs -> SourceTypes \cup {"none"}]
    BY DEF Init
  <1>4. disk \in [ver : Nat, chunks : SUBSET Chunk]
    BY DEF Init
  <1> QED
    BY <1>1, <1>2, <1>3, <1>4 DEF Init, TypeOK, JobTypeOK

\* One step per group of actions; the steps that run one coroutine first.
LEMMA TypeNext == TypeOK /\ [Next]_vars => TypeOK'
  <1> SUFFICES ASSUME TypeOK, [Next]_vars PROVE TypeOK'
    OBVIOUS
  <1> USE DEF stores, env
  <1>1. ASSUME NEW t \in Slots, UploadStart(t) PROVE TypeOK'
    <2> PICK d \in Docs, s \in SourceTypes :
               /\ Accept(t, "upload", d, s, "insertRow")
               /\ r2' = r2 \cup {d}
               /\ UNCHANGED <<status, src, pg, bm25, disk, version, server>>
      BY <1>1 DEF UploadStart
    <2>1. JobTypeOK' /\ requests' \in Nat
      BY AcceptKeepsTypes DEF Steps
    <2> QED
      BY <2>1 DEF Accept, TypeOK, JobTypeOK
  <1>2. ASSUME NEW t \in Slots, DeleteStart(t) PROVE TypeOK'
    <2> PICK d \in Docs :
               /\ Accept(t, "delete", d, src[d], "delPg")
               /\ UNCHANGED <<stores, bm25, disk, version, server>>
      BY <1>2 DEF DeleteStart
    <2>1. JobTypeOK' /\ requests' \in Nat
      <3>1. src[d] \in SourceTypes
        BY DEF TypeOK
      <3> QED
        BY <3>1, AcceptKeepsTypes DEF Steps
    <2> QED
      BY <2>1 DEF Accept, TypeOK, JobTypeOK
  <1>3. ASSUME NEW t \in Slots, PatchStart(t) PROVE TypeOK'
    <2> PICK d \in Docs, s \in SourceTypes :
               /\ Accept(t, "patch", d, s, "patchRow")
               /\ UNCHANGED <<stores, bm25, disk, version, server>>
      BY <1>3 DEF PatchStart
    <2>1. JobTypeOK' /\ requests' \in Nat
      BY AcceptKeepsTypes DEF Steps
    <2> QED
      BY <2>1 DEF Accept, TypeOK, JobTypeOK
  <1>4. ASSUME NEW t \in Slots, ReindexStart(t) PROVE TypeOK'
    <2>1. "official" \in SourceTypes /\ "fetch" \in Steps
      BY DEF SourceTypes, Steps
    <2>2. JobTypeOK' /\ requests' \in Nat
      BY <1>4, <2>1, AcceptKeepsTypes DEF ReindexStart
    <2> QED
      BY <1>4, <2>2 DEF ReindexStart, Accept, TypeOK, JobTypeOK
  <1>5. ASSUME NEW t \in Slots, UploadInsertRow(t) PROVE TypeOK'
    <2>1. JobTypeOK'
      BY <1>5, GotoKeepsTypes DEF UploadInsertRow, Steps
    <2>2. job[t].src \in SourceTypes
      BY DEF TypeOK, Job
    <2> QED
      BY <1>5, <2>1, <2>2 DEF UploadInsertRow, TypeOK, JobTypeOK, Statuses, Live
  <1>6. ASSUME NEW t \in Slots, NEW pc \in Steps, Goto(t, pc),
               UNCHANGED <<src, r2, pg, bm25, disk, version, server>>,
               \/ \E d \in Docs, s \in Live : SetStatus(d, s)
               \/ UNCHANGED status,
               UNCHANGED env \/ (\E u \in Slots : Fault(u))
        PROVE TypeOK'
    <2>1. JobTypeOK'
      BY <1>6, GotoKeepsTypes
    <2> QED
      BY <1>6, <2>1 DEF TypeOK, JobTypeOK, SetStatus, Statuses, Fault
  <1>7. ASSUME NEW t \in Slots,
               \/ ProcessSetIndexing(t) \/ ProcessIngest(t)
               \/ ProcessSetIndexed(t) \/ ProcessFault(t) \/ PatchFlush(t)
        PROVE TypeOK'
    <2>1. At(t, "upload", job[t].pc) => job[t].doc \in Docs
      BY DEF TypeOK, At
    <2> QED
      BY <1>6, <1>7, <2>1
         DEF ProcessSetIndexing, ProcessIngest, ProcessSetIndexed, ProcessFault,
             PatchFlush, Steps, Live, At
  <1>8. ASSUME NEW t \in Slots, ProcessUpsert(t) PROVE TypeOK'
    <2>1. JobTypeOK'
      BY <1>8, GotoKeepsTypes DEF ProcessUpsert, Steps
    <2>2. job[t].src \in SourceTypes
      BY DEF TypeOK, Job
    <2> QED
      BY <1>8, <2>1, <2>2 DEF ProcessUpsert, TypeOK, JobTypeOK
  <1>9. ASSUME NEW t \in Slots, ProcessAddBm25(t) PROVE TypeOK'
    <2>1. JobTypeOK'
      BY <1>9, GotoKeepsTypes DEF ProcessAddBm25, Steps
    <2>2. job[t].src \in SourceTypes /\ job[t].doc \in Docs
      BY <1>9 DEF TypeOK, Job, ProcessAddBm25, At
    <2>3. bm25' \subseteq Chunk
      BY <1>9, <2>2 DEF ProcessAddBm25, AddChunks, Chunk, TypeOK
    <2> QED
      BY <1>9, <2>1, <2>3 DEF ProcessAddBm25, TypeOK, JobTypeOK
  <1>10. ASSUME NEW t \in Slots, ProcessSetError(t) PROVE TypeOK'
    <2>1. JobTypeOK' /\ server' \in {"down", "starting", "up"}
      BY <1>10, EndingKeepsTypes DEF ProcessSetError
    <2> QED
      BY <1>10, <2>1 DEF ProcessSetError, TypeOK, JobTypeOK, SetStatus, Statuses, Live
  <1>11. ASSUME NEW t \in Slots, DeletePg(t) \/ DeleteRow(t) PROVE TypeOK'
    <2>1. JobTypeOK'
      BY <1>11, GotoKeepsTypes DEF DeletePg, DeleteRow, Steps
    <2> QED
      BY <1>11, <2>1 DEF DeletePg, DeleteRow, TypeOK, JobTypeOK, Statuses
  <1>12. ASSUME NEW t \in Slots, DeleteBm25(t) \/ DeleteR2(t) PROVE TypeOK'
    <2>1. JobTypeOK'
      BY <1>12, GotoKeepsTypes DEF DeleteBm25, DeleteR2, Steps
    <2> QED
      BY <1>12, <2>1
         DEF DeleteBm25, DeleteR2, RemoveByDocumentId, Fault, TypeOK, JobTypeOK
  <1>13. ASSUME NEW t \in Slots, PatchRow(t) \/ PatchPg(t) PROVE TypeOK'
    <2>1. JobTypeOK'
      BY <1>13, GotoKeepsTypes DEF PatchRow, PatchPg, Steps
    <2>2. job[t].src \in SourceTypes
      BY DEF TypeOK, Job
    <2> QED
      BY <1>13, <2>1, <2>2 DEF PatchRow, PatchPg, TypeOK, JobTypeOK
  <1>14. ASSUME NEW t \in Slots, PatchBm25(t) PROVE TypeOK'
    <2>1. JobTypeOK'
      BY <1>14, GotoKeepsTypes DEF PatchBm25, Steps
    <2>2. job[t].src \in SourceTypes
      BY DEF TypeOK, Job
    <2>3. \A c \in Chunk : Relabelled(c, job[t].doc, job[t].src) \in Chunk
      BY <2>2 DEF Relabelled, Chunk
    <2>4. bm25' \subseteq Chunk
      BY <1>14, <2>3 DEF PatchBm25, TypeOK
    <2> QED
      BY <1>14, <2>1, <2>4 DEF PatchBm25, TypeOK, JobTypeOK
  <1>15. ASSUME NEW t \in Slots, RebuildFetch(t) PROVE TypeOK'
    <2>1. Fetched \subseteq Chunk
      BY FetchedIsChunks
    <2>2. JobTypeOK'
      BY <1>15, <2>1 DEF RebuildFetch, TypeOK, JobTypeOK, Job, Steps
    <2> QED
      BY <1>15, <2>2 DEF RebuildFetch, TypeOK, JobTypeOK
  <1>16. ASSUME NEW t \in Slots, RebuildBuild(t) PROVE TypeOK'
    <2>1. JobTypeOK' /\ job[t].snap \subseteq Chunk
      BY <1>16 DEF RebuildBuild, TypeOK, JobTypeOK, Job, Steps
    <2> QED
      BY <1>16, <2>1 DEF RebuildBuild, TypeOK, JobTypeOK
  <1>17. ASSUME NEW t \in Slots, BumpKbVersion(t) PROVE TypeOK'
    <2>1. version' \in Nat
      BY <1>17 DEF BumpKbVersion, TypeOK
    <2>2. JobTypeOK' /\ server' \in {"down", "starting", "up"}
      <3>1. CASE job[t].op = "patch"
        BY <1>17, <3>1, EndingKeepsTypes DEF BumpKbVersion
      <3>2. CASE job[t].op # "patch"
        BY <1>17, <2>1, <3>2 DEF BumpKbVersion, TypeOK, JobTypeOK, Job, Steps
      <3> QED
        BY <3>1, <3>2
    <2> QED
      BY <1>17, <2>1, <2>2 DEF BumpKbVersion, TypeOK, JobTypeOK
  <1>18. ASSUME NEW t \in Slots, BumpFails(t) \/ JobRaises(t) PROVE TypeOK'
    <2>1. JobTypeOK' /\ server' \in {"down", "starting", "up"}
      BY <1>18, EndingKeepsTypes DEF BumpFails, JobRaises
    <2> QED
      BY <1>18, <2>1 DEF BumpFails, JobRaises, Fault, TypeOK, JobTypeOK
  <1>19. ASSUME NEW t \in Slots, SaveToDisk(t) PROVE TypeOK'
    <2>1. JobTypeOK' /\ server' \in {"down", "starting", "up"}
      BY <1>19, EndingKeepsTypes DEF SaveToDisk
    <2>2. disk' \in [ver : Nat, chunks : SUBSET Chunk]
      BY <1>19 DEF SaveToDisk, TypeOK, Job
    <2> QED
      BY <1>19, <2>1, <2>2 DEF SaveToDisk, Fault, TypeOK, JobTypeOK
  <1>20. ASSUME NEW t \in Slots, Boot(t) PROVE TypeOK'
    <2>1. JobTypeOK'
      BY <1>20, StartRebuildKeepsTypes DEF Boot, BootRebuild, BootWithoutRedis
    <2> QED
      BY <1>20, <2>1 DEF Boot, BootRebuild, BootWithoutRedis, StartRebuild,
                         BootVersion, TypeOK, JobTypeOK
  <1>21. CASE BootFromDisk
    BY <1>21 DEF BootFromDisk, BootVersion, TypeOK
  <1>22. CASE ChatGetsNoVersion \/ ChatSetsVersionOne
    <2>1. settingOne' \in BOOLEAN
      BY <1>22, Zenon DEF ChatGetsNoVersion, ChatSetsVersionOne
    <2> QED
      BY <1>22, <2>1 DEF ChatGetsNoVersion, ChatSetsVersionOne, TypeOK
  <1>23. CASE Crash
    <2>1. JobTypeOK'
      BY <1>23, IdleJobIsJob DEF Crash, JobTypeOK
    <2>2. settingOne' \in BOOLEAN
      BY <1>23, Zenon DEF Crash
    <2>3. trust' \in {"clean", "rows", "suspect", "repaired"}
      BY <1>23 DEF Crash, TypeOK
    <2> QED
      BY <1>23, <2>1, <2>2, <2>3 DEF Crash, TypeOK, JobTypeOK
  <1>24. CASE Redeploy
    <2>1. JobTypeOK'
      BY <1>24, IdleJobIsJob DEF Redeploy, JobTypeOK
    <2>2. settingOne' \in BOOLEAN
      BY <1>24, Zenon DEF Redeploy
    <2>3. status' \in [Docs -> Statuses]
      BY <1>24 DEF Redeploy, TypeOK, Statuses, Live
    <2> QED
      BY <1>24, <2>1, <2>2, <2>3 DEF Redeploy, TypeOK, JobTypeOK
  <1>25. CASE UNCHANGED vars
    <2>1. UNCHANGED <<status, src, r2, pg, bm25, disk, version, server, job>>
      BY <1>25 DEF vars
    <2>2. UNCHANGED <<settingOne, trust, requests, crashes, faults, redisFaults>>
      BY <1>25 DEF vars
    <2> QED
      BY <2>1, <2>2 DEF TypeOK
  <1> QED
    BY <1>1, <1>2, <1>3, <1>4, <1>5, <1>7, <1>8, <1>9, <1>10, <1>11, <1>12,
       <1>13, <1>14, <1>15, <1>16, <1>17, <1>18, <1>19, <1>20, <1>21, <1>22,
       <1>23, <1>24, <1>25
       DEF Next, Start, Advance, Fail

\* The stores, the coroutines and the counters keep their types in every
\* reachable state, whatever the documents and the number of coroutines.
THEOREM TypeCorrect == Spec => []TypeOK
  BY TypeInit, TypeNext, PTL DEF Spec
-----------------------------------------------------------------------------
(* Chunks have rows.  The invariant is inductive given the types: only an   *)
(* insert makes chunks and it looks at the row; only a deletion unmakes the *)
(* row and it cascades.                                                    *)

\* Chunks are inserted only under a row, and a row that goes takes them along.
LEMMA ChunksNext == TypeOK /\ ChunksHaveRow /\ [Next]_vars => ChunksHaveRow'
  <1> SUFFICES ASSUME TypeOK, ChunksHaveRow, [Next]_vars PROVE ChunksHaveRow'
    OBVIOUS
  <1> USE DEF ChunksHaveRow, HasRow, stores
  <1>1. ASSUME UNCHANGED <<status, pg>> PROVE ChunksHaveRow'
    BY <1>1
  <1>2. ASSUME NEW t \in Slots, UploadInsertRow(t) PROVE ChunksHaveRow'
    BY <1>2 DEF UploadInsertRow, TypeOK, Live
  <1>3. ASSUME NEW t \in Slots,
               \/ ProcessSetIndexing(t) \/ ProcessSetIndexed(t)
               \/ ProcessSetError(t)
        PROVE ChunksHaveRow'
    BY <1>3 DEF ProcessSetIndexing, ProcessSetIndexed, ProcessSetError,
                SetStatus, TypeOK, Live
  <1>4. ASSUME NEW t \in Slots, ProcessUpsert(t) PROVE ChunksHaveRow'
    BY <1>4 DEF ProcessUpsert, TypeOK
  <1>5. ASSUME NEW t \in Slots, DeletePg(t) \/ DeleteRow(t) PROVE ChunksHaveRow'
    BY <1>5 DEF DeletePg, DeleteRow, TypeOK
  <1>6. ASSUME NEW t \in Slots, PatchPg(t) PROVE ChunksHaveRow'
    BY <1>6 DEF PatchPg, TypeOK
  <1>7. ASSUME NEW t \in Slots, Start(t) \/ Fail(t) \/ Boot(t)
        PROVE UNCHANGED <<status, pg>>
    BY <1>7 DEF Start, UploadStart, DeleteStart, PatchStart, ReindexStart, Fail,
                ProcessFault, BumpFails, JobRaises, Boot, BootRebuild,
                BootWithoutRedis, StartRebuild
  <1>8. ASSUME NEW t \in Slots,
               \/ ProcessIngest(t) \/ ProcessAddBm25(t) \/ DeleteBm25(t)
               \/ DeleteR2(t) \/ PatchRow(t) \/ PatchBm25(t) \/ PatchFlush(t)
               \/ RebuildFetch(t) \/ RebuildBuild(t) \/ BumpKbVersion(t)
               \/ SaveToDisk(t)
        PROVE UNCHANGED <<status, pg>>
    BY <1>8 DEF ProcessIngest, ProcessAddBm25, DeleteBm25, DeleteR2, PatchRow,
                PatchBm25, PatchFlush, RebuildFetch, RebuildBuild,
                BumpKbVersion, SaveToDisk
  <1>9. ASSUME BootFromDisk \/ ChatGetsNoVersion \/ ChatSetsVersionOne \/ Crash
        PROVE UNCHANGED <<status, pg>>
    BY <1>9 DEF BootFromDisk, ChatGetsNoVersion, ChatSetsVersionOne, Crash
  <1>10. Redeploy => ChunksHaveRow'
    BY DEF Redeploy
  <1>11. UNCHANGED vars => UNCHANGED <<status, pg>>
    BY DEF vars
  <1> QED
    BY <1>1, <1>2, <1>3, <1>4, <1>5, <1>6, <1>7, <1>8, <1>9, <1>10, <1>11
       DEF Next, Advance

\* No interleaving of indexing, deletions, patches, failing calls and crashes
\* leaves in pgvector a chunk whose document has no row.
THEOREM ChunksAlwaysHaveRow == Spec => []ChunksHaveRow
  <1>1. Init => ChunksHaveRow
    BY DEF Init, ChunksHaveRow
  <1>2. QED
    BY <1>1, ChunksNext, TypeCorrect, PTL DEF Spec

-----------------------------------------------------------------------------
(* The pickle that a restart accepts.  While no increment has failed, labels *)
(* lie at or below the version in Redis; so every change of the index, which *)
(* ends in an increment, makes the pickle stale, and only a save taken after *)
(* the last increment is accepted.                                           *)

\* No label, on disk or in a coroutine about to save, is from the future;
\* a running server has the version in Redis.
LabelsAreOld ==
    /\ disk.ver <= version
    /\ \A t \in Slots : job[t].pc = "save" => job[t].ver <= version
    /\ server # "down" \/ (\E t \in Slots : job[t].pc # "idle") => version >= 1
    /\ ~settingOne

LabelsInv == redisFaults = 0 => LabelsAreOld

\* A step of a running coroutine, or a request accepted by a running server,
\* that touches neither the pickle nor the version.
LabelsFrame(t) ==
    /\ UNCHANGED <<disk, version, settingOne, redisFaults>>
    /\ \A u \in Slots : u # t => job'[u] = job[u]
    /\ job'[t].pc # "save"
    /\ job[t].pc # "idle" \/ (server # "down" /\ server' = server)

\* One step per way of touching the pickle or the version.
LEMMA LabelsNext == TypeOK /\ LabelsInv /\ [Next]_vars => LabelsInv'
  <1> SUFFICES ASSUME TypeOK, LabelsInv, [Next]_vars PROVE LabelsInv'
    OBVIOUS
  <1> USE DEF stores, env
  <1>1. ASSUME NEW t \in Slots, LabelsFrame(t) PROVE LabelsInv'
    BY <1>1 DEF LabelsInv, LabelsAreOld, LabelsFrame
  <1>2. ASSUME NEW t \in Slots, Start(t) PROVE LabelsFrame(t)
    BY <1>2 DEF Start, UploadStart, DeleteStart, PatchStart, ReindexStart, Accept, NewJob,
                LabelsFrame, TypeOK
  <1>3. ASSUME NEW t \in Slots,
               \/ UploadInsertRow(t) \/ ProcessSetIndexing(t) \/ ProcessIngest(t)
               \/ ProcessUpsert(t) \/ ProcessAddBm25(t) \/ ProcessSetIndexed(t)
               \/ DeletePg(t) \/ DeleteBm25(t) \/ DeleteR2(t) \/ DeleteRow(t)
               \/ PatchRow(t) \/ PatchPg(t) \/ PatchBm25(t) \/ PatchFlush(t)
        PROVE LabelsFrame(t)
    BY <1>3 DEF UploadInsertRow, ProcessSetIndexing, ProcessIngest, ProcessUpsert,
                ProcessAddBm25, ProcessSetIndexed, DeletePg, DeleteBm25, DeleteR2, DeleteRow,
                PatchRow, PatchPg, PatchBm25, PatchFlush, Fault, At, Goto, LabelsFrame,
                TypeOK, Job
  <1>4. ASSUME NEW t \in Slots, RebuildFetch(t) \/ RebuildBuild(t) \/ ProcessSetError(t)
        PROVE LabelsFrame(t)
    BY <1>4, IdleJobIsJob
       DEF RebuildFetch, RebuildBuild, ProcessSetError, At, Return, LabelsFrame, TypeOK, Job
  <1>5. ASSUME NEW t \in Slots, ProcessFault(t) \/ JobRaises(t) PROVE LabelsFrame(t)
    <2>1. CASE ProcessFault(t)
      BY <2>1 DEF ProcessFault, Fault, Goto, LabelsFrame, TypeOK, Job
    <2>2. CASE JobRaises(t)
      BY <2>2, IdleJobIsJob DEF JobRaises, Fault, Raise, LabelsFrame, TypeOK
    <2> QED
      BY <1>5, <2>1, <2>2
  <1>6. ASSUME NEW t \in Slots, BumpFails(t) \/ BootWithoutRedis(t) PROVE LabelsInv'
    BY <1>6 DEF BumpFails, BootWithoutRedis, LabelsInv, TypeOK
  <1>7. ASSUME NEW t \in Slots, BumpKbVersion(t) PROVE LabelsInv'
    <2>1. /\ version' = version + 1 /\ UNCHANGED <<disk, settingOne, redisFaults>>
          /\ \A u \in Slots : job'[u].pc = "save" =>
                 job'[u].ver = version + 1 \/ job'[u] = job[u]
      BY <1>7, IdleJobIsJob DEF BumpKbVersion, Return, TypeOK, Job
    <2> QED
      BY <2>1 DEF LabelsInv, LabelsAreOld, TypeOK, Job
  <1>8. ASSUME NEW t \in Slots, SaveToDisk(t) PROVE LabelsInv'
    <2>1. /\ disk'.ver = disk.ver \/ disk'.ver = job[t].ver
          /\ job[t].pc = "save" /\ UNCHANGED <<version, settingOne, redisFaults>>
          /\ \A u \in Slots : job'[u].pc = "save" => job'[u] = job[u]
      BY <1>8, IdleJobIsJob DEF SaveToDisk, Fault, Return, TypeOK
    <2> QED
      BY <2>1 DEF LabelsInv, LabelsAreOld, TypeOK
  <1>9. ASSUME NEW t \in Slots, BootRebuild(t) PROVE LabelsInv'
    BY <1>9 DEF BootRebuild, StartRebuild, BootVersion, NewJob, LabelsInv, LabelsAreOld, TypeOK
  <1>10. CASE Crash \/ Redeploy
    BY <1>10, IdleJobIsJob DEF Crash, Redeploy, LabelsInv, LabelsAreOld
  <1>11. CASE \/ BootFromDisk \/ ChatGetsNoVersion \/ ChatSetsVersionOne
              \/ UNCHANGED vars
    BY <1>11 DEF BootFromDisk, BootVersion, ChatGetsNoVersion, ChatSetsVersionOne, vars,
                 LabelsInv, LabelsAreOld, TypeOK
  <1> QED
    BY <1>1, <1>2, <1>3, <1>4, <1>5, <1>6, <1>7, <1>8, <1>9, <1>10, <1>11
       DEF Next, Advance, Fail, Boot

\* Nothing the property speaks of changes, but for the steps of coroutines
\* between two steps that both have, or have not, changed the index.
PickleFrame(t) ==
    /\ UNCHANGED <<bm25, disk, version, server, faults, redisFaults>>
    /\ \A u \in Slots : u # t => job'[u] = job[u]
    /\ job[t].pc \in UnbumpedSteps => job'[t].pc \in UnbumpedSteps

\* One step per way of touching the index, the pickle or the version; the
\* rest are frame steps.
LEMMA PickleNext ==
    TypeOK /\ LabelsInv /\ AcceptedPickleIsCurrent /\ [Next]_vars => AcceptedPickleIsCurrent'
  <1> SUFFICES ASSUME TypeOK, LabelsInv, AcceptedPickleIsCurrent, [Next]_vars
               PROVE  AcceptedPickleIsCurrent'
    OBVIOUS
  <1> USE DEF stores, env
  <1>0. ASSUME NEW t \in Slots, PickleFrame(t) PROVE AcceptedPickleIsCurrent'
    BY <1>0 DEF AcceptedPickleIsCurrent, PickleFrame
  <1>1. ASSUME NEW t \in Slots, Start(t) PROVE PickleFrame(t)
    BY <1>1 DEF Start, UploadStart, DeleteStart, PatchStart, ReindexStart,
                Accept, NewJob, PickleFrame, UnbumpedSteps, TypeOK
  <1>2. ASSUME NEW t \in Slots,
               \/ UploadInsertRow(t) \/ ProcessSetIndexing(t)
               \/ ProcessIngest(t) \/ ProcessUpsert(t) \/ ProcessSetIndexed(t)
               \/ DeletePg(t) \/ DeleteRow(t)
               \/ PatchRow(t) \/ PatchPg(t) \/ PatchFlush(t)
        PROVE PickleFrame(t)
    BY <1>2 DEF UploadInsertRow, ProcessSetIndexing, ProcessIngest,
                ProcessUpsert, ProcessSetIndexed, DeletePg, DeleteRow,
                PatchRow, PatchPg, PatchFlush, At, Goto, PickleFrame,
                UnbumpedSteps, TypeOK, Job
  <1>3. ASSUME NEW t \in Slots, RebuildFetch(t) PROVE PickleFrame(t)
    BY <1>3 DEF RebuildFetch, PickleFrame, UnbumpedSteps, TypeOK, Job
  <1>4. ASSUME NEW t \in Slots, ProcessSetError(t) PROVE PickleFrame(t)
    BY <1>4, IdleJobIsJob
       DEF ProcessSetError, Return, At, PickleFrame, UnbumpedSteps, TypeOK, Job
  \* Steps that change the index end in a step that has not bumped.
  <1>5. ASSUME NEW t \in Slots,
               \/ ProcessAddBm25(t) \/ DeleteBm25(t) \/ PatchBm25(t)
               \/ RebuildBuild(t)
        PROVE AcceptedPickleIsCurrent'
    <2>1. job'[t].pc \in UnbumpedSteps
      BY <1>5 DEF ProcessAddBm25, DeleteBm25, PatchBm25, RebuildBuild, At, Goto,
                  UnbumpedSteps, TypeOK, Job
    <2> QED
      BY <2>1 DEF AcceptedPickleIsCurrent
  \* Failures are never undone.
  <1>6. ASSUME faults' = faults + 1 \/ redisFaults' = redisFaults + 1
        PROVE  AcceptedPickleIsCurrent'
    BY <1>6 DEF AcceptedPickleIsCurrent, TypeOK
  <1>7. ASSUME NEW t \in Slots, Fail(t) \/ BootWithoutRedis(t) PROVE AcceptedPickleIsCurrent'
    BY <1>6, <1>7 DEF Fail, ProcessFault, BumpFails, JobRaises, Fault, BootWithoutRedis
  <1>8. ASSUME NEW t \in Slots, DeleteR2(t) PROVE AcceptedPickleIsCurrent'
    <2>1. CASE Fault(t)
      BY <1>6, <2>1 DEF Fault
    <2>2. CASE UNCHANGED env
      <3>1. PickleFrame(t)
        BY <1>8, <2>2 DEF DeleteR2, At, Goto, PickleFrame, UnbumpedSteps, TypeOK, Job
      <3> QED
        BY <1>0, <3>1
    <2> QED
      BY <1>8, <2>1, <2>2 DEF DeleteR2
  <1>9. ASSUME NEW t \in Slots, BumpKbVersion(t) PROVE AcceptedPickleIsCurrent'
    BY <1>9 DEF BumpKbVersion, LabelsInv, LabelsAreOld, AcceptedPickleIsCurrent, TypeOK
  <1>10. ASSUME NEW t \in Slots, SaveToDisk(t) PROVE AcceptedPickleIsCurrent'
    <2>1. CASE Fault(t)
      BY <1>6, <2>1 DEF Fault
    <2>2. CASE disk' = [ver |-> job[t].ver, chunks |-> bm25]
      BY <1>10, <2>2 DEF SaveToDisk, AcceptedPickleIsCurrent
    <2> QED
      BY <1>10, <2>1, <2>2 DEF SaveToDisk
  <1>11. CASE \/ \E t \in Slots : BootRebuild(t)
              \/ Crash \/ Redeploy
    BY <1>11 DEF BootRebuild, StartRebuild, Crash, Redeploy, AcceptedPickleIsCurrent
  <1>12. CASE BootFromDisk \/ ChatGetsNoVersion \/ ChatSetsVersionOne \/ UNCHANGED vars
    BY <1>12 DEF BootFromDisk, ChatGetsNoVersion, ChatSetsVersionOne, vars, LabelsInv,
                 LabelsAreOld, AcceptedPickleIsCurrent
  <1> QED
    BY <1>0, <1>1, <1>2, <1>3, <1>4, <1>5, <1>7, <1>8, <1>9, <1>10, <1>11, <1>12
       DEF Next, Advance, Boot

LEMMA LabelsAlways == Spec => []LabelsInv
  <1>1. Init => LabelsInv
    BY IdleJobIsJob DEF Init, LabelsInv, LabelsAreOld
  <1>2. QED
    BY <1>1, LabelsNext, TypeCorrect, PTL DEF Spec

\* A pickle labelled with the current version is the running index, in every
\* interleaving of saves and changes and across crashes, while no call fails.
THEOREM AcceptedPickle == Spec => []AcceptedPickleIsCurrent
  <1>1. Init => AcceptedPickleIsCurrent
    BY DEF Init, AcceptedPickleIsCurrent
  <1>2. QED
    BY <1>1, PickleNext, LabelsAlways, TypeCorrect, PTL DEF Spec

-----------------------------------------------------------------------------
(* The coroutines: which of them run together.                             *)

\* UPDATE documents SET status touches one row, and none that is not there.
LEMMA StatusSet ==
    ASSUME TypeOK, NEW d \in Docs, NEW s \in Live, SetStatus(d, s)
    PROVE  /\ \A e \in Docs : e # d => status'[e] = status[e]
           /\ HasRow(d) => status'[d] = s
           /\ ~HasRow(d) => status'[d] = status[d]
           /\ \A e \in Docs : HasRow(e)' <=> HasRow(e)
           /\ \A e \in Docs : status'[e] = "unborn" <=> status[e] = "unborn"
  BY DEF SetStatus, HasRow, TypeOK, Live

\* A server that is not up runs one start-up at most, and no request; a slot
\* without a coroutine is idle.
StartUp ==
    /\ server # "up" => \A t \in Slots : job[t].op \in {"none", "boot"}
    /\ server # "starting" => \A t \in Slots : job[t].op # "boot"
    /\ \A t, u \in Slots : job[t].op = "boot" /\ job[u].op = "boot" => t = u
    /\ \A t \in Slots : job[t].op = "none" <=> job[t].pc = "idle"

LEMMA StartUpNext == TypeOK /\ StartUp /\ [Next]_vars => StartUp'
  <1> SUFFICES ASSUME TypeOK, StartUp, [Next]_vars PROVE StartUp'
    OBVIOUS
  <1>1. ASSUME NEW t \in Slots, UNCHANGED server,
               \A u \in Slots : u # t => job'[u] = job[u], job'[t].op = job[t].op,
               job[t].pc # "idle", job'[t].pc # "idle"
        PROVE StartUp'
    BY <1>1 DEF StartUp
  <1>2. ASSUME NEW t \in Slots, Start(t) PROVE StartUp'
    BY <1>2 DEF Start, UploadStart, DeleteStart, PatchStart, ReindexStart, Accept, NewJob,
                StartUp, OpsAssumption, TypeOK
  <1>3. ASSUME NEW t \in Slots, Return(t) \/ Raise(t) PROVE StartUp'
    BY <1>3 DEF Return, Raise, IdleJob, NewJob, StartUp, TypeOK
  <1>4. ASSUME NEW t \in Slots, Advance(t) PROVE StartUp'
    BY <1>1, <1>3, <1>4
       DEF Advance, UploadInsertRow, ProcessSetIndexing, ProcessIngest, ProcessUpsert,
           ProcessAddBm25, ProcessSetIndexed, ProcessSetError, DeletePg, DeleteBm25,
           DeleteR2, DeleteRow, PatchRow, PatchPg, PatchBm25, PatchFlush, RebuildFetch,
           RebuildBuild, BumpKbVersion, SaveToDisk, At, Goto, TypeOK, Job
  <1>5. ASSUME NEW t \in Slots, Fail(t) PROVE StartUp'
    BY <1>1, <1>3, <1>5 DEF Fail, ProcessFault, BumpFails, JobRaises, Goto, TypeOK, Job
  <1>6. ASSUME NEW t \in Slots, Boot(t) PROVE StartUp'
    BY <1>6 DEF Boot, BootRebuild, BootWithoutRedis, StartRebuild, NewJob, StartUp, TypeOK
  <1>7. CASE Crash \/ Redeploy
    BY <1>7 DEF Crash, Redeploy, IdleJob, NewJob, StartUp
  <1>8. CASE BootFromDisk \/ ChatGetsNoVersion \/ ChatSetsVersionOne \/ UNCHANGED vars
    BY <1>8 DEF BootFromDisk, ChatGetsNoVersion, ChatSetsVersionOne, vars, StartUp
  <1> QED
    BY <1>2, <1>4, <1>5, <1>6, <1>7, <1>8 DEF Next

\* The steps of an upload before its chunks are inserted.
BeforeInsert == {"insertRow", "setIndexing", "ingest", "upsert"}

\* A document has one upload, since its file or its row is known from the start;
\* it has no chunks before that upload inserts them.  Who deletes a document
\* found its row.
OneUpload ==
    /\ \A t \in Slots : job[t].op = "upload" =>
          /\ job[t].doc \in r2 \/ status[job[t].doc] # "unborn"
          /\ job[t].pc = "insertRow" => status[job[t].doc] = "unborn"
          /\ job[t].pc \in BeforeInsert => pg[job[t].doc] = "none"
    /\ \A t, u \in Slots :
          job[t].op = "upload" /\ job[u].op = "upload" /\ job[t].doc = job[u].doc => t = u
    /\ \A t \in Slots : job[t].op = "delete" => status[job[t].doc] # "unborn"

\* The steps of one coroutine that are none of an upload's before the INSERT.
OneUploadFrame(t) ==
    /\ \A u \in Slots : u # t => job'[u] = job[u]
    /\ \/ job'[t].op \notin {"upload", "delete"}
       \/ /\ job'[t].op = job[t].op /\ job'[t].doc = job[t].doc
          /\ job'[t].op = "upload" =>
                /\ job'[t].pc # "insertRow"
                /\ job'[t].pc \in BeforeInsert => job[t].pc \in BeforeInsert
    /\ \A d \in Docs :
          /\ status'[d] = "unborn" <=> status[d] = "unborn"
          /\ pg[d] = "none" => pg'[d] = "none"
          /\ d \in r2 => d \in r2' \/ status[d] # "unborn"

LEMMA OneUploadFrameKeeps ==
    ASSUME TypeOK, OneUpload, NEW t \in Slots, OneUploadFrame(t)
    PROVE  OneUpload'
  <1>1. \A u \in Slots : job'[u].op \in {"upload", "delete"} =>
            job'[u].op = job[u].op /\ job'[u].doc = job[u].doc /\ job[u].doc \in Docs
    BY DEF OneUploadFrame, TypeOK
  <1>2. \A u \in Slots : job'[u].op = "upload" =>
            /\ job'[u].pc = "insertRow" => job[u].pc = "insertRow"
            /\ job'[u].pc \in BeforeInsert => job[u].pc \in BeforeInsert
    BY DEF OneUploadFrame
  <1> QED
    BY <1>1, <1>2 DEF OneUpload, OneUploadFrame

LEMMA OneUploadNext == TypeOK /\ ChunksHaveRow /\ OneUpload /\ [Next]_vars => OneUpload'
  <1> SUFFICES ASSUME TypeOK, ChunksHaveRow, OneUpload, [Next]_vars PROVE OneUpload'
    OBVIOUS
  <1> USE DEF stores, env
  <1>1. ASSUME NEW t \in Slots, UploadStart(t) PROVE OneUpload'
    <2>1. PICK d \in Docs, s \in SourceTypes :
              /\ status[d] = "unborn" /\ d \notin r2
              /\ Accept(t, "upload", d, s, "insertRow")
              /\ r2' = r2 \cup {d} /\ UNCHANGED <<status, pg>>
      BY <1>1 DEF UploadStart
    <2>2. /\ job'[t].op = "upload" /\ job'[t].doc = d /\ job'[t].pc = "insertRow"
          /\ \A u \in Slots : u # t => job'[u] = job[u]
      BY <2>1 DEF Accept, NewJob, TypeOK
    <2>3. pg[d] = "none"
      BY <2>1 DEF ChunksHaveRow, HasRow, Live
    <2> QED
      BY <2>1, <2>2, <2>3 DEF OneUpload
  <1>2. ASSUME NEW t \in Slots, DeleteStart(t) PROVE OneUpload'
    <2>1. PICK d \in Docs :
              HasRow(d) /\ Accept(t, "delete", d, src[d], "delPg") /\ UNCHANGED <<status, r2, pg>>
      BY <1>2 DEF DeleteStart
    <2>2. /\ job'[t].op = "delete" /\ job'[t].doc = d
          /\ \A u \in Slots : u # t => job'[u] = job[u]
      BY <2>1 DEF Accept, NewJob, TypeOK
    <2> QED
      BY <2>1, <2>2 DEF OneUpload, HasRow, Live
  <1>3. ASSUME NEW t \in Slots, PatchStart(t) \/ ReindexStart(t) PROVE OneUploadFrame(t)
    BY <1>3 DEF PatchStart, ReindexStart, Accept, NewJob, OneUploadFrame, TypeOK
  <1>4. ASSUME NEW t \in Slots, UploadInsertRow(t) PROVE OneUpload'
    <2>1. /\ job[t].op = "upload" /\ job[t].pc = "insertRow" /\ job[t].doc \in Docs
          /\ UNCHANGED <<r2, pg>>
          /\ \A u \in Slots : job'[u].op = job[u].op /\ job'[u].doc = job[u].doc
          /\ \A u \in Slots : u # t => job'[u] = job[u]
          /\ job'[t].pc = "setIndexing"
      BY <1>4 DEF UploadInsertRow, At, Goto, TypeOK, Job
    <2>2. /\ status'[job[t].doc] = "pending"
          /\ \A e \in Docs : e # job[t].doc => status'[e] = status[e]
      BY <1>4, <2>1 DEF UploadInsertRow, TypeOK
    <2>3. \A u \in Slots : job[u].op \in {"upload", "delete"} => job[u].doc \in Docs
      BY DEF TypeOK
    <2> QED
      BY <2>1, <2>2, <2>3 DEF OneUpload, BeforeInsert
  <1>5. ASSUME NEW t \in Slots,
               ProcessSetIndexing(t) \/ ProcessSetIndexed(t) \/ ProcessSetError(t)
        PROVE OneUploadFrame(t)
    <2>1. CASE ProcessSetIndexing(t)
      BY <2>1, StatusSet DEF ProcessSetIndexing, At, Goto, OneUploadFrame, BeforeInsert,
                             TypeOK, Job, Live
    <2>2. CASE ProcessSetIndexed(t)
      BY <2>2, StatusSet DEF ProcessSetIndexed, At, Goto, OneUploadFrame, BeforeInsert,
                             TypeOK, Job, Live
    <2>3. CASE ProcessSetError(t)
      BY <2>3, StatusSet DEF ProcessSetError, At, Return, IdleJob, NewJob, OneUploadFrame,
                             TypeOK, Live
    <2> QED
      BY <1>5, <2>1, <2>2, <2>3
  <1>6. ASSUME NEW t \in Slots, ProcessUpsert(t) PROVE OneUpload'
    <2>1. /\ job[t].op = "upload" /\ job[t].doc \in Docs
          /\ UNCHANGED <<status, r2>>
          /\ \A u \in Slots : job'[u].op = job[u].op /\ job'[u].doc = job[u].doc
          /\ \A u \in Slots : u # t => job'[u] = job[u]
          /\ job'[t].pc \notin BeforeInsert
          /\ \A e \in Docs : e # job[t].doc => pg'[e] = pg[e]
      BY <1>6 DEF ProcessUpsert, At, Goto, BeforeInsert, TypeOK, Job
    <2>2. \A u \in Slots : job[u].op = "upload" => job[u].doc \in Docs
      BY DEF TypeOK
    <2> QED
      BY <2>1, <2>2 DEF OneUpload, BeforeInsert
  <1>7. ASSUME NEW t \in Slots, ProcessIngest(t) \/ ProcessAddBm25(t) PROVE OneUploadFrame(t)
    BY <1>7 DEF ProcessIngest, ProcessAddBm25, At, Goto, OneUploadFrame, BeforeInsert, TypeOK, Job
  <1>8. ASSUME NEW t \in Slots,
               \/ DeletePg(t) \/ DeleteBm25(t) \/ PatchRow(t) \/ PatchPg(t)
               \/ PatchBm25(t) \/ PatchFlush(t)
        PROVE OneUploadFrame(t)
    BY <1>8 DEF DeletePg, DeleteBm25, PatchRow, PatchPg, PatchBm25, PatchFlush,
                At, Goto, OneUploadFrame, TypeOK, Job
  <1>9. ASSUME NEW t \in Slots, DeleteR2(t) PROVE OneUploadFrame(t)
    <2>1. /\ job[t].op = "delete" /\ UNCHANGED <<status, pg>>
          /\ r2 \ {job[t].doc} \subseteq r2'
          /\ \A u \in Slots : u # t => job'[u] = job[u]
          /\ job'[t].op = "delete" /\ job'[t].doc = job[t].doc
      BY <1>9 DEF DeleteR2, At, Goto, TypeOK, Job
    <2> QED
      BY <2>1 DEF OneUpload, OneUploadFrame
  <1>10. ASSUME NEW t \in Slots, DeleteRow(t) PROVE OneUploadFrame(t)
    <2>1. /\ job[t].op = "delete" /\ job[t].doc \in Docs /\ UNCHANGED r2
          /\ \A u \in Slots : u # t => job'[u] = job[u]
          /\ job'[t].op = "delete" /\ job'[t].doc = job[t].doc
      BY <1>10 DEF DeleteRow, At, Goto, TypeOK, Job
    <2>2. \A e \in Docs : status'[e] = "unborn" <=> status[e] = "unborn"
      BY <1>10, <2>1 DEF DeleteRow, HasRow, Live, TypeOK
    <2>3. \A e \in Docs : pg[e] = "none" => pg'[e] = "none"
      BY <1>10, <2>1 DEF DeleteRow, TypeOK
    <2> QED
      BY <2>1, <2>2, <2>3 DEF OneUploadFrame
  <1>11. ASSUME NEW t \in Slots, RebuildFetch(t) \/ RebuildBuild(t) PROVE OneUploadFrame(t)
    BY <1>11 DEF RebuildFetch, RebuildBuild, OneUploadFrame, BeforeInsert, TypeOK, Job
  <1>12. ASSUME NEW t \in Slots, BumpKbVersion(t) \/ SaveToDisk(t) PROVE OneUploadFrame(t)
    BY <1>12 DEF BumpKbVersion, SaveToDisk, Return, IdleJob, NewJob, OneUploadFrame,
                 BeforeInsert, TypeOK, Job
  <1>13. ASSUME NEW t \in Slots, Fail(t) PROVE OneUploadFrame(t)
    BY <1>13 DEF Fail, ProcessFault, BumpFails, JobRaises, Goto, Return, Raise, IdleJob, NewJob,
                 OneUploadFrame, BeforeInsert, TypeOK, Job
  <1>14. ASSUME NEW t \in Slots, Boot(t) PROVE OneUploadFrame(t)
    BY <1>14 DEF Boot, BootRebuild, BootWithoutRedis, StartRebuild, NewJob, OneUploadFrame, TypeOK
  <1>15. CASE Crash \/ Redeploy
    BY <1>15 DEF Crash, Redeploy, IdleJob, NewJob, OneUpload
  <1>16. CASE BootFromDisk \/ ChatGetsNoVersion \/ ChatSetsVersionOne \/ UNCHANGED vars
    <2>1. UNCHANGED <<status, r2, pg, job>>
      BY <1>16 DEF BootFromDisk, ChatGetsNoVersion, ChatSetsVersionOne, vars
    <2> QED
      BY <2>1 DEF OneUpload
  <1> QED
    BY <1>1, <1>2, <1>3, <1>4, <1>5, <1>6, <1>7, <1>8, <1>9, <1>10, <1>11, <1>12, <1>13,
       <1>14, <1>15, <1>16, OneUploadFrameKeeps DEF Next, Start, Advance

\* What the rest of the proofs take for granted.
Course == TypeOK /\ ChunksHaveRow /\ StartUp /\ OneUpload

LEMMA CourseAlways == Spec => []Course
  <1>1. Init => StartUp /\ OneUpload
    BY DEF Init, StartUp, OneUpload, IdleJob, NewJob
  <1>2. QED
    BY <1>1, StartUpNext, OneUploadNext, TypeCorrect, ChunksAlwaysHaveRow, PTL
       DEF Spec, Course

-----------------------------------------------------------------------------
(* Indexed documents have chunks, as long as no call has failed and the     *)
(* process has not died.  Two coroutines may be at work on a document: the   *)
(* one that indexes it, and one that deletes it.                             *)

Undisturbed == faults = 0 /\ crashes = 0

\* The chunks of d are there, or a deletion has taken them and will take the row.
ChunksOrDeletion(d) == pg[d] # "none" \/ \E t \in Slots : Deleting(t, d)

\* Between the INSERT of the chunks and the UPDATE of the row.
InsertedHasChunks ==
    \A t \in Slots :
        /\ job[t].op = "upload" /\ job[t].pc \in {"addBm25", "setIndexed"}
        /\ HasRow(job[t].doc)
        => ChunksOrDeletion(job[t].doc)

IndexedOrDeletion == \A d \in Docs : status[d] = "indexed" => ChunksOrDeletion(d)

IndexedInv == Undisturbed => InsertedHasChunks /\ IndexedOrDeletion

\* A step of one coroutine that leaves rows, files and chunks alone and does not
\* reach the steps the invariant speaks of.
IndexedFrame(t) ==
    /\ UNCHANGED <<status, r2, pg>>
    /\ crashes' = crashes
    /\ \A u \in Slots : u # t => job'[u] = job[u]
    /\ \A d \in Docs : Deleting(t, d) => Deleting(t, d)'
    /\ \/ job'[t].op \notin {"upload", "delete"}
       \/ /\ job'[t].op = job[t].op /\ job'[t].doc = job[t].doc
          /\ job'[t].pc \in {"addBm25", "setIndexed"} => job[t].pc \in {"addBm25", "setIndexed"}

\* Such a step keeps the invariant.
LEMMA IndexedFrameKeeps ==
    ASSUME TypeOK, IndexedInv, Undisturbed, NEW t \in Slots, IndexedFrame(t)
    PROVE  IndexedInv'
  <1>1. \A d \in Docs : ChunksOrDeletion(d) => ChunksOrDeletion(d)'
    BY DEF ChunksOrDeletion, Deleting, IndexedFrame
  <1>3. InsertedHasChunks'
    BY <1>1 DEF IndexedInv, IndexedFrame, InsertedHasChunks, HasRow, TypeOK
  <1>4. IndexedOrDeletion'
    BY <1>1 DEF IndexedInv, IndexedFrame, IndexedOrDeletion
  <1> QED
    BY <1>3, <1>4 DEF IndexedInv

\* Failures and crashes are never undone.
LEMMA DisturbedStays ==
    ASSUME TypeOK, faults' = faults + 1 \/ crashes' = crashes + 1
    PROVE  IndexedInv'
  BY DEF IndexedInv, Undisturbed, TypeOK

\* A step of coroutine t that changes the status of its document, to another
\* than "indexed" unless there are chunks, and nothing else the invariant
\* speaks of, except that it may end.
LEMMA StatusKeeps ==
    ASSUME TypeOK, IndexedInv, Undisturbed, NEW t \in Slots, job[t].op = "upload",
           NEW s \in Live, SetStatus(job[t].doc, s), UNCHANGED <<r2, pg>>,
           s = "indexed" => job[t].pc = "setIndexed",
           \A u \in Slots : u # t => job'[u] = job[u],
           \/ job'[t].op = "none"
           \/ /\ job'[t].op = "upload" /\ job'[t].doc = job[t].doc
              /\ job'[t].pc \notin {"addBm25", "setIndexed"}
    PROVE  IndexedInv'
  <1> DEFINE d == job[t].doc
  <1>0. d \in Docs /\ \A e \in Docs : status[e] \in Statuses
    BY DEF TypeOK
  <1>1. \A e \in Docs : ChunksOrDeletion(e) => ChunksOrDeletion(e)'
    BY DEF ChunksOrDeletion, Deleting
  <1>2. /\ \A e \in Docs : e # d => status'[e] = status[e]
        /\ HasRow(d) => status'[d] = s
        /\ ~HasRow(d) => status'[d] = status[d]
        /\ \A e \in Docs : HasRow(e)' <=> HasRow(e)
    BY <1>0, StatusSet
  <1>5. InsertedHasChunks'
    <2> SUFFICES ASSUME NEW u \in Slots, job'[u].op = "upload",
                        job'[u].pc \in {"addBm25", "setIndexed"}, HasRow(job[u].doc)'
                 PROVE  ChunksOrDeletion(job[u].doc)'
      BY DEF InsertedHasChunks
    <2>1. u # t /\ job'[u] = job[u]
      OBVIOUS
    <2>2. job[u].doc \in Docs
      BY <2>1 DEF TypeOK
    <2> QED
      BY <1>1, <1>2, <2>1, <2>2 DEF IndexedInv, InsertedHasChunks
  <1>6. IndexedOrDeletion'
    <2> SUFFICES ASSUME NEW e \in Docs, status'[e] = "indexed" PROVE ChunksOrDeletion(e)'
      BY DEF IndexedOrDeletion
    <2>1. CASE status[e] = "indexed"
      BY <1>1, <2>1 DEF IndexedInv, IndexedOrDeletion
    <2>2. CASE status[e] # "indexed"
      <3>1. e = d /\ s = "indexed" /\ HasRow(d)
        BY <1>2, <2>2
      <3> QED
        BY <1>1, <3>1 DEF IndexedInv, InsertedHasChunks
    <2> QED
      BY <2>1, <2>2
  <1> QED
    BY <1>5, <1>6 DEF IndexedInv

LEMMA IndexedNext == Course /\ IndexedInv /\ [Next]_vars => IndexedInv'
  <1> SUFFICES ASSUME TypeOK, StartUp, OneUpload, IndexedInv, [Next]_vars PROVE IndexedInv'
    BY DEF Course
  <1> USE DEF stores, env
  <1>0. CASE ~Undisturbed
    <2>1. faults' \in {faults, faults + 1} /\ crashes' \in {crashes, crashes + 1}
      <3>1. ASSUME NEW t \in Slots, Start(t) \/ Fail(t) \/ Boot(t)
            PROVE faults' \in {faults, faults + 1} /\ crashes' = crashes
        BY <3>1 DEF Start, UploadStart, DeleteStart, PatchStart, ReindexStart, Accept,
                    Fail, ProcessFault, BumpFails, JobRaises, Fault, Boot, BootRebuild,
                    BootWithoutRedis
      <3>2. ASSUME NEW t \in Slots, Advance(t)
            PROVE faults' \in {faults, faults + 1} /\ crashes' = crashes
        BY <3>2 DEF Advance, UploadInsertRow, ProcessSetIndexing, ProcessIngest, ProcessUpsert,
                    ProcessAddBm25, ProcessSetIndexed, ProcessSetError, DeletePg, DeleteBm25,
                    DeleteR2, DeleteRow, PatchRow, PatchPg, PatchBm25, PatchFlush, RebuildFetch,
                    RebuildBuild, BumpKbVersion, SaveToDisk, Fault
      <3>3. CASE BootFromDisk \/ ChatGetsNoVersion \/ ChatSetsVersionOne \/ Crash \/ Redeploy
        BY <3>3 DEF BootFromDisk, ChatGetsNoVersion, ChatSetsVersionOne, Crash, Redeploy
      <3> QED
        BY <3>1, <3>2, <3>3 DEF Next, vars
    <2> QED
      BY <1>0, <2>1 DEF IndexedInv, Undisturbed, TypeOK
  <1> SUFFICES ASSUME Undisturbed PROVE IndexedInv'
    BY <1>0
  <1>1. ASSUME NEW t \in Slots, UploadStart(t) PROVE IndexedInv'
    <2>1. PICK d \in Docs, s \in SourceTypes :
              /\ status[d] = "unborn" /\ d \notin r2
              /\ Accept(t, "upload", d, s, "insertRow")
              /\ r2' = r2 \cup {d} /\ UNCHANGED <<status, pg>>
      BY <1>1 DEF UploadStart
    <2>2. /\ job'[t].op = "upload" /\ job'[t].doc = d /\ job'[t].pc = "insertRow"
          /\ job[t].pc = "idle"
          /\ \A u \in Slots : u # t => job'[u] = job[u]
      BY <2>1 DEF Accept, NewJob, TypeOK
    <2>3. \A e \in Docs : ChunksOrDeletion(e) => ChunksOrDeletion(e)'
      BY <2>1, <2>2 DEF ChunksOrDeletion, Deleting
    <2>5. InsertedHasChunks'
      BY <2>1, <2>2, <2>3 DEF IndexedInv, InsertedHasChunks, HasRow, TypeOK
    <2>6. IndexedOrDeletion'
      BY <2>1, <2>3 DEF IndexedInv, IndexedOrDeletion
    <2> QED
      BY <2>5, <2>6 DEF IndexedInv
  <1>2. ASSUME NEW t \in Slots, DeleteStart(t) PROVE IndexedInv'
    <2>1. PICK d \in Docs :
              HasRow(d) /\ Accept(t, "delete", d, src[d], "delPg") /\ UNCHANGED <<status, r2, pg>>
      BY <1>2 DEF DeleteStart
    <2>2. /\ job'[t].op = "delete" /\ job'[t].doc = d /\ job[t].pc = "idle"
          /\ \A u \in Slots : u # t => job'[u] = job[u]
      BY <2>1 DEF Accept, NewJob, TypeOK
    <2>3. \A e \in Docs : ChunksOrDeletion(e) => ChunksOrDeletion(e)'
      BY <2>1, <2>2 DEF ChunksOrDeletion, Deleting
    <2>5. InsertedHasChunks'
      BY <2>1, <2>2, <2>3 DEF IndexedInv, InsertedHasChunks, HasRow, TypeOK
    <2>6. IndexedOrDeletion'
      BY <2>1, <2>3 DEF IndexedInv, IndexedOrDeletion
    <2> QED
      BY <2>5, <2>6 DEF IndexedInv
  <1>3. ASSUME NEW t \in Slots, PatchStart(t) \/ ReindexStart(t) PROVE IndexedFrame(t)
    BY <1>3 DEF PatchStart, ReindexStart, Accept, NewJob, IndexedFrame, Deleting, TypeOK
  <1>4. ASSUME NEW t \in Slots, UploadInsertRow(t) PROVE IndexedInv'
    <2>1. /\ job[t].op = "upload" /\ job[t].doc \in Docs
          /\ status' = [status EXCEPT ![job[t].doc] = "pending"]
          /\ UNCHANGED <<r2, pg>>
          /\ job'[t] = [job[t] EXCEPT !.pc = "setIndexing"]
          /\ \A u \in Slots : u # t => job'[u] = job[u]
      BY <1>4 DEF UploadInsertRow, At, Goto, TypeOK
    <2>2. job'[t].op = "upload" /\ job'[t].doc = job[t].doc /\ job'[t].pc = "setIndexing"
      BY <2>1 DEF TypeOK, Job
    <2>3. \A e \in Docs : ChunksOrDeletion(e) => ChunksOrDeletion(e)'
      BY <2>1, <2>2 DEF ChunksOrDeletion, Deleting
    <2>4. /\ status'[job[t].doc] = "pending"
          /\ \A e \in Docs : e # job[t].doc => status'[e] = status[e]
      BY <2>1 DEF TypeOK
    <2>6. InsertedHasChunks'
      <3> SUFFICES ASSUME NEW u \in Slots, job'[u].op = "upload",
                          job'[u].pc \in {"addBm25", "setIndexed"}, HasRow(job[u].doc)'
                   PROVE  ChunksOrDeletion(job[u].doc)'
        BY DEF InsertedHasChunks
      <3>1. u # t /\ job'[u] = job[u]
        BY <2>1, <2>2
      <3>2. job[u].doc \in Docs /\ job[u].doc # job[t].doc
        BY <2>1, <3>1 DEF OneUpload, TypeOK
      <3> QED
        BY <2>3, <2>4, <3>1, <3>2 DEF IndexedInv, InsertedHasChunks, HasRow
    <2>7. IndexedOrDeletion'
      BY <2>3, <2>4 DEF IndexedInv, IndexedOrDeletion
    <2> QED
      BY <2>6, <2>7 DEF IndexedInv
  <1>5. ASSUME NEW t \in Slots,
               ProcessSetIndexing(t) \/ ProcessSetIndexed(t) \/ ProcessSetError(t)
        PROVE IndexedInv'
    <2>1. CASE ProcessSetIndexing(t)
      BY <2>1, StatusKeeps DEF ProcessSetIndexing, At, Goto, TypeOK, Job, Live
    <2>2. CASE ProcessSetIndexed(t)
      BY <2>2, StatusKeeps DEF ProcessSetIndexed, At, Goto, TypeOK, Job, Live
    <2>3. CASE ProcessSetError(t)
      BY <2>3, StatusKeeps DEF ProcessSetError, At, Return, IdleJob, NewJob, TypeOK, Live
    <2> QED
      BY <1>5, <2>1, <2>2, <2>3
  <1>6. ASSUME NEW t \in Slots, ProcessUpsert(t) PROVE IndexedInv'
    <2>1. /\ job[t].op = "upload" /\ job[t].doc \in Docs /\ UNCHANGED <<status, r2>>
          /\ \A u \in Slots : u # t => job'[u] = job[u]
          /\ job'[t].op = "upload" /\ job'[t].doc = job[t].doc
          /\ HasRow(job[t].doc) => pg'[job[t].doc] # "none"
          /\ \A e \in Docs : pg[e] # "none" => pg'[e] # "none"
          /\ crashes' = crashes
      BY <1>6 DEF ProcessUpsert, At, Goto, TypeOK, Job, SourceTypes
    <2>2. \A e \in Docs : ChunksOrDeletion(e) => ChunksOrDeletion(e)'
      BY <2>1 DEF ChunksOrDeletion, Deleting
    <2>4. InsertedHasChunks'
      BY <2>1, <2>2 DEF IndexedInv, InsertedHasChunks, ChunksOrDeletion, HasRow, TypeOK
    <2>5. IndexedOrDeletion'
      BY <2>1, <2>2 DEF IndexedInv, IndexedOrDeletion
    <2> QED
      BY <2>4, <2>5 DEF IndexedInv
  \* The chunks go; the deletion that took them has still the row to take.
  <1>7. ASSUME NEW t \in Slots, DeletePg(t) PROVE IndexedInv'
    <2>1. /\ job[t].op = "delete" /\ job[t].doc \in Docs /\ UNCHANGED <<status, r2>>
          /\ \A u \in Slots : u # t => job'[u] = job[u]
          /\ job[t].pc = "delPg"
          /\ job'[t].op = "delete" /\ job'[t].doc = job[t].doc /\ job'[t].pc = "delBm25"
          /\ \A e \in Docs : e # job[t].doc => pg'[e] = pg[e]
      BY <1>7 DEF DeletePg, At, Goto, TypeOK, Job
    <2>2. \A e \in Docs : ChunksOrDeletion(e) => ChunksOrDeletion(e)'
      BY <2>1 DEF ChunksOrDeletion, Deleting
    <2>4. InsertedHasChunks'
      BY <2>1, <2>2 DEF IndexedInv, InsertedHasChunks, HasRow, TypeOK
    <2>5. IndexedOrDeletion'
      BY <2>1, <2>2 DEF IndexedInv, IndexedOrDeletion
    <2> QED
      BY <2>4, <2>5 DEF IndexedInv
  <1>8. ASSUME NEW t \in Slots, DeleteR2(t) PROVE IndexedInv'
    <2>1. CASE Fault(t)
      BY <2>1, DisturbedStays DEF Fault
    <2>2. CASE r2' = r2 \ {job[t].doc}
      <3>1. /\ job[t].op = "delete" /\ job[t].doc \in Docs /\ UNCHANGED <<status, pg>>
            /\ \A u \in Slots : u # t => job'[u] = job[u]
            /\ job'[t].op = "delete" /\ job'[t].doc = job[t].doc /\ job'[t].pc = "delRow"
        BY <1>8 DEF DeleteR2, At, Goto, TypeOK, Job
      <3>2. \A e \in Docs : ChunksOrDeletion(e) => ChunksOrDeletion(e)'
        BY <3>1 DEF ChunksOrDeletion, Deleting
      <3>4. InsertedHasChunks'
        BY <3>1, <3>2 DEF IndexedInv, InsertedHasChunks, HasRow, TypeOK
      <3>5. IndexedOrDeletion'
        BY <3>1, <3>2 DEF IndexedInv, IndexedOrDeletion
      <3> QED
        BY <3>4, <3>5 DEF IndexedInv
    <2> QED
      BY <1>8, <2>1, <2>2 DEF DeleteR2
  <1>9. ASSUME NEW t \in Slots, DeleteRow(t) PROVE IndexedInv'
    <2>1. /\ job[t].op = "delete" /\ job[t].doc \in Docs /\ UNCHANGED r2
          /\ \A u \in Slots : u # t => job'[u] = job[u]
          /\ job'[t].op = "delete" /\ job'[t].doc = job[t].doc
          /\ \A e \in Docs : e # job[t].doc => pg'[e] = pg[e] /\ status'[e] = status[e]
      BY <1>9 DEF DeleteRow, At, Goto, TypeOK, Job
    <2>2. status'[job[t].doc] \notin Live \cup {"unborn"}
      BY <1>9, <2>1 DEF DeleteRow, HasRow, OneUpload, TypeOK, Live, Statuses
    <2>3. \A e \in Docs : e # job[t].doc => (ChunksOrDeletion(e) => ChunksOrDeletion(e)')
      BY <2>1 DEF ChunksOrDeletion, Deleting
    <2>5. InsertedHasChunks'
      <3> SUFFICES ASSUME NEW u \in Slots, job'[u].op = "upload",
                          job'[u].pc \in {"addBm25", "setIndexed"}, HasRow(job[u].doc)'
                   PROVE  ChunksOrDeletion(job[u].doc)'
        BY DEF InsertedHasChunks
      <3>1. u # t /\ job'[u] = job[u] /\ job[u].doc \in Docs
        BY <2>1 DEF TypeOK
      <3>2. job[u].doc # job[t].doc
        BY <2>2, <3>1 DEF HasRow
      <3> QED
        BY <2>1, <2>3, <3>1, <3>2 DEF IndexedInv, InsertedHasChunks, HasRow
    <2>6. IndexedOrDeletion'
      BY <2>1, <2>2, <2>3 DEF IndexedInv, IndexedOrDeletion, Live
    <2> QED
      BY <2>5, <2>6 DEF IndexedInv
  <1>10. ASSUME NEW t \in Slots, PatchPg(t) PROVE IndexedInv'
    <2>1. /\ job[t].op = "patch" /\ UNCHANGED <<status, r2>>
          /\ \A u \in Slots : u # t => job'[u] = job[u]
          /\ job'[t].op = "patch"
          /\ \A e \in Docs : pg[e] # "none" => pg'[e] # "none"
      BY <1>10 DEF PatchPg, At, Goto, TypeOK, Job, SourceTypes
    <2>2. \A e \in Docs : ChunksOrDeletion(e) => ChunksOrDeletion(e)'
      BY <2>1 DEF ChunksOrDeletion, Deleting
    <2>4. InsertedHasChunks'
      BY <2>1, <2>2 DEF IndexedInv, InsertedHasChunks, HasRow, TypeOK
    <2>5. IndexedOrDeletion'
      BY <2>1, <2>2 DEF IndexedInv, IndexedOrDeletion
    <2> QED
      BY <2>4, <2>5 DEF IndexedInv
  <1>11. ASSUME NEW t \in Slots,
                \/ ProcessIngest(t) \/ ProcessAddBm25(t) \/ DeleteBm25(t)
                \/ PatchRow(t) \/ PatchBm25(t) \/ PatchFlush(t)
         PROVE IndexedFrame(t)
    BY <1>11 DEF ProcessIngest, ProcessAddBm25, DeleteBm25, PatchRow, PatchBm25, PatchFlush,
                 At, Goto, IndexedFrame, Deleting, TypeOK, Job
  <1>12. ASSUME NEW t \in Slots, RebuildFetch(t) \/ RebuildBuild(t) PROVE IndexedFrame(t)
    BY <1>12 DEF RebuildFetch, RebuildBuild, IndexedFrame, Deleting, TypeOK, Job
  <1>13. ASSUME NEW t \in Slots, BumpKbVersion(t) \/ SaveToDisk(t) \/ BumpFails(t)
         PROVE IndexedFrame(t) \/ faults' = faults + 1
    BY <1>13 DEF BumpKbVersion, SaveToDisk, BumpFails, Fault, Return, IdleJob, NewJob,
                 IndexedFrame, Deleting, TypeOK, Job
  <1>14. ASSUME NEW t \in Slots, ProcessFault(t) \/ JobRaises(t) PROVE faults' = faults + 1
    BY <1>14 DEF ProcessFault, JobRaises, Fault
  <1>15. ASSUME NEW t \in Slots, Boot(t) PROVE IndexedFrame(t)
    <2>1. /\ UNCHANGED <<status, r2, pg, crashes>> /\ server = "down"
          /\ job' = [job EXCEPT ![t] = NewJob("boot", "fetch", NoDoc, "official")]
      BY <1>15 DEF Boot, BootRebuild, BootWithoutRedis, StartRebuild
    <2>2. job[t].op \notin {"upload", "delete"} /\ job'[t].op = "boot"
          /\ \A u \in Slots : u # t => job'[u] = job[u]
      BY <2>1 DEF StartUp, NewJob, TypeOK
    <2> QED
      BY <2>1, <2>2 DEF IndexedFrame, Deleting
  <1>16. CASE BootFromDisk \/ ChatGetsNoVersion \/ ChatSetsVersionOne \/ UNCHANGED vars
    <2>1. UNCHANGED <<status, r2, pg, job>>
      BY <1>16 DEF BootFromDisk, ChatGetsNoVersion, ChatSetsVersionOne, vars
    <2> QED
      BY <2>1 DEF IndexedInv, InsertedHasChunks, IndexedOrDeletion,
                  ChunksOrDeletion, Deleting, HasRow
  <1>17. CASE Crash \/ Redeploy
    BY <1>17, DisturbedStays DEF Crash, Redeploy
  <1> QED
    BY <1>1, <1>2, <1>3, <1>4, <1>5, <1>6, <1>7, <1>8, <1>9, <1>10, <1>11, <1>12, <1>13,
       <1>14, <1>15, <1>16, <1>17, IndexedFrameKeeps, DisturbedStays
       DEF Next, Start, Advance, Fail

\* An indexed document that nobody is deleting has its chunks, in every
\* interleaving of requests, while no call fails and the process lives.
THEOREM IndexedAlwaysHasChunks == Spec => []IndexedHasChunks
  <1>1. Init => IndexedInv
    BY DEF Init, IndexedInv, InsertedHasChunks, IndexedOrDeletion, IdleJob, NewJob
  <1>2. IndexedInv => IndexedHasChunks
    BY DEF IndexedInv, Undisturbed, IndexedOrDeletion, ChunksOrDeletion, IndexedHasChunks
  <1>3. QED
    BY <1>1, <1>2, IndexedNext, CourseAlways, PTL DEF Spec

-----------------------------------------------------------------------------
(* Requests that do not disturb each other.                                *)

NoConflicts ==
    trust # "suspect" =>
        \A t, u \in Slots : t # u => ~Conflict(job[t], job[u].op, job[u].doc)

\* Conflict without its sets of operations.
Disturb(a, b) ==
    \/ /\ a.doc = b.doc
       /\ \/ a.op = "upload" /\ b.op \in {"delete", "patch"}
          \/ b.op = "upload" /\ a.op \in {"delete", "patch"}
          \/ a.op = "patch" /\ b.op = "patch"
    \/ a.op = "reindex" /\ b.op \in {"upload", "delete", "patch"}
    \/ b.op = "reindex" /\ a.op \in {"upload", "delete", "patch"}

LEMMA ConflictMeans == \A a, b : Conflict(a, b.op, b.doc) <=> Disturb(a, b)
  <1> SUFFICES ASSUME NEW a, NEW b PROVE Conflict(a, b.op, b.doc) <=> Disturb(a, b)
    OBVIOUS
  <1>1. ASSUME NEW x, NEW y, NEW v, NEW w
        PROVE  {x, y} = {v, w} <=> (x = v /\ y = w) \/ (x = w /\ y = v)
    <2>1. ASSUME {x, y} = {v, w} PROVE (x = v /\ y = w) \/ (x = w /\ y = v)
      <3>1. x \in {v, w} /\ y \in {v, w} /\ v \in {x, y} /\ w \in {x, y}
        BY <2>1
      <3> QED
        BY <3>1
    <2>2. ASSUME (x = v /\ y = w) \/ (x = w /\ y = v) PROVE {x, y} = {v, w}
      BY <2>2
    <2> QED
      BY <2>1, <2>2
  <1>2. {a.op, b.op} = {"patch"} <=> a.op = "patch" /\ b.op = "patch"
    <2>1. ASSUME {a.op, b.op} = {"patch"} PROVE a.op = "patch" /\ b.op = "patch"
      <3>1. a.op \in {"patch"} /\ b.op \in {"patch"}
        BY <2>1
      <3> QED
        BY <3>1
    <2> QED
      BY <2>1
  <1>3. /\ {a.op, b.op} = {"upload", "delete"}
               <=> (a.op = "upload" /\ b.op = "delete") \/ (a.op = "delete" /\ b.op = "upload")
        /\ {a.op, b.op} = {"upload", "patch"}
               <=> (a.op = "upload" /\ b.op = "patch") \/ (a.op = "patch" /\ b.op = "upload")
        /\ \A z : {a.op, b.op} = {"reindex", z}
               <=> (a.op = "reindex" /\ b.op = z) \/ (a.op = z /\ b.op = "reindex")
    BY <1>1
  <1> QED
    BY <1>2, <1>3 DEF Conflict, Disturb

\* A coroutine goes on with its request or ends, and trust is not gained.
TrustFrame(t) ==
    /\ \A u \in Slots : u # t => job'[u] = job[u]
    /\ \/ job'[t].op \in {"none", "boot"}
       \/ job'[t].op = job[t].op /\ job'[t].doc = job[t].doc
    /\ trust' \in {trust, "suspect"}

LEMMA TrustFrameKeeps ==
    ASSUME NoConflicts, NEW t \in Slots, TrustFrame(t)
    PROVE  NoConflicts'
  <1>1. \A u, v \in Slots : Disturb(job[u], job[v])' => Disturb(job[u], job[v]) \/ u = v
    BY DEF TrustFrame, Disturb
  <1> QED
    BY <1>1, ConflictMeans DEF NoConflicts, TrustFrame

\* Which steps are of this kind.
LEMMA GoesOn ==
    ASSUME TypeOK, NEW t \in Slots,
           \/ Advance(t) /\ ~RebuildFetch(t)
           \/ Fail(t) \/ Boot(t)
    PROVE  TrustFrame(t)
  <1> USE DEF env
  <1>1. ASSUME NEW pc, Goto(t, pc)
        PROVE  /\ \A u \in Slots : u # t => job'[u] = job[u]
               /\ job'[t].op = job[t].op /\ job'[t].doc = job[t].doc
    BY <1>1 DEF Goto, TypeOK, Job
  <1>2. ASSUME Return(t) \/ Raise(t)
        PROVE  /\ \A u \in Slots : u # t => job'[u] = job[u]
               /\ job'[t].op = "none"
    BY <1>2 DEF Return, Raise, IdleJob, NewJob, TypeOK
  <1>3. CASE Fail(t)
    BY <1>1, <1>2, <1>3 DEF Fail, ProcessFault, BumpFails, JobRaises, Fault, TrustFrame
  <1>4. CASE Boot(t)
    BY <1>4 DEF Boot, BootRebuild, BootWithoutRedis, StartRebuild, NewJob, TrustFrame, TypeOK
  <1>5. CASE \/ UploadInsertRow(t) \/ ProcessSetIndexing(t) \/ ProcessIngest(t)
             \/ ProcessUpsert(t) \/ ProcessAddBm25(t) \/ ProcessSetIndexed(t)
             \/ DeletePg(t) \/ DeleteBm25(t) \/ DeleteR2(t) \/ DeleteRow(t)
             \/ PatchRow(t) \/ PatchPg(t) \/ PatchBm25(t) \/ PatchFlush(t)
    BY <1>1, <1>5
       DEF UploadInsertRow, ProcessSetIndexing, ProcessIngest, ProcessUpsert, ProcessAddBm25,
           ProcessSetIndexed, DeletePg, DeleteBm25, DeleteR2, DeleteRow, PatchRow, PatchPg,
           PatchBm25, PatchFlush, Fault, TrustFrame
  <1>6. CASE ProcessSetError(t) \/ BumpKbVersion(t) \/ SaveToDisk(t)
    BY <1>2, <1>6 DEF ProcessSetError, BumpKbVersion, SaveToDisk, Fault, TrustFrame, TypeOK, Job
  <1>7. CASE RebuildBuild(t)
    BY <1>7 DEF RebuildBuild, TrustFrame, TypeOK, Job
  <1> QED
    BY <1>3, <1>4, <1>5, <1>6, <1>7 DEF Advance

\* Nobody is disturbed as long as trust is not lost.
LEMMA NoConflictsNext == TypeOK /\ StartUp /\ NoConflicts /\ [Next]_vars => NoConflicts'
  <1> SUFFICES ASSUME TypeOK, StartUp, NoConflicts, [Next]_vars PROVE NoConflicts'
    OBVIOUS
  <1> USE DEF env
  <1>1. ASSUME NEW t \in Slots, Start(t) PROVE NoConflicts'
    <2>1. PICK op, d, s, pc : Accept(t, op, d, s, pc)
      BY <1>1 DEF Start, UploadStart, DeleteStart, PatchStart, ReindexStart
    <2>2. job'[t].op = op /\ job'[t].doc = d /\ \A u \in Slots : u # t => job'[u] = job[u]
      BY <2>1 DEF Accept, NewJob, TypeOK
    <2>3. CASE trust' = "suspect"
      BY <2>3 DEF NoConflicts
    <2>4. CASE trust' = trust /\ \A u \in Slots : ~Conflict(job[u], op, d)
      <3>1. \A u \in Slots : u # t => ~Disturb(job[u], job[t])' /\ ~Disturb(job[t], job[u])'
        BY <2>2, <2>4, ConflictMeans DEF Disturb
      <3>2. \A u, v \in Slots : u # t /\ v # t /\ Disturb(job[u], job[v])' => Disturb(job[u], job[v])
        BY <2>2 DEF Disturb
      <3> QED
        BY <2>4, <3>1, <3>2, ConflictMeans DEF NoConflicts
    <2> QED
      BY <2>1, <2>3, <2>4 DEF Accept
  <1>2. ASSUME NEW t \in Slots, RebuildFetch(t) PROVE NoConflicts'
    <2>1. /\ \A u \in Slots : u # t => job'[u] = job[u]
          /\ job'[t].op = job[t].op /\ job'[t].doc = job[t].doc
      BY <1>2 DEF RebuildFetch, TypeOK, Job
    <2>2. CASE trust' = trust
      BY <2>1, <2>2, TrustFrameKeeps DEF TrustFrame
    <2>3. CASE IdleBut(t)
      <3>1. \A u \in Slots : u # t => job'[u].op = "none"
        BY <2>1, <2>3 DEF IdleBut, StartUp
      <3> QED
        BY <3>1, ConflictMeans DEF NoConflicts, Disturb
    <2> QED
      BY <1>2, <2>2, <2>3 DEF RebuildFetch
  <1>3. CASE Crash \/ Redeploy
    <2>1. \A u \in Slots : job'[u].op = "none"
      BY <1>3 DEF Crash, Redeploy, IdleJob, NewJob
    <2> QED
      BY <2>1, ConflictMeans DEF NoConflicts, Disturb
  <1>4. CASE BootFromDisk \/ ChatGetsNoVersion \/ ChatSetsVersionOne \/ UNCHANGED vars
    <2>1. UNCHANGED <<trust, job>>
      BY <1>4 DEF BootFromDisk, ChatGetsNoVersion, ChatSetsVersionOne, vars
    <2> QED
      BY <2>1, ConflictMeans DEF NoConflicts, Disturb
  <1> QED
    BY <1>1, <1>2, <1>3, <1>4, GoesOn, TrustFrameKeeps DEF Next

\* What this means for two coroutines.
LEMMA Undisturbing ==
    ASSUME NoConflicts, trust # "suspect", NEW t \in Slots, NEW u \in Slots, t # u
    PROVE  /\ job[t].op = "upload" /\ job[u].op \in {"delete", "patch"} => job[t].doc # job[u].doc
           /\ job[t].op = "patch" /\ job[u].op = "patch" => job[t].doc # job[u].doc
           /\ job[t].op = "reindex" => job[u].op \notin {"upload", "delete", "patch"}
  BY ConflictMeans DEF NoConflicts, Disturb

-----------------------------------------------------------------------------
(* The rows agree with pgvector as long as requests do not disturb each      *)
(* other: who may disagree with a row is a coroutine that has not finished.  *)

RowsTrusted == trust \in {"clean", "rows"}

\* Coroutine t has inserted the chunks of d but not yet set its status; it has
\* relabelled the row of d but not yet the chunks.
Inserting(t, d) ==
    job[t].op = "upload" /\ job[t].doc = d /\ job[t].pc \in {"addBm25", "setIndexed"}
Relabelling(t, d) ==
    job[t].op = "patch" /\ job[t].doc = d /\ job[t].pc = "patchPg"

ChunksIndexed ==
    \A d \in Docs : pg[d] # "none" => status[d] = "indexed" \/ \E t \in Slots : Inserting(t, d)
ChunksLabelled ==
    \A d \in Docs : pg[d] # "none" => pg[d] = src[d] \/ \E t \in Slots : Relabelling(t, d)
UploadsRight ==
    \A t \in Slots : job[t].op = "upload" =>
        /\ job[t].pc # "insertRow" => src[job[t].doc] = job[t].src
        /\ job[t].pc = "setError" => pg[job[t].doc] = "none"
        /\ job[t].pc \in {"addBm25", "setIndexed"} => pg[job[t].doc] # "none"
PatchesRight ==
    \A t \in Slots : Relabelling(t, job[t].doc) /\ HasRow(job[t].doc)
                         => src[job[t].doc] = job[t].src

RowsRight ==
    IndexedOrDeletion /\ ChunksIndexed /\ ChunksLabelled /\ UploadsRight /\ PatchesRight
RowsInv == RowsTrusted => RowsRight

\* A step of one coroutine that leaves rows and chunks alone and begins or ends
\* none of the phases above.
RowsFrame(t) ==
    /\ UNCHANGED <<status, src, pg>>
    /\ \A u \in Slots : u # t => job'[u] = job[u]
    /\ \A d \in Docs :
          /\ Deleting(t, d) => Deleting(t, d)'
          /\ Inserting(t, d) <=> Inserting(t, d)'
          /\ Relabelling(t, d) <=> Relabelling(t, d)'
    /\ job'[t].op = "upload" /\ job'[t].pc # "insertRow" =>
          /\ job[t].op = "upload" /\ job[t].pc # "insertRow"
          /\ job'[t].doc = job[t].doc /\ job'[t].src = job[t].src
          /\ job'[t].pc = "setError" => pg[job[t].doc] = "none"
    /\ job'[t].op = "patch" /\ job'[t].pc = "patchPg" => job'[t] = job[t]

\* Such a step keeps the rows right.
LEMMA RowsFrameKeeps ==
    ASSUME TypeOK, RowsRight, NEW t \in Slots, RowsFrame(t)
    PROVE  RowsRight'
  <1>1. IndexedOrDeletion'
    BY DEF RowsRight, RowsFrame, IndexedOrDeletion, ChunksOrDeletion, Deleting
  <1>2. ChunksIndexed'
    BY DEF RowsRight, RowsFrame, ChunksIndexed, Inserting
  <1>3. ChunksLabelled'
    BY DEF RowsRight, RowsFrame, ChunksLabelled, Relabelling
  <1>4. UploadsRight'
    <2>1. \A u \in Slots : u # t => job'[u] = job[u]
      BY DEF RowsFrame
    <2>2. job'[t].op = "upload" /\ job'[t].pc # "insertRow" =>
              /\ job[t].op = "upload" /\ job[t].pc # "insertRow"
              /\ job'[t].doc = job[t].doc /\ job'[t].src = job[t].src /\ job[t].doc \in Docs
              /\ job'[t].pc = "setError" => pg[job[t].doc] = "none"
              /\ job'[t].pc \in {"addBm25", "setIndexed"}
                     => job[t].pc \in {"addBm25", "setIndexed"}
      BY DEF RowsFrame, Inserting, TypeOK
    <2> QED
      BY <2>1, <2>2 DEF RowsRight, RowsFrame, UploadsRight
  <1>5. PatchesRight'
    BY DEF RowsRight, RowsFrame, PatchesRight, Relabelling, HasRow
  <1> QED
    BY <1>1, <1>2, <1>3, <1>4, <1>5 DEF RowsRight

\* Rows become trustworthy by nothing but the transaction that drops all chunks.
LEMMA TrustIsNotGained ==
    ASSUME Next \/ UNCHANGED vars, ~Redeploy, RowsTrusted' PROVE RowsTrusted
  <1> USE DEF RowsTrusted, env
  <1>1. ASSUME NEW t \in Slots, Start(t) PROVE RowsTrusted
    BY <1>1 DEF Start, UploadStart, DeleteStart, PatchStart, ReindexStart, Accept
  <1>2. ASSUME NEW t \in Slots, Advance(t) PROVE RowsTrusted
    BY <1>2 DEF Advance, UploadInsertRow, ProcessSetIndexing, ProcessIngest, ProcessUpsert,
           ProcessAddBm25, ProcessSetIndexed, ProcessSetError, DeletePg, DeleteBm25, DeleteR2,
           DeleteRow, PatchRow, PatchPg, PatchBm25, PatchFlush, RebuildFetch, RebuildBuild,
           BumpKbVersion, SaveToDisk, Fault
  <1>3. ASSUME NEW t \in Slots, Fail(t) \/ Boot(t) PROVE RowsTrusted
    BY <1>3 DEF Fail, ProcessFault, BumpFails, JobRaises, Fault, Boot, BootRebuild,
           BootWithoutRedis
  <1>4. CASE BootFromDisk \/ ChatGetsNoVersion \/ ChatSetsVersionOne \/ Crash \/ UNCHANGED vars
    BY <1>4 DEF BootFromDisk, ChatGetsNoVersion, ChatSetsVersionOne, Crash, vars
  <1> QED
    BY <1>1, <1>2, <1>3, <1>4 DEF Next

\* One step per write to a row or to the chunks; the rest are frame steps.
LEMMA RowsNext == Course /\ NoConflicts /\ RowsInv /\ [Next]_vars => RowsInv'
  <1> SUFFICES ASSUME Course, NoConflicts, RowsInv, [Next]_vars, RowsTrusted' PROVE RowsRight'
    BY DEF RowsInv
  <1> USE DEF stores, env
  <1>1. CASE Redeploy
    <2>1. \A d \in Docs : status'[d] # "indexed" /\ pg'[d] = "none"
      BY <1>1 DEF Redeploy, HasRow, Live
    <2>2. \A t \in Slots : job'[t].op = "none"
      BY <1>1 DEF Redeploy, IdleJob, NewJob
    <2> QED
      BY <2>1, <2>2 DEF RowsRight, IndexedOrDeletion, ChunksIndexed, ChunksLabelled, UploadsRight,
                        PatchesRight, Relabelling
  <1> SUFFICES ASSUME ~Redeploy PROVE RowsRight'
    BY <1>1
  <1>2. RowsRight /\ trust # "suspect" /\ trust' # "suspect"
    BY TrustIsNotGained DEF RowsInv, RowsTrusted
  <1>3. /\ TypeOK /\ ChunksHaveRow /\ StartUp /\ OneUpload
        /\ IndexedOrDeletion /\ ChunksIndexed /\ ChunksLabelled /\ UploadsRight /\ PatchesRight
    BY <1>2 DEF Course, RowsRight
  \* Another coroutine at work on a document that is uploaded or patched.
  <1>4. ASSUME NEW t \in Slots, NEW u \in Slots, t # u, job[t].doc = job[u].doc
        PROVE  /\ job[t].op = "upload" => job[u].op \notin {"upload", "delete", "patch"}
               /\ job[t].op = "delete" => job[u].op # "upload"
               /\ job[t].op = "patch" => job[u].op \notin {"upload", "patch"}
    BY <1>2, <1>3, <1>4, Undisturbing DEF OneUpload
  <1>5. ASSUME NEW t \in Slots, Start(t) PROVE RowsFrame(t)
    BY <1>3, <1>5 DEF Start, UploadStart, DeleteStart, PatchStart, ReindexStart, Accept, NewJob,
                RowsFrame, Deleting, Inserting, Relabelling, TypeOK, StartUp
  <1>6. ASSUME NEW t \in Slots, UploadInsertRow(t) PROVE RowsRight'
    <2>1. /\ job[t].op = "upload" /\ job[t].pc = "insertRow" /\ job[t].doc \in Docs
          /\ pg' = pg /\ pg[job[t].doc] = "none"
          /\ \A u \in Slots : u # t => job'[u] = job[u]
          /\ job'[t].op = "upload" /\ job'[t].doc = job[t].doc /\ job'[t].src = job[t].src
          /\ job'[t].pc = "setIndexing"
      BY <1>3, <1>6 DEF UploadInsertRow, At, Goto, OneUpload, BeforeInsert, TypeOK, Job
    <2>2. /\ status'[job[t].doc] = "pending" /\ src'[job[t].doc] = job[t].src
          /\ \A e \in Docs : e # job[t].doc => status'[e] = status[e] /\ src'[e] = src[e]
      BY <1>3, <1>6, <2>1 DEF UploadInsertRow, TypeOK
    <2>3. \A u \in Slots : job[u].op \in {"upload", "delete", "patch"} => job[u].doc \in Docs
      BY <1>3 DEF TypeOK
    <2>4. IndexedOrDeletion'
      BY <1>3, <2>1, <2>2 DEF IndexedOrDeletion, ChunksOrDeletion, Deleting
    <2>5. ChunksIndexed' /\ ChunksLabelled'
      BY <1>3, <2>1, <2>2 DEF ChunksIndexed, ChunksLabelled, Inserting, Relabelling
    <2>6. UploadsRight'
      BY <1>3, <1>4, <2>1, <2>2, <2>3 DEF UploadsRight
    <2>7. PatchesRight'
      BY <1>3, <1>4, <2>1, <2>2, <2>3 DEF PatchesRight, Relabelling, HasRow
    <2> QED
      BY <2>4, <2>5, <2>6, <2>7 DEF RowsRight
  <1>7. ASSUME NEW t \in Slots,
               ProcessSetIndexing(t) \/ ProcessSetIndexed(t) \/ ProcessSetError(t)
        PROVE  RowsRight'
    <2> DEFINE d == job[t].doc
    <2>1. /\ job[t].op = "upload" /\ d \in Docs /\ pg' = pg /\ src' = src
          /\ \A u \in Slots : u # t => job'[u] = job[u]
          /\ \/ job'[t].op = "none"
             \/ /\ job'[t].op = "upload" /\ job'[t].doc = d /\ job'[t].src = job[t].src
                /\ job[t].pc # "insertRow" /\ job'[t].pc \notin {"setError", "addBm25", "setIndexed"}
      BY <1>3, <1>7 DEF ProcessSetIndexing, ProcessSetIndexed, ProcessSetError, At, Goto, Return,
                        IdleJob, NewJob, TypeOK, Job
    <2>2. \/ ProcessSetIndexed(t) /\ pg[d] # "none" /\ SetStatus(d, "indexed")
          \/ /\ pg[d] = "none"
             /\ SetStatus(d, "indexing") \/ SetStatus(d, "error")
      BY <1>3, <1>7 DEF ProcessSetIndexing, ProcessSetIndexed, ProcessSetError, At, OneUpload,
                        BeforeInsert, UploadsRight
    <2>3. /\ \A e \in Docs : e # d => status'[e] = status[e]
          /\ pg[d] # "none" => status'[d] = "indexed"
          /\ pg[d] = "none" => status'[d] # "indexed" \/ status'[d] = status[d]
          /\ \A e \in Docs : HasRow(e)' <=> HasRow(e)
      BY <1>3, <2>1, <2>2, StatusSet DEF ChunksHaveRow, Live
    <2>4. IndexedOrDeletion'
      BY <1>3, <2>1, <2>3 DEF IndexedOrDeletion, ChunksOrDeletion, Deleting
    <2>5. ChunksIndexed' /\ ChunksLabelled'
      BY <1>3, <2>1, <2>3 DEF ChunksIndexed, ChunksLabelled, Inserting, Relabelling
    <2>6. UploadsRight'
      BY <1>3, <2>1, <2>3 DEF UploadsRight
    <2>7. PatchesRight'
      BY <1>3, <2>1, <2>3 DEF PatchesRight, Relabelling, TypeOK
    <2> QED
      BY <2>4, <2>5, <2>6, <2>7 DEF RowsRight
  <1>8. ASSUME NEW t \in Slots, ProcessUpsert(t) PROVE RowsRight'
    <2> DEFINE d == job[t].doc
    <2>1. /\ job[t].op = "upload" /\ job[t].pc = "upsert" /\ d \in Docs
          /\ status' = status /\ src' = src /\ pg[d] = "none" /\ src[d] = job[t].src
          /\ \A u \in Slots : u # t => job'[u] = job[u]
          /\ job'[t].op = "upload" /\ job'[t].doc = d /\ job'[t].src = job[t].src
      BY <1>3, <1>8 DEF ProcessUpsert, At, Goto, OneUpload, BeforeInsert, UploadsRight, TypeOK, Job
    <2>2. CASE ~HasRow(d)
      <3>1. job'[t].pc = "setError" /\ pg' = pg
        BY <1>3, <1>8, <2>1, <2>2 DEF ProcessUpsert, Goto, TypeOK, Job
      <3>2. RowsFrame(t)
        BY <2>1, <3>1 DEF RowsFrame, Deleting, Inserting, Relabelling
      <3> QED
        BY <1>2, <1>3, <3>2, RowsFrameKeeps
    <2>3. CASE HasRow(d)
      <3>1. /\ job'[t].pc = "addBm25" /\ pg'[d] = job[t].src /\ pg'[d] # "none"
            /\ \A e \in Docs : e # d => pg'[e] = pg[e]
        BY <1>3, <1>8, <2>1, <2>3 DEF ProcessUpsert, Goto, TypeOK, Job, SourceTypes
      <3>2. IndexedOrDeletion'
        BY <1>3, <2>1, <3>1 DEF IndexedOrDeletion, ChunksOrDeletion, Deleting
      <3>3. ChunksIndexed' /\ ChunksLabelled'
        BY <1>3, <2>1, <3>1 DEF ChunksIndexed, ChunksLabelled, Inserting, Relabelling
      <3>4. UploadsRight'
        <4>1. \A u \in Slots : u # t /\ job[u].op = "upload" => job[u].doc \in Docs /\ job[u].doc # d
          BY <1>3, <2>1 DEF TypeOK, OneUpload
        <4> QED
          BY <1>3, <2>1, <3>1, <4>1 DEF UploadsRight
      <3>5. PatchesRight'
        BY <1>3, <2>1 DEF PatchesRight, Relabelling, HasRow, TypeOK
      <3> QED
        BY <3>2, <3>3, <3>4, <3>5 DEF RowsRight
    <2> QED
      BY <2>2, <2>3
  <1>9. ASSUME NEW t \in Slots, DeletePg(t) \/ DeleteRow(t) PROVE RowsRight'
    <2> DEFINE d == job[t].doc
    <2>1. /\ job[t].op = "delete" /\ d \in Docs /\ src' = src /\ pg'[d] = "none"
          /\ \A e \in Docs : e # d => pg'[e] = pg[e] /\ status'[e] = status[e]
          /\ \A u \in Slots : u # t => job'[u] = job[u]
          /\ job'[t].op = "delete" /\ job'[t].doc = d
          /\ \/ status' = status /\ job'[t].pc = "delBm25"
             \/ status'[d] # "indexed"
          /\ HasRow(d)' => HasRow(d)
      BY <1>3, <1>9 DEF DeletePg, DeleteRow, At, Goto, HasRow, Live, TypeOK, Job
    <2>2. IndexedOrDeletion'
      BY <1>3, <2>1 DEF IndexedOrDeletion, ChunksOrDeletion, Deleting
    <2>3. ChunksIndexed' /\ ChunksLabelled'
      BY <1>3, <2>1 DEF ChunksIndexed, ChunksLabelled, Inserting, Relabelling
    <2>4. UploadsRight'
      <3>1. \A u \in Slots : job[u].op = "upload" => u # t /\ job[u].doc \in Docs /\ job[u].doc # d
        BY <1>3, <1>4, <2>1 DEF TypeOK
      <3> QED
        BY <1>3, <2>1, <3>1 DEF UploadsRight
    <2>5. PatchesRight'
      BY <1>3, <2>1 DEF PatchesRight, Relabelling, HasRow, TypeOK
    <2> QED
      BY <2>2, <2>3, <2>4, <2>5 DEF RowsRight
  <1>10. ASSUME NEW t \in Slots, PatchRow(t) PROVE RowsRight'
    <2> DEFINE d == job[t].doc
    <2>1. /\ job[t].op = "patch" /\ job[t].pc = "patchRow" /\ d \in Docs
          /\ status' = status /\ pg' = pg
          /\ \A e \in Docs : e # d => src'[e] = src[e]
          /\ HasRow(d) => src'[d] = job[t].src
          /\ \A u \in Slots : u # t => job'[u] = job[u]
          /\ job'[t].op = "patch" /\ job'[t].doc = d /\ job'[t].src = job[t].src
          /\ job'[t].pc = "patchPg"
      BY <1>3, <1>10 DEF PatchRow, At, Goto, TypeOK, Job
    <2>2. \A u \in Slots : u # t /\ job[u].op \in {"upload", "patch"}
                               => job[u].doc \in Docs /\ job[u].doc # d
      BY <1>3, <1>4, <2>1 DEF TypeOK
    <2>3. IndexedOrDeletion'
      BY <1>3, <2>1 DEF IndexedOrDeletion, ChunksOrDeletion, Deleting
    <2>4. ChunksIndexed' /\ ChunksLabelled'
      BY <1>3, <2>1 DEF ChunksIndexed, ChunksLabelled, Inserting, Relabelling
    <2>5. UploadsRight'
      BY <1>3, <2>1, <2>2 DEF UploadsRight
    <2>6. PatchesRight'
      BY <1>3, <2>1, <2>2 DEF PatchesRight, Relabelling, HasRow
    <2> QED
      BY <2>3, <2>4, <2>5, <2>6 DEF RowsRight
  <1>11. ASSUME NEW t \in Slots, PatchPg(t) PROVE RowsRight'
    <2> DEFINE d == job[t].doc
    <2>1. /\ job[t].op = "patch" /\ job[t].pc = "patchPg" /\ d \in Docs
          /\ status' = status /\ src' = src
          /\ \A e \in Docs : pg'[e] = "none" <=> pg[e] = "none"
          /\ \A e \in Docs : e # d => pg'[e] = pg[e]
          /\ pg[d] # "none" => pg'[d] = job[t].src
          /\ \A u \in Slots : u # t => job'[u] = job[u]
          /\ job'[t].op = "patch" /\ job'[t].pc = "patchBm25"
      BY <1>3, <1>11 DEF PatchPg, At, Goto, TypeOK, Job, SourceTypes
    <2>2. pg[d] # "none" => pg'[d] = src[d]
      BY <1>3, <2>1 DEF PatchesRight, Relabelling, ChunksHaveRow
    <2>3. IndexedOrDeletion'
      BY <1>3, <2>1 DEF IndexedOrDeletion, ChunksOrDeletion, Deleting
    <2>4. ChunksIndexed' /\ ChunksLabelled'
      BY <1>3, <2>1, <2>2 DEF ChunksIndexed, ChunksLabelled, Inserting, Relabelling
    <2>5. UploadsRight' /\ PatchesRight'
      BY <1>3, <2>1 DEF UploadsRight, PatchesRight, Relabelling, HasRow, TypeOK
    <2> QED
      BY <2>3, <2>4, <2>5 DEF RowsRight
  <1>12. ASSUME NEW t \in Slots,
                \/ ProcessIngest(t) \/ ProcessAddBm25(t) \/ DeleteBm25(t)
                \/ PatchBm25(t) \/ PatchFlush(t)
         PROVE  RowsFrame(t)
    BY <1>3, <1>12 DEF ProcessIngest, ProcessAddBm25, DeleteBm25, PatchBm25, PatchFlush, At, Goto,
                RowsFrame, Deleting, Inserting, Relabelling, OneUpload, BeforeInsert, TypeOK, Job
  <1>13. ASSUME NEW t \in Slots, DeleteR2(t) PROVE RowsFrame(t)
    BY <1>3, <1>13 DEF DeleteR2, At, Goto, RowsFrame, Deleting, Inserting, Relabelling, TypeOK, Job
  <1>14. ASSUME NEW t \in Slots,
                RebuildFetch(t) \/ RebuildBuild(t) \/ BumpKbVersion(t) \/ SaveToDisk(t)
         PROVE  RowsFrame(t)
    BY <1>3, <1>14 DEF RebuildFetch, RebuildBuild, BumpKbVersion, SaveToDisk, Return, IdleJob,
                NewJob, RowsFrame, Deleting, Inserting, Relabelling, TypeOK, Job
  <1>15. ASSUME NEW t \in Slots, Fail(t) PROVE RowsFrame(t)
    BY <1>2, <1>3, <1>15 DEF Fail, ProcessFault, BumpFails, JobRaises, Fault, Return, IdleJob,
                NewJob, RowsFrame, Deleting, Inserting, Relabelling, TypeOK
  <1>16. ASSUME NEW t \in Slots, Boot(t) PROVE RowsFrame(t)
    BY <1>3, <1>16 DEF Boot, BootRebuild, BootWithoutRedis, StartRebuild, NewJob, RowsFrame,
                Deleting, Inserting, Relabelling, StartUp, TypeOK
  <1>17. CASE Crash
    <2>1. \A t \in Slots : job[t].pc = "idle"
      BY <1>2, <1>17 DEF Crash
    <2>2. UNCHANGED <<status, src, pg>> /\ \A t \in Slots : job'[t].op = "none"
      BY <1>17 DEF Crash, IdleJob, NewJob
    <2>3. IndexedOrDeletion' /\ ChunksIndexed' /\ ChunksLabelled'
      BY <1>3, <2>1, <2>2 DEF IndexedOrDeletion, ChunksOrDeletion, Deleting, ChunksIndexed,
                              Inserting, ChunksLabelled, Relabelling
    <2>4. UploadsRight' /\ PatchesRight'
      BY <2>2 DEF UploadsRight, PatchesRight, Relabelling
    <2> QED
      BY <2>3, <2>4 DEF RowsRight
  <1>18. CASE BootFromDisk \/ ChatGetsNoVersion \/ ChatSetsVersionOne \/ UNCHANGED vars
    <2>1. UNCHANGED <<status, src, pg, job>>
      BY <1>18 DEF BootFromDisk, ChatGetsNoVersion, ChatSetsVersionOne, vars
    <2> QED
      BY <1>3, <2>1 DEF RowsRight, IndexedOrDeletion, ChunksOrDeletion, Deleting, ChunksIndexed,
           Inserting, ChunksLabelled, Relabelling, UploadsRight, PatchesRight, HasRow
  <1> QED
    BY <1>2, <1>3, <1>5, <1>6, <1>7, <1>8, <1>9, <1>10, <1>11, <1>12, <1>13, <1>14, <1>15, <1>16,
       <1>17, <1>18, RowsFrameKeeps DEF Next, Advance

LEMMA RowsAlways == Spec => [](NoConflicts /\ RowsInv)
  <1>1. Init => NoConflicts
    BY ConflictMeans DEF Init, NoConflicts, Disturb, IdleJob, NewJob
  <1>2. Init => RowsInv
    BY DEF Init, RowsInv, RowsRight, IndexedOrDeletion, ChunksIndexed, ChunksLabelled,
           UploadsRight, PatchesRight, Relabelling, IdleJob, NewJob
  <1>3. Course => TypeOK /\ StartUp
    BY DEF Course
  <1>4. QED
    BY <1>1, <1>2, <1>3, NoConflictsNext, RowsNext, CourseAlways, PTL DEF Spec

\* Requests that do not disturb each other leave exactly the indexed documents
\* with chunks in pgvector, labelled as their rows are, for any number of them;
\* a change of the vector dimension at any moment does as well.
THEOREM RowsAlwaysAgree == Spec => []RowsAgreeWhenQuiet
  <1>1. RowsInv => RowsAgreeWhenQuiet
    BY DEF RowsInv, RowsTrusted, RowsRight, IndexedOrDeletion, ChunksOrDeletion, Deleting,
           ChunksIndexed, Inserting, ChunksLabelled, Relabelling, RowsAgreeWhenQuiet, Quiet, Idle
  <1>2. QED
    BY <1>1, RowsAlways, PTL

-----------------------------------------------------------------------------
(* Who rebuilds.                                                           *)

\* Only a reindex request or the start-up fetches and builds.
RebuildOps ==
    \A t \in Slots : job[t].pc \in {"fetch", "build"} => job[t].op \in {"reindex", "boot"}

LEMMA RebuildOpsNext == TypeOK /\ RebuildOps /\ [Next]_vars => RebuildOps'
  <1> SUFFICES ASSUME TypeOK, RebuildOps, [Next]_vars PROVE RebuildOps'
    OBVIOUS
  <1>1. ASSUME NEW t \in Slots, \A u \in Slots : u # t => job'[u] = job[u],
               \/ job'[t].pc \notin {"fetch", "build"}
               \/ job'[t].op \in {"reindex", "boot"}
        PROVE  RebuildOps'
    BY <1>1 DEF RebuildOps
  <1>2. ASSUME NEW t \in Slots, Start(t) PROVE RebuildOps'
    BY <1>1, <1>2 DEF Start, UploadStart, DeleteStart, PatchStart, ReindexStart, Accept, NewJob,
                      TypeOK
  <1>3. ASSUME NEW t \in Slots, Return(t) \/ Raise(t) PROVE RebuildOps'
    BY <1>1, <1>3, IdleJobIsJob DEF Return, Raise, TypeOK
  <1>4. ASSUME NEW t \in Slots, NEW pc, pc \notin {"fetch", "build"}, Goto(t, pc)
        PROVE  RebuildOps'
    BY <1>1, <1>4 DEF Goto, TypeOK, Job
  <1>5. ASSUME NEW t \in Slots, Advance(t) PROVE RebuildOps'
    <2>1. CASE RebuildFetch(t) \/ RebuildBuild(t)
      BY <1>1, <2>1 DEF RebuildFetch, RebuildBuild, RebuildOps, TypeOK, Job
    <2>2. CASE BumpKbVersion(t)
      BY <1>1, <1>3, <2>2 DEF BumpKbVersion, TypeOK, Job
    <2>3. CASE ~(RebuildFetch(t) \/ RebuildBuild(t) \/ BumpKbVersion(t))
      BY <1>3, <1>4, <1>5, <2>3
         DEF Advance, UploadInsertRow, ProcessSetIndexing, ProcessIngest, ProcessUpsert,
             ProcessAddBm25, ProcessSetIndexed, ProcessSetError, DeletePg, DeleteBm25, DeleteR2,
             DeleteRow, PatchRow, PatchPg, PatchBm25, PatchFlush, SaveToDisk
    <2> QED
      BY <2>1, <2>2, <2>3
  <1>6. ASSUME NEW t \in Slots, Fail(t) PROVE RebuildOps'
    BY <1>3, <1>4, <1>6 DEF Fail, ProcessFault, BumpFails, JobRaises
  <1>7. ASSUME NEW t \in Slots, Boot(t) PROVE RebuildOps'
    BY <1>1, <1>7 DEF Boot, BootRebuild, BootWithoutRedis, StartRebuild, NewJob, TypeOK
  <1>8. CASE Crash \/ Redeploy
    BY <1>8, IdleJobIsJob DEF Crash, Redeploy, RebuildOps
  <1>9. CASE BootFromDisk \/ ChatGetsNoVersion \/ ChatSetsVersionOne \/ UNCHANGED vars
    BY <1>9 DEF BootFromDisk, ChatGetsNoVersion, ChatSetsVersionOne, vars, RebuildOps
  <1> QED
    BY <1>2, <1>5, <1>6, <1>7, <1>8, <1>9 DEF Next

\* What the proofs below take for granted.
Setting == Course /\ NoConflicts /\ RebuildOps /\ LabelsInv

LEMMA SettingAlways == Spec => []Setting
  <1>1. Init => RebuildOps
    BY IdleJobIsJob DEF Init, RebuildOps
  <1>2. Course => TypeOK
    BY DEF Course
  <1>3. QED
    BY <1>1, <1>2, RebuildOpsNext, CourseAlways, RowsAlways, LabelsAlways, PTL
       DEF Spec, Setting

-----------------------------------------------------------------------------
(* The index while requests run.                                           *)

Sure == trust \in {"clean", "repaired"}

\* Coroutine t has taken the chunks of d from pgvector but not yet from the
\* index; relabelled them there only; added them there only.
Removing(t, d) == job[t].op = "delete" /\ job[t].doc = d /\ job[t].pc = "delBm25"
Retagging(t, d) == job[t].op = "patch" /\ job[t].doc = d /\ job[t].pc = "patchBm25"
Adding(t, d) == job[t].op = "upload" /\ job[t].doc = d /\ job[t].pc = "addBm25"

Held(d) == \E c \in bm25 : c.doc = d

EntryRight(c) ==
    \/ c.src = pg[c.doc]
    \/ \E t \in Slots : Removing(t, c.doc)
    \/ pg[c.doc] # "none" /\ \E t \in Slots : Retagging(t, c.doc)
EntriesRight == \A c \in bm25 : EntryRight(c)
EntriesOnce == \A c, e \in bm25 : c.doc = e.doc => c = e
ChunksHeld ==
    \A d \in Docs : pg[d] # "none" => Held(d) \/ \E t \in Slots : Adding(t, d)

\* What each coroutine relies on.
JobRight(t) ==
    /\ job[t].op = "upload" =>
          /\ job[t].pc \in BeforeInsert \cup {"addBm25"} => ~Held(job[t].doc)
          /\ job[t].pc = "addBm25" => pg[job[t].doc] = job[t].src
    /\ job[t].op = "delete" =>
          /\ job[t].pc \in {"delBm25", "delR2", "delRow"} => pg[job[t].doc] = "none"
          /\ job[t].pc \in {"delR2", "delRow"} => ~Held(job[t].doc)
    /\ job[t].op = "patch" /\ job[t].pc = "patchBm25" =>
          pg[job[t].doc] \in {"none", job[t].src}

Good == EntriesRight /\ EntriesOnce /\ ChunksHeld /\ \A t \in Slots : JobRight(t)

\* A step of one coroutine that leaves pgvector and the index alone.
GoodFrame(t) ==
    /\ UNCHANGED <<pg, bm25>>
    /\ \A u \in Slots : u # t => job'[u] = job[u]
    /\ \A d \in Docs :
          /\ Removing(t, d) => Removing(t, d)'
          /\ Retagging(t, d) => Retagging(t, d)'
          /\ Adding(t, d) => Adding(t, d)'
    /\ JobRight(t)'

LEMMA GoodFrameKeeps ==
    ASSUME TypeOK, Good, NEW t \in Slots, GoodFrame(t)
    PROVE  Good'
  <1>1. \A c \in bm25 : c.doc \in Docs
    BY DEF TypeOK, Chunk
  <1>2. EntriesRight'
    BY <1>1 DEF Good, GoodFrame, EntriesRight, EntryRight, Removing, Retagging
  <1>3. EntriesOnce' /\ ChunksHeld'
    BY DEF Good, GoodFrame, EntriesOnce, ChunksHeld, Held, Adding
  <1>4. \A u \in Slots : JobRight(u)'
    BY DEF Good, GoodFrame, JobRight, Held
  <1> QED
    BY <1>2, <1>3, <1>4 DEF Good

\* The steps of requests that change documents keep the index good.
Changing == {"upload", "delete", "patch"}

LEMMA ChangersKeepGood ==
    ASSUME Setting, Good, Sure, NEW t \in Slots, job[t].op \in Changing,
           Advance(t) \/ BumpFails(t)
    PROVE  Good' \/ ~Sure'
  <1> USE DEF stores, env
  <1>1. /\ TypeOK /\ ChunksHaveRow /\ StartUp /\ OneUpload /\ RebuildOps
        /\ EntriesRight /\ EntriesOnce /\ ChunksHeld /\ \A u \in Slots : JobRight(u)
    BY DEF Setting, Course, Good
  <1> DEFINE d == job[t].doc
  <1>2. d \in Docs /\ \A c \in bm25 : c \in Chunk /\ c.doc \in Docs /\ c.src # "none"
    BY <1>1 DEF Changing, TypeOK, Chunk, SourceTypes
  <1>3. \A u \in Slots : u # t /\ job[u].doc = d =>
            /\ job[t].op = "upload" => job[u].op \notin {"upload", "delete", "patch"}
            /\ job[t].op = "delete" => job[u].op # "upload"
            /\ job[t].op = "patch" => job[u].op \notin {"upload", "patch"}
    BY <1>1, Undisturbing DEF OneUpload, Sure, Setting
  <1>4. CASE UploadInsertRow(t) \/ ProcessSetIndexing(t) \/ ProcessIngest(t)
    <2>1. GoodFrame(t)
      BY <1>1, <1>4 DEF UploadInsertRow, ProcessSetIndexing, ProcessIngest, At, Goto, GoodFrame,
                        Removing, Retagging, Adding, JobRight, BeforeInsert, Held, TypeOK, Job
    <2> QED
      BY <1>1, <2>1, GoodFrameKeeps
  <1>5. CASE ProcessSetIndexed(t) \/ ProcessSetError(t)
    <2>1. GoodFrame(t)
      BY <1>1, <1>5 DEF ProcessSetIndexed, ProcessSetError, At, Goto, Return, IdleJob, NewJob,
                        GoodFrame, Removing, Retagging, Adding, JobRight, BeforeInsert, TypeOK, Job
    <2> QED
      BY <1>1, <2>1, GoodFrameKeeps
  <1>6. CASE DeleteR2(t)
    <2>1. GoodFrame(t)
      BY <1>1, <1>6 DEF DeleteR2, At, Goto, GoodFrame, Removing, Retagging, Adding, JobRight, Held,
                        TypeOK, Job
    <2> QED
      BY <1>1, <2>1, GoodFrameKeeps
  <1>7. CASE PatchRow(t) \/ PatchFlush(t)
    <2>1. GoodFrame(t)
      BY <1>1, <1>7 DEF PatchRow, PatchFlush, At, Goto, GoodFrame, Removing, Retagging, Adding,
                        JobRight, TypeOK, Job
    <2> QED
      BY <1>1, <2>1, GoodFrameKeeps
  <1>8. CASE BumpKbVersion(t) \/ SaveToDisk(t) \/ BumpFails(t)
    <2>1. GoodFrame(t)
      BY <1>1, <1>8 DEF BumpKbVersion, SaveToDisk, BumpFails, Return, IdleJob, NewJob, GoodFrame,
                        Removing, Retagging, Adding, JobRight, BeforeInsert, TypeOK, Job
    <2> QED
      BY <1>1, <2>1, GoodFrameKeeps
  <1>9. CASE ProcessUpsert(t)
    <2>1. /\ job[t].op = "upload" /\ job[t].pc = "upsert" /\ bm25' = bm25 /\ ~Held(d)
          /\ job[t].src # "none"
          /\ \A u \in Slots : u # t => job'[u] = job[u]
          /\ job'[t].op = "upload" /\ job'[t].doc = d /\ job'[t].src = job[t].src
          /\ \/ job'[t].pc = "setError" /\ pg' = pg
             \/ job'[t].pc = "addBm25" /\ pg' = [pg EXCEPT ![d] = job[t].src]
      BY <1>1, <1>9 DEF ProcessUpsert, At, Goto, JobRight, BeforeInsert, TypeOK, Job, SourceTypes
    <2>2. /\ \A e \in Docs : e # d => pg'[e] = pg[e]
          /\ job'[t].pc = "addBm25" => pg'[d] = job[t].src
          /\ job'[t].pc # "addBm25" => pg' = pg
      BY <1>1, <1>2, <2>1 DEF TypeOK
    <2>3. EntriesRight'
      BY <1>1, <1>2, <2>1, <2>2 DEF EntriesRight, EntryRight, Held, Removing, Retagging
    <2>4. EntriesOnce' /\ ChunksHeld'
      BY <1>1, <1>2, <2>1, <2>2 DEF EntriesOnce, ChunksHeld, Held, Adding
    <2>5. \A u \in Slots : JobRight(u)'
      <3>1. \A u \in Slots : u # t /\ job[u].op \in {"upload", "delete", "patch"}
                                => job[u].doc \in Docs /\ job[u].doc # d
        BY <1>1, <1>3, <2>1 DEF TypeOK
      <3> QED
        BY <1>1, <2>1, <2>2, <3>1 DEF JobRight, Held, BeforeInsert
    <2> QED
      BY <2>3, <2>4, <2>5 DEF Good
  <1>10. CASE ProcessAddBm25(t)
    <2> DEFINE new == [doc |-> d, src |-> job[t].src, via |-> "ingest"]
    <2>1. /\ job[t].op = "upload" /\ pg' = pg /\ bm25' = bm25 \cup {new} /\ ~Held(d)
          /\ pg[d] = job[t].src
          /\ \A u \in Slots : u # t => job'[u] = job[u]
          /\ job'[t].op = "upload" /\ job'[t].pc = "setIndexed"
      BY <1>1, <1>10 DEF ProcessAddBm25, AddChunks, At, Goto, JobRight, TypeOK, Job
    <2>2. /\ \A c \in bm25' : c \in bm25 \/ c = new
          /\ \A c \in bm25 : c.doc # d
          /\ new.doc = d /\ new.src = pg[d] /\ new \in bm25'
      BY <2>1 DEF Held
    <2> HIDE DEF new
    <2>3. EntriesRight'
      BY <1>1, <1>2, <2>1, <2>2 DEF EntriesRight, EntryRight, Removing, Retagging
    <2>4. EntriesOnce'
      BY <1>1, <2>2 DEF EntriesOnce
    <2>5. ChunksHeld'
      BY <1>1, <1>2, <2>1, <2>2 DEF ChunksHeld, Held, Adding
    <2>6. \A u \in Slots : JobRight(u)'
      <3>1. \A u \in Slots : u # t /\ job[u].op \in {"upload", "delete", "patch"}
                                => job[u].doc \in Docs /\ job[u].doc # d
        BY <1>1, <1>3, <2>1 DEF TypeOK
      <3> QED
        BY <1>1, <2>1, <2>2, <3>1 DEF JobRight, Held, BeforeInsert
    <2> QED
      BY <2>3, <2>4, <2>5, <2>6 DEF Good
  <1>11. CASE DeletePg(t) \/ DeleteRow(t)
    <2>1. /\ job[t].op = "delete" /\ bm25' = bm25 /\ pg'[d] = "none"
          /\ \A e \in Docs : e # d => pg'[e] = pg[e]
          /\ \A u \in Slots : u # t => job'[u] = job[u]
          /\ job'[t].op = "delete" /\ job'[t].doc = d
          /\ job'[t].pc = "delBm25" \/ (job'[t].pc = "bump" /\ ~Held(d))
          /\ job[t].pc \in {"delPg", "delRow"}
      BY <1>1, <1>2, <1>11 DEF DeletePg, DeleteRow, At, Goto, JobRight, TypeOK, Job
    <2>2. EntriesRight'
      BY <1>1, <1>2, <2>1 DEF EntriesRight, EntryRight, Held, Removing, Retagging
    <2>3. EntriesOnce' /\ ChunksHeld'
      BY <1>1, <1>2, <2>1 DEF EntriesOnce, ChunksHeld, Held, Adding
    <2>4. \A u \in Slots : JobRight(u)'
      <3>1. \A u \in Slots : job[u].op \in {"upload", "delete", "patch"} =>
                /\ job[u].doc \in Docs
                /\ job[u].op = "upload" => job[u].doc # d
        BY <1>1, <1>3, <2>1 DEF TypeOK
      <3> QED
        BY <1>1, <2>1, <3>1 DEF JobRight, Held, BeforeInsert
    <2> QED
      BY <2>2, <2>3, <2>4 DEF Good
  <1>12. CASE DeleteBm25(t)
    <2>1. /\ job[t].op = "delete" /\ pg' = pg /\ pg[d] = "none"
          /\ bm25' = {c \in bm25 : c.doc # d}
          /\ \A u \in Slots : u # t => job'[u] = job[u]
          /\ job'[t].op = "delete" /\ job'[t].doc = d /\ job'[t].pc = "delR2"
          /\ job[t].pc = "delBm25"
      BY <1>1, <1>12 DEF DeleteBm25, RemoveByDocumentId, At, Goto, JobRight, TypeOK, Job
    <2>2. EntriesRight'
      BY <1>1, <2>1 DEF EntriesRight, EntryRight, Removing, Retagging
    <2>3. EntriesOnce' /\ ChunksHeld'
      BY <1>1, <2>1 DEF EntriesOnce, ChunksHeld, Held, Adding
    <2>4. \A u \in Slots : JobRight(u)'
      BY <1>1, <2>1 DEF JobRight, Held, BeforeInsert
    <2> QED
      BY <2>2, <2>3, <2>4 DEF Good
  <1>13. CASE PatchPg(t)
    <2>1. /\ job[t].op = "patch" /\ job[t].pc = "patchPg" /\ bm25' = bm25
          /\ \A e \in Docs : pg'[e] = "none" <=> pg[e] = "none"
          /\ \A e \in Docs : e # d => pg'[e] = pg[e]
          /\ pg[d] # "none" => pg'[d] = job[t].src
          /\ \A u \in Slots : u # t => job'[u] = job[u]
          /\ job'[t].op = "patch" /\ job'[t].doc = d /\ job'[t].src = job[t].src
          /\ job'[t].pc = "patchBm25"
      BY <1>1, <1>2, <1>13 DEF PatchPg, At, Goto, TypeOK, Job, SourceTypes
    <2>2. EntriesRight'
      BY <1>1, <1>2, <2>1 DEF EntriesRight, EntryRight, Removing, Retagging
    <2>3. EntriesOnce' /\ ChunksHeld'
      BY <1>1, <1>2, <2>1 DEF EntriesOnce, ChunksHeld, Held, Adding
    <2>4. \A u \in Slots : JobRight(u)'
      <3>1. \A u \in Slots : u # t /\ job[u].op \in {"upload", "delete", "patch"} =>
                /\ job[u].doc \in Docs
                /\ job[u].op # "delete" => job[u].doc # d
        BY <1>1, <1>3, <2>1 DEF TypeOK
      <3> QED
        BY <1>1, <1>2, <2>1, <3>1 DEF JobRight, Held, BeforeInsert
    <2> QED
      BY <2>2, <2>3, <2>4 DEF Good
  <1>14. CASE PatchBm25(t)
    <2>1. /\ job[t].op = "patch" /\ job[t].pc = "patchBm25" /\ pg' = pg
          /\ pg[d] \in {"none", job[t].src}
          /\ bm25' = {Relabelled(c, d, job[t].src) : c \in bm25}
          /\ \A u \in Slots : u # t => job'[u] = job[u]
          /\ job'[t].op = "patch" /\ job'[t].pc = "flush"
      BY <1>1, <1>14 DEF PatchBm25, At, Goto, JobRight, TypeOK, Job
    <2>2. \A c \in bm25 : LET r == Relabelled(c, d, job[t].src) IN
              /\ r.doc = c.doc
              /\ c.doc = d => r.src = job[t].src
              /\ c.doc # d => r = c
      BY <1>2 DEF Relabelled, Chunk
    <2>3. \A e \in Docs : Held(e)' <=> Held(e)
      BY <2>1, <2>2 DEF Held
    <2>4. EntriesRight'
      <3> SUFFICES ASSUME NEW r \in bm25' PROVE EntryRight(r)'
        BY DEF EntriesRight
      <3>1. PICK c \in bm25 : r = Relabelled(c, d, job[t].src)
        BY <2>1
      <3>2. EntryRight(c)
        BY <1>1 DEF EntriesRight
      <3>3. CASE c.doc # d
        BY <2>1, <2>2, <3>1, <3>2, <3>3 DEF EntryRight, Removing, Retagging
      <3>4. CASE c.doc = d
        <4>1. r.doc = d /\ (pg[d] # "none" => r.src = pg[d])
          BY <2>1, <2>2, <3>1, <3>4
        <4>2. (\E u \in Slots : Removing(u, r.doc)) \/ pg[d] # "none"
          BY <1>2, <3>2, <3>4, <4>1 DEF EntryRight
        <4>3. \A u \in Slots : Removing(u, r.doc) => Removing(u, r.doc)'
          BY <2>1 DEF Removing
        <4> QED
          BY <2>1, <4>1, <4>2, <4>3 DEF EntryRight
      <3> QED
        BY <3>3, <3>4
    <2>5. EntriesOnce'
      BY <1>1, <2>1, <2>2 DEF EntriesOnce
    <2>6. ChunksHeld'
      BY <1>1, <2>1, <2>3 DEF ChunksHeld, Adding
    <2>7. \A u \in Slots : JobRight(u)'
      <3>1. \A u \in Slots : job[u].op \in {"upload", "delete", "patch"} => job[u].doc \in Docs
        BY <1>1 DEF TypeOK
      <3> QED
        BY <1>1, <2>1, <2>3, <3>1 DEF JobRight
    <2> QED
      BY <2>4, <2>5, <2>6, <2>7 DEF Good
  <1>15. ~(RebuildFetch(t) \/ RebuildBuild(t))
    BY <1>1 DEF RebuildFetch, RebuildBuild, RebuildOps, Changing
  <1> QED
    BY <1>4, <1>5, <1>6, <1>7, <1>8, <1>9, <1>10, <1>11, <1>12, <1>13, <1>14, <1>15 DEF Advance

-----------------------------------------------------------------------------
(* The index and its pickle, from the start-up on.  The index is good unless *)
(* it is not there, or about to be replaced by what pgvector holds; nobody   *)
(* changes documents then.                                                   *)

BootFetching == \E t \in Slots : job[t].op = "boot" /\ job[t].pc = "fetch"
Building == \E t \in Slots : job[t].pc = "build"
SnapRight == \A t \in Slots : job[t].pc = "build" => job[t].snap = Fetched

IndexRight ==
    /\ server = "down" => redisFaults = 0
    /\ server = "down" \/ BootFetching \/ Building \/ Good
    /\ SnapRight

\* A change of pgvector or of the index has begun and not been announced by an
\* increment of the version.
Unannounced == {"addBm25", "setIndexed", "delBm25", "delR2", "delRow",
                "patchBm25", "flush", "build", "bump"}

\* One entry per document with chunks, with their label, and no other.
Exact(chunks) ==
    /\ \A c \in chunks : c.src = pg[c.doc]
    /\ \A c, e \in chunks : c.doc = e.doc => c = e
    /\ \A d \in Docs : pg[d] # "none" => \E c \in chunks : c.doc = d

\* The pickle a restart would accept is what a rebuild would give.
DiskRight ==
    /\ redisFaults = 0
    /\ \A t \in Slots : job[t].pc \notin Unannounced
    /\ disk.ver = version /\ version # 0
    => Exact(disk.chunks)

IndexInv == Sure => IndexRight /\ DiskRight

\* Nothing restores trust in the index but a rebuild that runs alone.
LEMMA SureIsNotGained ==
    ASSUME Next \/ UNCHANGED vars, \A t \in Slots : ~RebuildFetch(t), Sure' PROVE Sure
  <1> USE DEF Sure, env
  <1>1. ASSUME NEW t \in Slots, Start(t) PROVE Sure
    BY <1>1 DEF Start, UploadStart, DeleteStart, PatchStart, ReindexStart, Accept
  <1>2. ASSUME NEW t \in Slots, Advance(t), ~RebuildFetch(t) PROVE Sure
    BY <1>2 DEF Advance, UploadInsertRow, ProcessSetIndexing, ProcessIngest, ProcessUpsert,
           ProcessAddBm25, ProcessSetIndexed, ProcessSetError, DeletePg, DeleteBm25, DeleteR2,
           DeleteRow, PatchRow, PatchPg, PatchBm25, PatchFlush, RebuildBuild, BumpKbVersion,
           SaveToDisk, Fault
  <1>3. ASSUME NEW t \in Slots, Fail(t) \/ Boot(t) PROVE Sure
    BY <1>3 DEF Fail, ProcessFault, BumpFails, JobRaises, Fault, Boot, BootRebuild,
           BootWithoutRedis
  <1>4. CASE \/ BootFromDisk \/ ChatGetsNoVersion \/ ChatSetsVersionOne \/ Crash \/ Redeploy
             \/ UNCHANGED vars
    BY <1>4 DEF BootFromDisk, ChatGetsNoVersion, ChatSetsVersionOne, Crash, Redeploy, vars
  <1> QED
    BY <1>1, <1>2, <1>3, <1>4 DEF Next

\* Who runs while the server is down or starting.
LEMMA WhoRuns ==
    ASSUME StartUp
    PROVE  /\ server = "down" => \A t \in Slots : job[t].pc = "idle"
           /\ \A t, u \in Slots : job[t].op = "boot" /\ t # u => job[u].pc = "idle"
           /\ \A t \in Slots : job[t].op = "boot" => server = "starting"
           /\ \A t \in Slots : job[t].op = "none" <=> job[t].pc = "idle"
           /\ server # "up" => \A t \in Slots : job[t].op \in {"none", "boot"}
  BY DEF StartUp

\* While a request changes documents, nobody rebuilds.
LEMMA ChangersSeeGood ==
    ASSUME Setting, Sure, IndexRight, NEW t \in Slots, job[t].op \in Changing
    PROVE  Good /\ ~Building /\ server = "up"
  <1>1. StartUp /\ RebuildOps
    BY DEF Setting, Course
  <1>2. server = "up" /\ ~BootFetching
    BY <1>1, WhoRuns DEF Changing, BootFetching
  <1>3. ~Building
    <2> SUFFICES ASSUME NEW u \in Slots, job[u].pc = "build" PROVE FALSE
      BY DEF Building
    <2>1. job[u].op = "reindex" /\ u # t
      BY <1>1, <1>2, WhoRuns DEF RebuildOps, Changing
    <2> QED
      BY <2>1, Undisturbing DEF Setting, Sure, Changing
  <1> QED
    BY <1>2, <1>3 DEF IndexRight

\* The end of a rebuild leaves the index alone.
LEMMA RebuildersKeepGood ==
    ASSUME Setting, Good, NEW t \in Slots, job[t].op \notin Changing,
           BumpKbVersion(t) \/ SaveToDisk(t) \/ BumpFails(t)
    PROVE  Good'
  <1>1. TypeOK
    BY DEF Setting, Course
  <1>2. GoodFrame(t)
    BY <1>1 DEF Changing, BumpKbVersion, SaveToDisk, BumpFails, Return, IdleJob, NewJob, GoodFrame,
                Removing, Retagging, Adding, JobRight, TypeOK, Job, stores
  <1> QED
    BY <1>1, <1>2, GoodFrameKeeps

\* A document that has never been stored has no entry.
LEMMA StartKeepsGood ==
    ASSUME Setting, Good, NEW t \in Slots, Start(t)
    PROVE  Good'
  <1>1. /\ TypeOK /\ ChunksHaveRow /\ StartUp /\ OneUpload /\ EntriesRight
        /\ job[t].op = "none"
    BY DEF Setting, Course, Good, Start, UploadStart, DeleteStart, PatchStart, ReindexStart,
           Accept, StartUp
  <1>2. CASE UploadStart(t)
    <2>1. PICK d \in Docs :
              /\ status[d] = "unborn" /\ UNCHANGED <<pg, bm25>>
              /\ \A u \in Slots : u # t => job'[u] = job[u]
              /\ job'[t].op = "upload" /\ job'[t].doc = d /\ job'[t].pc = "insertRow"
      BY <1>1, <1>2 DEF UploadStart, Accept, NewJob, TypeOK
    <2>2. pg[d] = "none"
      BY <1>1, <2>1 DEF ChunksHaveRow, HasRow, Live
    <2>3. ~Held(d)
      BY <1>1, <2>1, <2>2 DEF Held, EntriesRight, EntryRight, Removing, OneUpload, TypeOK, Chunk,
                              SourceTypes
    <2>4. GoodFrame(t)
      BY <1>1, <2>1, <2>3 DEF GoodFrame, Removing, Retagging, Adding, JobRight, Held
    <2> QED
      BY <1>1, <2>4, GoodFrameKeeps
  <1>3. CASE DeleteStart(t) \/ PatchStart(t) \/ ReindexStart(t)
    <2>1. GoodFrame(t)
      BY <1>1, <1>3 DEF DeleteStart, PatchStart, ReindexStart, Accept, NewJob, GoodFrame, Removing,
                        Retagging, Adding, JobRight, TypeOK, stores
    <2> QED
      BY <1>1, <2>1, GoodFrameKeeps
  <1> QED
    BY <1>2, <1>3 DEF Start

\* What is fetched is what pgvector holds.
LEMMA FetchedIsExact == Exact(Fetched)
  <1>1. \A c \in Fetched : /\ c.doc \in Docs /\ c.src = pg[c.doc]
                           /\ c = [doc |-> c.doc, src |-> pg[c.doc], via |-> "fetch"]
    BY DEF Fetched
  <1>2. ASSUME NEW d \in Docs, pg[d] # "none" PROVE \E c \in Fetched : c.doc = d
    <2>1. [doc |-> d, src |-> pg[d], via |-> "fetch"] \in Fetched
      BY <1>2 DEF Fetched
    <2> QED
      BY <2>1
  <1>3. \A c, e \in Fetched : c.doc = e.doc => c = e
    BY <1>1
  <1> QED
    BY <1>1, <1>2, <1>3 DEF Exact

\* A rebuild replaces the index by what pgvector holds, and nobody has changed
\* that since it was fetched.
LEMMA BuildMakesGood ==
    ASSUME Setting, SnapRight, Sure, NEW t \in Slots, RebuildBuild(t)
    PROVE  Good' /\ bm25' = Fetched /\ pg' = pg
  <1>1. TypeOK /\ StartUp /\ RebuildOps
    BY DEF Setting, Course
  <1>2. /\ bm25' = Fetched /\ pg' = pg
        /\ \A u \in Slots : u # t => job'[u] = job[u]
        /\ job'[t].op = job[t].op /\ job[t].op \in {"reindex", "boot"} /\ job[t].pc = "build"
    BY <1>1 DEF RebuildBuild, SnapRight, RebuildOps, TypeOK, Job, stores
  <1>3. \A u \in Slots : job'[u].op \notin Changing
    BY <1>1, <1>2, WhoRuns, Undisturbing DEF Changing, Setting, Sure
  <1>4. EntriesRight' /\ EntriesOnce' /\ ChunksHeld'
    BY <1>2, FetchedIsExact DEF Exact, EntriesRight, EntryRight, EntriesOnce, ChunksHeld, Held
  <1>5. \A u \in Slots : JobRight(u)'
    BY <1>3 DEF JobRight, Changing
  <1> QED
    BY <1>2, <1>4, <1>5 DEF Good

\* A request that changes documents fetches and builds nothing.
LEMMA ChangersDoNotBuild ==
    ASSUME Setting, NEW t \in Slots, job[t].op \in Changing, Advance(t) \/ BumpFails(t)
    PROVE  /\ job'[t].pc # "build" /\ server' = server
           /\ \A u \in Slots : u # t => job'[u] = job[u]
  <1>1. TypeOK /\ RebuildOps
    BY DEF Setting, Course
  <1>2. ASSUME NEW pc, pc # "build", Goto(t, pc)
        PROVE  job'[t].pc # "build" /\ \A u \in Slots : u # t => job'[u] = job[u]
    BY <1>1, <1>2 DEF Goto, TypeOK, Job
  <1>3. ASSUME Return(t)
        PROVE  /\ job'[t].pc # "build" /\ server' = server
               /\ \A u \in Slots : u # t => job'[u] = job[u]
    BY <1>1, <1>3, IdleJobIsJob DEF Return, TypeOK, Changing
  <1>4. CASE BumpKbVersion(t)
    BY <1>1, <1>3, <1>4 DEF BumpKbVersion, TypeOK, Job
  <1>5. CASE SaveToDisk(t) \/ BumpFails(t) \/ ProcessSetError(t)
    BY <1>3, <1>5 DEF SaveToDisk, BumpFails, ProcessSetError
  <1>6. CASE \/ UploadInsertRow(t) \/ ProcessSetIndexing(t) \/ ProcessIngest(t)
             \/ ProcessUpsert(t) \/ ProcessAddBm25(t) \/ ProcessSetIndexed(t)
             \/ DeletePg(t) \/ DeleteBm25(t) \/ DeleteR2(t) \/ DeleteRow(t)
             \/ PatchRow(t) \/ PatchPg(t) \/ PatchBm25(t) \/ PatchFlush(t)
    BY <1>2, <1>6
       DEF UploadInsertRow, ProcessSetIndexing, ProcessIngest, ProcessUpsert, ProcessAddBm25,
           ProcessSetIndexed, DeletePg, DeleteBm25, DeleteR2, DeleteRow, PatchRow, PatchPg,
           PatchBm25, PatchFlush
  <1>7. ~(RebuildFetch(t) \/ RebuildBuild(t))
    BY <1>1 DEF RebuildFetch, RebuildBuild, RebuildOps, Changing
  <1> QED
    BY <1>4, <1>5, <1>6, <1>7 DEF Advance

\* One step per kind of coroutine that moves.
LEMMA IndexRightNext ==
    ASSUME Setting, IndexInv, [Next]_vars, Sure'
    PROVE  IndexRight'
  <1> USE DEF stores, env
  <1>1. TypeOK /\ StartUp /\ RebuildOps
    BY DEF Setting, Course
  <1>2. ASSUME NEW t \in Slots, RebuildFetch(t) PROVE IndexRight'
    <2>1. /\ job[t].pc = "fetch" /\ server' = server /\ Fetched' = Fetched
          /\ \A u \in Slots : u # t => job'[u] = job[u]
          /\ job'[t].pc = "build" /\ job'[t].snap = Fetched
          /\ server # "down"
      BY <1>1, <1>2, WhoRuns DEF RebuildFetch, Fetched, TypeOK, Job
    <2>2. Sure \/ IdleBut(t)
      BY <1>2 DEF RebuildFetch, Sure
    <2>3. \A u \in Slots : u # t /\ job[u].pc = "build" => job[u].snap = Fetched
      BY <2>2 DEF IdleBut, IndexInv, IndexRight, SnapRight
    <2> QED
      BY <2>1, <2>3 DEF IndexRight, Building, SnapRight
  <1> SUFFICES ASSUME \A t \in Slots : ~RebuildFetch(t) PROVE IndexRight'
    BY <1>2
  <1>3. Sure /\ IndexRight /\ trust # "suspect" /\ trust' # "suspect"
    BY SureIsNotGained DEF IndexInv, Sure
  <1>4. ASSUME NEW t \in Slots, Start(t) PROVE IndexRight'
    <2>1. PICK op, d, s, pc :
              /\ Accept(t, op, d, s, pc) /\ pc # "build"
              /\ op \in Changing \/ ReindexStart(t)
              /\ UNCHANGED <<pg, server>>
      BY <1>4 DEF Start, UploadStart, DeleteStart, PatchStart, ReindexStart, Changing
    <2>2. /\ server = "up" /\ \A u \in Slots : u # t => job'[u] = job[u]
          /\ job'[t].pc = pc /\ job[t].pc = "idle"
          /\ \A u \in Slots : ~Conflict(job[u], op, d)
      BY <1>1, <1>3, <2>1 DEF Accept, NewJob, TypeOK
    <2>3. SnapRight' /\ (Building => Building')
      BY <1>3, <2>1, <2>2 DEF IndexRight, SnapRight, Fetched, Building
    <2>4. Good => Good'
      BY <1>4, StartKeepsGood
    <2> QED
      BY <1>1, <1>3, <2>1, <2>2, <2>3, <2>4, WhoRuns DEF IndexRight, BootFetching
  <1>5. ASSUME NEW t \in Slots, job[t].op \in Changing, Advance(t) \/ BumpFails(t)
        PROVE  IndexRight'
    <2>1. Good /\ ~Building /\ server = "up"
      BY <1>3, <1>5, ChangersSeeGood
    <2>2. Good'
      BY <1>3, <1>5, <2>1, ChangersKeepGood
    <2>3. server' = "up" /\ SnapRight'
      BY <1>5, <2>1, ChangersDoNotBuild DEF Building, SnapRight
    <2> QED
      BY <2>2, <2>3 DEF IndexRight
  <1>6. ASSUME NEW t \in Slots, job[t].op \notin Changing,
               BumpKbVersion(t) \/ SaveToDisk(t) \/ BumpFails(t)
        PROVE  IndexRight'
    <2>1. /\ job[t].pc \in {"bump", "save"} /\ pg' = pg
          /\ \A u \in Slots : u # t => job'[u] = job[u]
          /\ job'[t].pc # "build"
          /\ server' = server \/ server' = "up"
      BY <1>1, <1>6, IdleJobIsJob DEF BumpKbVersion, SaveToDisk, BumpFails, Return, TypeOK, Job
    <2>2. server # "down" /\ ~BootFetching
      BY <1>1, <2>1, WhoRuns DEF BootFetching
    <2>3. Building => Building'
      BY <2>1 DEF Building
    <2>4. SnapRight'
      BY <1>3, <2>1 DEF IndexRight, SnapRight, Fetched
    <2>5. Good => Good'
      BY <1>6, RebuildersKeepGood
    <2> QED
      BY <1>3, <2>1, <2>2, <2>3, <2>4, <2>5 DEF IndexRight
  <1>7. ASSUME NEW t \in Slots, RebuildBuild(t) PROVE IndexRight'
    <2>1. Good' /\ pg' = pg
      BY <1>3, <1>7, BuildMakesGood DEF IndexRight
    <2>2. /\ server' = server /\ job[t].pc = "build"
          /\ \A u \in Slots : u # t => job'[u] = job[u]
          /\ job'[t].pc # "build"
      BY <1>1, <1>7 DEF RebuildBuild, TypeOK, Job
    <2>3. server # "down"
      BY <1>1, <2>2, WhoRuns
    <2> QED
      BY <1>3, <2>1, <2>2, <2>3 DEF IndexRight, SnapRight, Fetched
  <1>8. ASSUME NEW t \in Slots, job[t].op \notin Changing, Advance(t)
        PROVE  BumpKbVersion(t) \/ SaveToDisk(t) \/ RebuildBuild(t)
    BY <1>8 DEF Advance, UploadInsertRow, ProcessSetIndexing, ProcessIngest, ProcessUpsert,
                ProcessAddBm25, ProcessSetIndexed, ProcessSetError, DeletePg, DeleteBm25, DeleteR2,
                DeleteRow, PatchRow, PatchPg, PatchBm25, PatchFlush, At, Changing
  <1>9. ASSUME NEW t \in Slots PROVE ~(ProcessFault(t) \/ JobRaises(t))
    BY <1>3 DEF ProcessFault, JobRaises, Fault
  <1>10. ASSUME NEW t \in Slots, Boot(t) PROVE IndexRight'
    <2>1. /\ server = "down" /\ server' = "starting" /\ pg' = pg
          /\ \A u \in Slots : u # t => job'[u] = job[u]
          /\ job'[t].op = "boot" /\ job'[t].pc = "fetch"
      BY <1>1, <1>10 DEF Boot, BootRebuild, BootWithoutRedis, StartRebuild, NewJob, TypeOK
    <2>2. \A u \in Slots : job'[u].pc # "build"
      BY <1>1, <2>1, WhoRuns
    <2> QED
      BY <2>1, <2>2 DEF IndexRight, BootFetching, SnapRight
  <1>11. CASE BootFromDisk
    <2>1. \A u \in Slots : job[u].pc = "idle" /\ job[u].op = "none"
      BY <1>1, <1>11, WhoRuns DEF BootFromDisk
    <2>2. redisFaults = 0 /\ LabelsAreOld
      BY <1>3, <1>11 DEF BootFromDisk, IndexRight, Setting, LabelsInv
    <2>3. disk.ver = version /\ version # 0
      BY <1>1, <1>11, <2>2 DEF BootFromDisk, BootVersion, LabelsAreOld, TypeOK
    <2>4. Exact(disk.chunks)
      BY <1>3, <2>1, <2>2, <2>3 DEF IndexInv, DiskRight, Unannounced
    <2>5. bm25' = disk.chunks /\ job' = job /\ pg' = pg /\ server' = "up"
      BY <1>11 DEF BootFromDisk
    <2>6. EntriesRight' /\ EntriesOnce' /\ ChunksHeld'
      BY <2>4, <2>5 DEF Exact, EntriesRight, EntryRight, EntriesOnce, ChunksHeld, Held
    <2>7. \A u \in Slots : JobRight(u)'
      BY <2>1, <2>5 DEF JobRight
    <2> QED
      BY <2>1, <2>5, <2>6, <2>7 DEF IndexRight, Good, SnapRight
  <1>12. CASE Crash \/ Redeploy
    BY <1>3, <1>12, IdleJobIsJob DEF Crash, Redeploy, Sure, IndexRight, SnapRight
  <1>13. CASE ChatGetsNoVersion \/ ChatSetsVersionOne \/ UNCHANGED vars
    <2>1. UNCHANGED <<pg, bm25, job, server, redisFaults>>
      BY <1>13 DEF ChatGetsNoVersion, ChatSetsVersionOne, vars
    <2>2. Good => Good'
      BY <2>1 DEF Good, EntriesRight, EntryRight, EntriesOnce, ChunksHeld, Held, JobRight, Removing,
                  Retagging, Adding
    <2> QED
      BY <1>3, <2>1, <2>2 DEF IndexRight, BootFetching, Building, SnapRight, Fetched
  <1> QED
    BY <1>4, <1>5, <1>6, <1>7, <1>8, <1>9, <1>10, <1>11, <1>12, <1>13 DEF Next, Fail

\* With nothing unannounced, a good index is exactly what pgvector holds.
LEMMA GoodIsExact ==
    ASSUME Good, \A t \in Slots : job[t].pc \notin Unannounced
    PROVE  Exact(bm25)
  BY DEF Good, EntriesRight, EntryRight, EntriesOnce, ChunksHeld, Held, Removing, Retagging,
         Adding, Unannounced, Exact

\* A step that begins a change, or leaves pgvector and the pickle alone and ends
\* no change.
DiskFrame(t) ==
    \/ job'[t].pc \in Unannounced
    \/ /\ UNCHANGED <<pg, disk, version, redisFaults>>
       /\ \A u \in Slots : u # t => job'[u] = job[u]
       /\ job[t].pc \notin Unannounced

\* One step per way of touching the pickle or the version.
LEMMA DiskRightNext ==
    ASSUME Setting, IndexInv, [Next]_vars, Sure'
    PROVE  DiskRight'
  <1> USE DEF stores, env
  <1>1. TypeOK /\ StartUp /\ RebuildOps
    BY DEF Setting, Course
  <1>2. ASSUME NEW t \in Slots, RebuildFetch(t) PROVE DiskRight'
    BY <1>1, <1>2 DEF RebuildFetch, DiskRight, Unannounced, TypeOK, Job
  <1> SUFFICES ASSUME \A t \in Slots : ~RebuildFetch(t) PROVE DiskRight'
    BY <1>2
  <1>3. Sure /\ IndexRight /\ DiskRight /\ trust # "suspect" /\ trust' # "suspect"
    BY SureIsNotGained DEF IndexInv, Sure
  <1>4. ASSUME NEW t \in Slots, DiskFrame(t) PROVE DiskRight'
    BY <1>3, <1>4 DEF DiskRight, DiskFrame, Exact
  <1>5. ASSUME NEW t \in Slots, Start(t) PROVE DiskFrame(t)
    BY <1>1, <1>5 DEF Start, UploadStart, DeleteStart, PatchStart, ReindexStart, Accept, NewJob,
                      DiskFrame, Unannounced, TypeOK
  <1>6. ASSUME NEW t \in Slots,
               \/ UploadInsertRow(t) \/ ProcessSetIndexing(t) \/ ProcessIngest(t)
               \/ ProcessUpsert(t) \/ ProcessAddBm25(t) \/ ProcessSetIndexed(t)
               \/ DeletePg(t) \/ DeleteBm25(t) \/ DeleteR2(t) \/ DeleteRow(t)
               \/ PatchRow(t) \/ PatchPg(t) \/ PatchBm25(t) \/ PatchFlush(t)
        PROVE  DiskFrame(t)
    BY <1>1, <1>6
       DEF UploadInsertRow, ProcessSetIndexing, ProcessIngest, ProcessUpsert, ProcessAddBm25,
           ProcessSetIndexed, DeletePg, DeleteBm25, DeleteR2, DeleteRow, PatchRow, PatchPg,
           PatchBm25, PatchFlush, At, Goto, DiskFrame, Unannounced, TypeOK, Job
  <1>7. ASSUME NEW t \in Slots, ProcessSetError(t) \/ RebuildBuild(t) PROVE DiskFrame(t)
    BY <1>1, <1>7 DEF ProcessSetError, RebuildBuild, At, Return, DiskFrame, Unannounced, TypeOK, Job
  <1>8. ASSUME NEW t \in Slots, BumpKbVersion(t) PROVE DiskRight'
    <2>1. version' = version + 1 /\ UNCHANGED <<disk, redisFaults>>
      BY <1>8 DEF BumpKbVersion
    <2> QED
      BY <1>1, <2>1 DEF DiskRight, Setting, LabelsInv, LabelsAreOld, TypeOK
  <1>9. ASSUME NEW t \in Slots, SaveToDisk(t) PROVE DiskRight'
    <2> SUFFICES ASSUME \A u \in Slots : job'[u].pc \notin Unannounced PROVE Exact(disk.chunks)'
      BY DEF DiskRight
    <2>1. /\ job[t].pc = "save" /\ disk'.chunks = bm25 /\ pg' = pg
          /\ \A u \in Slots : u # t => job'[u] = job[u]
      BY <1>1, <1>3, <1>9 DEF SaveToDisk, Fault, Return, TypeOK
    <2>2. \A u \in Slots : job[u].pc \notin Unannounced
      BY <2>1 DEF Unannounced
    <2>3. server # "down" /\ ~BootFetching /\ ~Building
      BY <1>1, <2>1, <2>2, WhoRuns DEF BootFetching, Building, Unannounced
    <2>4. Exact(bm25)
      BY <1>3, <2>2, <2>3, GoodIsExact DEF IndexRight
    <2> QED
      BY <2>1, <2>4 DEF Exact
  <1>10. ASSUME NEW t \in Slots, BumpFails(t) \/ BootWithoutRedis(t) PROVE DiskRight'
    BY <1>1, <1>10 DEF BumpFails, BootWithoutRedis, DiskRight, TypeOK
  <1>11. ASSUME NEW t \in Slots PROVE ~(ProcessFault(t) \/ JobRaises(t))
    BY <1>3 DEF ProcessFault, JobRaises, Fault
  <1>12. ASSUME NEW t \in Slots, BootRebuild(t) PROVE DiskRight'
    BY <1>12 DEF BootRebuild, StartRebuild, DiskRight
  <1>13. CASE BootFromDisk
    <2>1. redisFaults = 0 /\ LabelsAreOld
      BY <1>3, <1>13 DEF BootFromDisk, IndexRight, Setting, LabelsInv
    <2>2. version' = version /\ UNCHANGED <<pg, disk, job, redisFaults>>
      BY <1>1, <1>13, <2>1 DEF BootFromDisk, BootVersion, LabelsAreOld, TypeOK
    <2> QED
      BY <1>3, <2>2 DEF DiskRight, Exact
  <1>14. CASE Crash
    <2>1. \A t \in Slots : job[t].pc = "idle"
      BY <1>3, <1>14 DEF Crash
    <2> QED
      BY <1>3, <1>14, <2>1 DEF Crash, DiskRight, Exact, Unannounced
  <1>15. ~Redeploy
    BY DEF Redeploy, Sure
  <1>16. CASE ChatGetsNoVersion \/ ChatSetsVersionOne
    BY <1>3, <1>16 DEF ChatGetsNoVersion, ChatSetsVersionOne, Setting, LabelsInv, LabelsAreOld,
                       DiskRight, Exact
  <1>17. CASE UNCHANGED vars
    BY <1>3, <1>17 DEF vars, DiskRight, Exact
  <1> QED
    BY <1>4, <1>5, <1>6, <1>7, <1>8, <1>9, <1>10, <1>11, <1>12, <1>13, <1>14, <1>15, <1>16, <1>17
       DEF Next, Advance, Fail, Boot

\* Requests that do not disturb each other leave BM25 with exactly the documents
\* that have chunks in pgvector, once each and with their label; restarts of an
\* idle server keep it so, and a rebuild that runs alone restores it whatever
\* came before.
THEOREM IndexesAlwaysAgree == Spec => []IndexesAgreeWhenQuiet
  <1>1. Init => IndexInv
    <2> SUFFICES ASSUME Init PROVE IndexRight /\ DiskRight
      BY DEF IndexInv
    <2>1. IndexRight
      BY IdleJobIsJob DEF Init, IndexRight, SnapRight
    <2>2. DiskRight
      BY DEF Init, DiskRight
    <2> QED
      BY <2>1, <2>2
  <1>2. Setting /\ IndexInv /\ [Next]_vars => IndexInv'
    BY IndexRightNext, DiskRightNext DEF IndexInv
  <1>3. Setting /\ IndexInv => IndexesAgreeWhenQuiet
    <2> SUFFICES ASSUME Setting, IndexRight, server = "up", \A t \in Slots : job[t].pc = "idle"
                 PROVE  \A d \in Docs :
                            LET copies == {c \in bm25 : c.doc = d} IN
                            /\ copies # {} <=> pg[d] # "none"
                            /\ \A c, e \in copies : c = e /\ c.src = pg[d]
      BY DEF IndexInv, Sure, IndexesAgreeWhenQuiet, Quiet, Idle
    <2>1. Good
      BY DEF IndexRight, BootFetching, Building
    <2>2. Exact(bm25)
      BY <2>1, GoodIsExact DEF Unannounced
    <2>3. \A c \in bm25 : c.src # "none"
      BY DEF Setting, Course, TypeOK, Chunk, SourceTypes
    <2> TAKE d \in Docs
    <2> DEFINE copies == {c \in bm25 : c.doc = d}
    <2>4. \A c, e \in copies : c = e /\ c.src = pg[d]
      BY <2>2 DEF Exact
    <2>5. copies # {} => pg[d] # "none"
      BY <2>3, <2>4
    <2>6. pg[d] # "none" => copies # {}
      BY <2>2 DEF Exact
    <2> QED
      BY <2>4, <2>5, <2>6
  <1>4. QED
    BY <1>1, <1>2, <1>3, SettingAlways, PTL DEF Spec
=============================================================================
