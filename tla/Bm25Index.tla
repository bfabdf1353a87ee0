----------------------------- MODULE Bm25Index -----------------------------
(***************************************************************************)
(* The in-memory BM25 index and its pickle, at the grain of threads.       *)
(*                                                                         *)
(* The event loop changes the index, one change at a time, in two steps:   *)
(* the list of chunks first, the BM25Okapi object, which scores by         *)
(* position, only after all of it has been tokenized.  Meanwhile threads   *)
(* of the pool search the index and pickle it, with no lock.               *)
(*                                                                         *)
(* KnowledgeBase has the requests in full and takes a change, a search and *)
(* a save for one step each.  Here a document is one chunk, the corpus,    *)
(* which nothing but the BM25Okapi constructor reads, is left out, and a   *)
(* pickle is written in two parts, the list of chunks and the rest.        *)
(***************************************************************************)
EXTENDS Naturals, Sequences, Functions

CONSTANTS
    Docs,           \* documents, one chunk each; ids are never reused
    Official,       \* those of source_type "official"; the rest "experience"
    Coroutines,     \* admin coroutines, each with its own save at its end
    Searchers,      \* pool threads, one search each
    MaxChanges,     \* bound: changes of the index
    MaxCrashes      \* bound: crashes of the process

ASSUME OfficialAssumption == Official \subseteq Docs
ASSUME BoundsAssumption == MaxChanges \in Nat /\ MaxCrashes \in Nat

VARIABLES
    heap,       \* the list objects made so far, each a sequence of documents
    chunks,     \* self._chunks: the position in heap of the current list
    bm25,       \* self._bm25: the documents it scores, by position; <<>> is None
    version,    \* campusgpt:kb_version
    suspect,    \* history: loaded from a save that was overlapped, unchanged since
    inodes,     \* the files written so far, [head, tail, alone]
    tmp, disk,  \* the names bm25_index.tmp and .pkl: an inode, 0 for no file
    server,     \* "down", "starting" or "up"
    job,        \* [Coroutines -> Job]
    search,     \* [Searchers -> Search]
    changes, crashes   \* bounded counters

index == <<heap, chunks, bm25, suspect>>
files == <<inodes, tmp, disk>>
vars == <<index, version, files, server, job, search, changes, crashes>>

-----------------------------------------------------------------------------
SourceOf(d) == IF d \in Official THEN "official" ELSE "experience"
Chunks == heap[chunks]
Positions(list) == 1..Len(list)

\* A part of a file: the label of the save that wrote it, and what it wrote.
Part(ver, list) == [ver |-> ver, list |-> list]
NoPart == Part(0, <<>>)

\* An opened file; alone says that nobody overlapped the saves writing it
\* (history, like alone in a job).
EmptyFile(alone) == [head |-> NoPart, tail |-> NoPart, alone |-> alone]

\* A fetch from pgvector returns some of the documents, in some order.
Snapshots == UNION {{s \in [1..n -> Docs] : IsInjective(s)} : n \in 0..2}

NoJob == [pc |-> "idle", op |-> "none", ver |-> 0, list |-> 0,
          scores |-> <<>>, inode |-> 0, alone |-> FALSE]
NewSearch == [pc |-> "new", filter |-> "none", eligible |-> {}, scored |-> <<>>,
              todo |-> {}, found |-> {}, overlaps |-> {}]

Ops == {"add", "remove", "build"}
JobSteps == {"idle", "index", "bump", "capture", "open", "head", "tail", "rename"}
Job == [pc : JobSteps, op : Ops \cup {"none"}, ver : Nat, list : Nat,
        scores : Seq(Docs), inode : Nat, alone : BOOLEAN]
SearchSteps == {"new", "filter", "score", "copy", "done", "failed"}
SearchRecord ==
    [pc : SearchSteps, filter : {"none", "official", "experience"},
     eligible : SUBSET Nat, scored : Seq(Docs), todo : SUBSET Nat,
     found : SUBSET [at : Nat, doc : Docs], overlaps : SUBSET (Ops \cup {"load"})]
File == [head : [ver : Nat, list : Seq(Docs)], tail : [ver : Nat, list : Seq(Docs)],
         alone : BOOLEAN]

TypeOK ==
    /\ heap \in Seq(Seq(Docs)) /\ chunks \in DOMAIN heap
    /\ bm25 \in Seq(Docs) /\ suspect \in BOOLEAN
    /\ version \in Nat
    /\ inodes \in Seq(File)
    /\ tmp \in 0..Len(inodes) /\ disk \in 0..Len(inodes)
    /\ server \in {"down", "starting", "up"}
    /\ job \in [Coroutines -> Job]
    /\ \A c \in Coroutines :
          /\ job[c].pc = "index" => job[c].op # "none"
          /\ job[c].pc \in {"open", "head"} => job[c].list \in DOMAIN heap
          /\ job[c].pc \in {"head", "tail"} => job[c].inode \in DOMAIN inodes
    /\ search \in [Searchers -> SearchRecord]
    /\ \A s \in Searchers : search[s].todo \subseteq Positions(search[s].scored)
    /\ changes \in Nat /\ crashes \in 0..MaxCrashes

\* After the first start-up on an empty deployment: the counter was set to 1,
\* and the rebuild incremented it and saved the empty index.
Init ==
    /\ heap = << <<>> >> /\ chunks = 1 /\ bm25 = <<>> /\ suspect = FALSE
    /\ version = 2
    /\ inodes = <<[head |-> Part(2, <<>>), tail |-> Part(2, <<>>), alone |-> TRUE]>>
    /\ tmp = 0 /\ disk = 1
    /\ server = "up"
    /\ job = [c \in Coroutines |-> NoJob]
    /\ search = [s \in Searchers |-> NewSearch]
    /\ changes = 0 /\ crashes = 0

-----------------------------------------------------------------------------
(* Changing the index: add_chunks, remove_by_document_id and                *)
(* build_from_chunks on the event loop, which does nothing else meanwhile.  *)

LoopIsFree == \A c \in Coroutines : job[c].pc # "index"

Running(s) == search[s].pc \in {"filter", "score", "copy"}

\* A change begins: the list of chunks is already the new one.  Every search
\* that is running, and every save, is overlapped by it (history only).
BeginChange(c, op) ==
    /\ LoopIsFree
    /\ changes' = changes + 1
    /\ job' = [k \in Coroutines |->
                  IF k = c THEN [NoJob EXCEPT !.pc = "index", !.op = op]
                           ELSE [job[k] EXCEPT !.alone = FALSE]]
    /\ search' = [s \in Searchers |->
                     IF Running(s) THEN [search[s] EXCEPT !.overlaps = @ \cup {op}]
                                   ELSE search[s]]
    /\ UNCHANGED <<bm25, suspect, version, files, crashes>>

Request(c) == server = "up" /\ job[c].pc = "idle" /\ changes < MaxChanges

\* Mutant: the extended list is a new object, like the other changes make.
ReplaceExtended(c) ==
    /\ Request(c)
    /\ \E d \in Docs :
          /\ \A l \in DOMAIN heap : d \notin Range(heap[l])
          /\ heap' = Append(heap, <<d>> \o Chunks) /\ chunks' = Len(heap) + 1
    /\ BeginChange(c, "add")
    /\ UNCHANGED server

\* add_chunks extends the list object in place.
AddChunks(c) ==
    /\ Request(c)
    /\ \E d \in Docs :
          /\ \A l \in DOMAIN heap : d \notin Range(heap[l])
          /\ heap' = [heap EXCEPT ![chunks] = Append(@, d)]
    /\ BeginChange(c, "add")
    /\ UNCHANGED <<chunks, server>>

\* remove_by_document_id and build_from_chunks make a new list object.  The
\* list has one chunk of each document, so that one position is filtered out.
RemoveByDocumentId(c) ==
    /\ Request(c)
    /\ \E i \in Positions(Chunks) :
          heap' = Append(heap, SubSeq(Chunks, 1, i - 1)
                                   \o SubSeq(Chunks, i + 1, Len(Chunks)))
    /\ chunks' = Len(heap) + 1
    /\ BeginChange(c, "remove")
    /\ UNCHANGED server

BuildFromChunks(c) ==
    /\ \E snapshot \in Snapshots : heap' = Append(heap, snapshot)
    /\ chunks' = Len(heap) + 1
    /\ BeginChange(c, "build")

Reindex(c) == Request(c) /\ BuildFromChunks(c) /\ UNCHANGED server

\* Mutant: a list that became empty keeps the old BM25Okapi.
FinishChangeUnlessEmpty(c) ==
    /\ job[c].pc = "index"
    /\ bm25' = (IF Chunks = <<>> THEN bm25 ELSE Chunks) /\ suspect' = FALSE
    /\ job' = [job EXCEPT ![c].pc = "bump"]
    /\ UNCHANGED <<heap, chunks, version, files, server, search, changes, crashes>>

\* The corpus is tokenized and BM25Okapi made of it; no chunk, no BM25Okapi.
FinishChange(c) ==
    /\ job[c].pc = "index"
    /\ bm25' = Chunks /\ suspect' = FALSE
    /\ job' = [job EXCEPT ![c].pc = "bump"]
    /\ UNCHANGED <<heap, chunks, version, files, server, search, changes, crashes>>

BumpKbVersion(c) ==
    /\ job[c].pc = "bump"
    /\ version' = version + 1
    /\ job' = [job EXCEPT ![c].pc = "capture", ![c].ver = version + 1]
    /\ UNCHANGED <<index, files, server, search, changes, crashes>>

-----------------------------------------------------------------------------
(* save_to_disk, in a pool thread.                                         *)

\* The payload holds the list object itself, not a copy of it.
SaveCapture(c) ==
    /\ job[c].pc = "capture"
    /\ job' = [job EXCEPT ![c].pc = "open", ![c].list = chunks, ![c].scores = bm25,
                           ![c].alone = \A k \in Coroutines \ {c} : job[k].pc = "idle"]
    /\ UNCHANGED <<index, version, files, server, search, changes, crashes>>

\* open(tmp_path, "wb") makes the file or empties the one that is there, be it
\* the one another save is writing.
SaveOpen(c) ==
    /\ job[c].pc = "open"
    /\ IF tmp = 0
         THEN /\ inodes' = Append(inodes, EmptyFile(job[c].alone))
              /\ tmp' = Len(inodes) + 1
         ELSE /\ inodes' = [inodes EXCEPT ![tmp] = EmptyFile(job[c].alone)]
              /\ tmp' = tmp
    /\ job' = [job EXCEPT ![c].pc = "head", ![c].inode = tmp']
    /\ UNCHANGED <<index, version, disk, server, search, changes, crashes>>

\* pickle.dump reaches the list of chunks ...
SaveHead(c) ==
    /\ job[c].pc = "head"
    /\ inodes' = [inodes EXCEPT
                      ![job[c].inode].head = Part(job[c].ver, heap[job[c].list]),
                      ![job[c].inode].alone = @ /\ job[c].alone]
    /\ job' = [job EXCEPT ![c].pc = "tail"]
    /\ UNCHANGED <<index, version, tmp, disk, server, search, changes, crashes>>

\* ... and then the BM25Okapi, which nobody changes in place.
SaveTail(c) ==
    /\ job[c].pc = "tail"
    /\ inodes' = [inodes EXCEPT
                      ![job[c].inode].tail = Part(job[c].ver, job[c].scores),
                      ![job[c].inode].alone = @ /\ job[c].alone]
    /\ job' = [job EXCEPT ![c].pc = "rename"]
    /\ UNCHANGED <<index, version, tmp, disk, server, search, changes, crashes>>

\* Mutant: the file is renamed as soon as its first part is out.
SaveRenameEarly(c) ==
    /\ job[c].pc \in {"tail", "rename"}
    /\ IF tmp # 0 THEN disk' = tmp /\ tmp' = 0 ELSE UNCHANGED <<tmp, disk>>
    /\ job' = IF job[c].pc = "tail" THEN job ELSE [job EXCEPT ![c] = NoJob]
    /\ server' = "up"
    /\ UNCHANGED <<index, version, inodes, search, changes, crashes>>

\* The rename.  If another save has already renamed the file, the error is
\* swallowed.  The coroutine ends; when it was the start-up, requests begin.
SaveRename(c) ==
    /\ job[c].pc = "rename"
    /\ IF tmp # 0 THEN disk' = tmp /\ tmp' = 0 ELSE UNCHANGED <<tmp, disk>>
    /\ job' = [job EXCEPT ![c] = NoJob]
    /\ server' = "up"
    /\ UNCHANGED <<index, version, inodes, search, changes, crashes>>

-----------------------------------------------------------------------------
(* search, in a pool thread (hybrid_retrieve).                             *)

\* What overlaps a search from its start (history): the change under way, and
\* the load of a pickle whose save had been overlapped.
OverlapsNow ==
    {job[c].op : c \in {k \in Coroutines : job[k].pc = "index"}}
        \cup (IF suspect THEN {"load"} ELSE {})

Update(s, new) ==
    /\ search' = [search EXCEPT ![s] = new]
    /\ UNCHANGED <<index, version, files, server, job, changes, crashes>>

\* Mutant: the empty index is searched like any other.
SearchStartUnchecked(s) ==
    /\ server = "up" /\ search[s].pc = "new"
    /\ \E filter \in {"none", "official", "experience"} :
          Update(s, [search[s] EXCEPT
              !.pc = IF filter = "none" THEN "score" ELSE "filter",
              !.filter = filter,
              !.overlaps = OverlapsNow])

\* The empty index has nothing to search.  The filter is the mode's.
SearchStart(s) ==
    /\ server = "up" /\ search[s].pc = "new"
    /\ \E filter \in {"none", "official", "experience"} :
          Update(s, [search[s] EXCEPT
              !.pc = IF bm25 = <<>> \/ Chunks = <<>> THEN "done"
                     ELSE IF filter = "none" THEN "score" ELSE "filter",
              !.filter = filter,
              !.overlaps = OverlapsNow])

SearchFilter(s) ==
    LET eligible == {i \in Positions(Chunks) : SourceOf(Chunks[i]) = search[s].filter}
    IN
    /\ search[s].pc = "filter"
    /\ Update(s, [search[s] EXCEPT
           !.pc = IF eligible = {} THEN "done" ELSE "score", !.eligible = eligible])

\* Mutant: the scores are not looked up for every eligible position.
SearchScoreLenient(s) ==
    LET candidates == IF search[s].filter = "none" THEN Positions(bm25)
                                                   ELSE search[s].eligible
    IN
    /\ search[s].pc = "score"
    /\ IF bm25 = <<>>
         THEN Update(s, [search[s] EXCEPT !.pc = "failed"])
         ELSE \E hits \in SUBSET candidates :
                 Update(s, [search[s] EXCEPT !.pc = "copy", !.scored = bm25,
                                             !.todo = hits, !.eligible = {}])

\* get_scores of the BM25Okapi of this moment.  None has no such method, and
\* an eligible position beyond the scores is an IndexError.  The positions
\* with a score above zero, the top_k of them, go on.
SearchScore(s) ==
    LET candidates == IF search[s].filter = "none" THEN Positions(bm25)
                                                   ELSE search[s].eligible
    IN
    /\ search[s].pc = "score"
    /\ IF bm25 = <<>> \/ ~(candidates \subseteq Positions(bm25))
         THEN Update(s, [search[s] EXCEPT !.pc = "failed"])
         ELSE \E hits \in SUBSET candidates :
                 Update(s, [search[s] EXCEPT !.pc = "copy", !.scored = bm25,
                                             !.todo = hits, !.eligible = {}])

\* The chunk at one of the positions, in the list of this moment.
SearchCopy(s) ==
    /\ search[s].pc = "copy"
    /\ \E i \in search[s].todo :
          IF i \in Positions(Chunks)
            THEN Update(s, [search[s] EXCEPT !.todo = @ \ {i},
                                !.found = @ \cup {[at |-> i, doc |-> Chunks[i]]}])
            ELSE Update(s, [search[s] EXCEPT !.pc = "failed"])

SearchEnd(s) ==
    /\ search[s].pc = "copy" /\ search[s].todo = {}
    /\ Update(s, [search[s] EXCEPT !.pc = "done"])

-----------------------------------------------------------------------------
(* Crash and start-up.                                                     *)

Crash ==
    /\ server # "down" /\ crashes < MaxCrashes
    /\ crashes' = crashes + 1
    /\ server' = "down"
    /\ heap' = << <<>> >> /\ chunks' = 1 /\ bm25' = <<>> /\ suspect' = FALSE
    /\ job' = [c \in Coroutines |-> NoJob]
    /\ search' = [s \in Searchers |->
                     IF Running(s) THEN NewSearch ELSE search[s]]
    /\ UNCHANGED <<version, files, changes>>

Unreadable(file) == file.head.ver = 0 \/ file.tail.ver = 0
Mixed(file) == file.head.ver # file.tail.ver

\* The file can be unpickled, at least in part, and has the expected version.
Loadable ==
    disk # 0 /\ ~Unreadable(inodes[disk]) /\ inodes[disk].head.ver = version

\* load_from_disk returns True.  A file made of two saves may or may not be
\* one that can be unpickled.
LoadFromDisk ==
    /\ server = "down"
    /\ Loadable
    /\ heap' = <<inodes[disk].head.list>> /\ chunks' = 1
    /\ bm25' = inodes[disk].tail.list
    /\ suspect' = ~inodes[disk].alone
    /\ server' = "up"
    /\ UNCHANGED <<version, files, job, search, changes, crashes>>

\* It returns False: the start-up rebuilds the index before it serves.
LoadFails(c) ==
    /\ server = "down"
    /\ ~(Loadable /\ ~Mixed(inodes[disk]))
    /\ BuildFromChunks(c)
    /\ server' = "starting"

-----------------------------------------------------------------------------
Change(c) == AddChunks(c) \/ RemoveByDocumentId(c) \/ Reindex(c) \/ LoadFails(c)

Save(c) ==
    SaveCapture(c) \/ SaveOpen(c) \/ SaveHead(c) \/ SaveTail(c) \/ SaveRename(c)

Search(s) ==
    \/ SearchStart(s) \/ SearchFilter(s) \/ SearchScore(s)
    \/ SearchCopy(s) \/ SearchEnd(s)

Next ==
    \/ \E c \in Coroutines :
          Change(c) \/ FinishChange(c) \/ BumpKbVersion(c) \/ Save(c)
    \/ \E s \in Searchers : Search(s)
    \/ LoadFromDisk
    \/ Crash

Spec == Init /\ [][Next]_vars

-----------------------------------------------------------------------------
(* Properties.                                                             *)

Filtered(s) == search[s].filter # "none"

\* Uploads never mislead a search: whatever they interleave with, each chunk
\* returned is the chunk whose score it carries, and one the filter let in.
\* Not so when another change overlapped the search, or when the index came
\* from a pickle whose save was overlapped and nothing has changed it since.
UploadsNeverMislead ==
    \A s \in Searchers : search[s].overlaps \subseteq {"add"} =>
        \A f \in search[s].found :
            /\ f.doc = search[s].scored[f.at]
            /\ Filtered(s) => SourceOf(f.doc) = search[s].filter

\* A search fails only when a change overlaps it, or the index is from a pickle
\* whose save was overlapped; an unfiltered one survives uploads.
SearchesFailOnlyByOverlap ==
    \A s \in Searchers : search[s].pc = "failed" =>
        /\ search[s].overlaps # {}
        /\ search[s].overlaps = {"add"} => Filtered(s)

\* Between changes the index scores exactly the chunks it holds, position by
\* position, however many coroutines change and save it.  The one exception is
\* a restart from a pickle whose save another coroutine overlapped, and it ends
\* with the next change.
IndexIsAligned == server = "up" /\ LoopIsFree /\ ~suspect => bm25 = Chunks

\* "The file is written atomically ... so a crash mid-write never leaves a
\* corrupted cache file" (bm25_index.py:287-288): the pickle of a save that no
\* other coroutine overlapped is the whole work of that save, of an aligned
\* index, wherever the process crashed since.  The sentence is too strong: all
\* saves share one temporary name, so a second save empties the file that the
\* first then renames, and a crash leaves it unfinished under the final name.
LoneSavesAreWhole ==
    disk # 0 /\ inodes[disk].alone =>
        /\ ~Unreadable(inodes[disk]) /\ ~Mixed(inodes[disk])
        /\ inodes[disk].head.list = inodes[disk].tail.list

\* "filter candidate chunks on the source_type property before merging or
\* reranking, preventing cross-contamination": a search for one source_type
\* returns no chunk of the other, whatever changes the index meanwhile.
SearchIsolation ==
    \A s \in Searchers : search[s].pc = "done" /\ Filtered(s) =>
        \A f \in search[s].found : SourceOf(f.doc) = search[s].filter
=============================================================================
