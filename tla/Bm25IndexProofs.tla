-------------------------- MODULE Bm25IndexProofs --------------------------
(***************************************************************************)
(* Proofs about Bm25Index: for any documents, any number of coroutines     *)
(* that change and save the index, any number of searches and crashes, and *)
(* lists of any length.                                                    *)
(***************************************************************************)
EXTENDS Bm25Index, SequenceTheorems, TLAPS

-----------------------------------------------------------------------------
(* Lists.                                                                  *)

\* A list without one of its positions is a list of the same elements.
LEMMA PartOfList ==
    ASSUME NEW S, NEW s \in Seq(S), NEW i \in 1..Len(s)
    PROVE  SubSeq(s, 1, i - 1) \o SubSeq(s, i + 1, Len(s)) \in Seq(S)
  <1>1. Len(s) \in Nat
    BY LenProperties
  <1>2. SubSeq(s, 1, i - 1) \in Seq(S) /\ SubSeq(s, i + 1, Len(s)) \in Seq(S)
    BY <1>1, SubSeqProperties
  <1>3. QED
    BY <1>2, ConcatProperties

\* A snapshot is a list of documents.
LEMMA SnapshotIsList == \A snapshot \in Snapshots : snapshot \in Seq(Docs)
  <1> SUFFICES ASSUME NEW snapshot \in Snapshots PROVE snapshot \in Seq(Docs)
    OBVIOUS
  <1>1. PICK n \in 0..2 : snapshot \in [1..n -> Docs]
    BY DEF Snapshots
  <1>2. n \in Nat
    OBVIOUS
  <1>3. QED
    BY <1>1, <1>2, IsASeq

\* One list begins with the other.
Begins(s, t) == Len(s) <= Len(t) /\ \A i \in Positions(s) : t[i] = s[i]

\* A list of lists with another list at its end.
LEMMA AppendedList ==
    ASSUME NEW S, NEW s \in Seq(S), NEW e \in S
    PROVE  /\ Append(s, e) \in Seq(S)
           /\ Len(Append(s, e)) = Len(s) + 1
           /\ DOMAIN Append(s, e) = 1..(Len(s) + 1)
           /\ Append(s, e)[Len(s) + 1] = e
           /\ \A i \in 1..Len(s) : Append(s, e)[i] = s[i]
           /\ Begins(s, Append(s, e))
  BY AppendProperties, LenProperties DEF Begins, Positions

-----------------------------------------------------------------------------
(* Types.                                                                  *)

\* What runs nowhere is a job and a search.
LEMMA IdleTypes == NoJob \in Job /\ NewSearch \in SearchRecord
  <1>1. <<>> \in Seq(Docs)
    BY EmptySeq
  <1>2. QED
    BY <1>1 DEF NoJob, NewSearch, Job, SearchRecord, JobSteps, SearchSteps, Ops

\* What a change does to the lists: the ones there were stay, and only the
\* current one may grow.
ListsKept ==
    /\ heap' \in Seq(Seq(Docs)) /\ chunks' \in DOMAIN heap'
    /\ DOMAIN heap \subseteq DOMAIN heap'
    /\ \A l \in DOMAIN heap : Begins(heap[l], heap'[l])

\* The rest of a change: a job begins, the searches that run are overlapped.
LEMMA BeginChangeTypes ==
    ASSUME TypeOK, NEW c \in Coroutines, NEW op \in Ops, BeginChange(c, op), ListsKept,
           server' \in {"down", "starting", "up"}
    PROVE  TypeOK'
  <1>1. job' \in [Coroutines -> Job]
    <2>1. [NoJob EXCEPT !.pc = "index", !.op = op] \in Job
      BY IdleTypes DEF Job, JobSteps, Ops
    <2>2. \A k \in Coroutines : [job[k] EXCEPT !.alone = FALSE] \in Job
      BY DEF TypeOK, Job
    <2>3. QED
      BY <2>1, <2>2 DEF BeginChange
  <1>2. \A d \in Coroutines :
            /\ job'[d].pc = "index" => job'[d].op # "none"
            /\ job'[d].pc \in {"open", "head"} => job'[d].list \in DOMAIN heap'
            /\ job'[d].pc \in {"head", "tail"} => job'[d].inode \in DOMAIN inodes'
    BY IdleTypes DEF TypeOK, BeginChange, ListsKept, files, Job, NoJob, Ops
  <1>3. search' \in [Searchers -> SearchRecord]
    BY DEF TypeOK, BeginChange, SearchRecord
  <1>4. \A s \in Searchers : search'[s].todo \subseteq Positions(search'[s].scored)
    BY DEF TypeOK, BeginChange, SearchRecord, Positions
  <1>5. /\ bm25' \in Seq(Docs) /\ suspect' \in BOOLEAN /\ version' \in Nat /\ inodes' \in Seq(File)
        /\ tmp' \in 0..Len(inodes') /\ disk' \in 0..Len(inodes')
        /\ changes' \in Nat /\ crashes' \in 0..MaxCrashes
    BY DEF TypeOK, BeginChange, files
  <1>6. QED
    BY <1>1, <1>2, <1>3, <1>4, <1>5 DEF TypeOK, ListsKept

\* A list object is made, of documents.
LEMMA NewListKeepsLists ==
    ASSUME TypeOK, NEW list \in Seq(Docs), heap' = Append(heap, list), chunks' = Len(heap) + 1
    PROVE  ListsKept /\ Chunks' = list
  <1>1. heap \in Seq(Seq(Docs)) /\ DOMAIN heap = 1..Len(heap) /\ Len(heap) \in Nat
    BY LenProperties DEF TypeOK
  <1>2. \A l \in DOMAIN heap : Begins(heap[l], heap'[l])
    <2> SUFFICES ASSUME NEW l \in DOMAIN heap PROVE Begins(heap[l], heap'[l])
      OBVIOUS
    <2>1. heap[l] \in Seq(Docs) /\ heap'[l] = heap[l]
      BY <1>1, AppendedList, ElementOfSeq
    <2>2. QED
      BY <2>1, LenProperties DEF Begins, Positions
  <1>3. QED
    BY <1>1, <1>2, AppendedList DEF ListsKept, Chunks

\* The current list object is extended.
LEMMA ExtensionKeepsLists ==
    ASSUME TypeOK, NEW d \in Docs,
           heap' = [heap EXCEPT ![chunks] = Append(@, d)], chunks' = chunks
    PROVE  ListsKept /\ Chunks' = Append(Chunks, d) /\ Begins(Chunks, Chunks')
  <1>1. heap \in Seq(Seq(Docs)) /\ DOMAIN heap = 1..Len(heap) /\ Len(heap) \in Nat
    BY LenProperties DEF TypeOK
  <1>2. Chunks \in Seq(Docs) /\ chunks \in 1..Len(heap)
    BY <1>1, ElementOfSeq DEF TypeOK, Chunks
  <1>3. Append(Chunks, d) \in Seq(Docs) /\ Begins(Chunks, Append(Chunks, d))
    BY <1>2, AppendedList
  <1>4. heap' \in Seq(Seq(Docs)) /\ DOMAIN heap' = DOMAIN heap
    BY <1>1, <1>2, <1>3, ExceptSeq DEF Chunks
  <1>5. Chunks' = Append(Chunks, d)
    BY <1>1, <1>2 DEF Chunks
  <1>6. \A l \in DOMAIN heap : Begins(heap[l], heap'[l])
    <2> SUFFICES ASSUME NEW l \in DOMAIN heap PROVE Begins(heap[l], heap'[l])
      OBVIOUS
    <2>1. CASE l = chunks
      BY <1>3, <1>5, <2>1 DEF Chunks
    <2>2. CASE l # chunks
      <3>1. heap[l] \in Seq(Docs) /\ heap'[l] = heap[l]
        BY <1>1, <2>2, ElementOfSeq
      <3>2. QED
        BY <3>1, LenProperties DEF Begins, Positions
    <2>3. QED
      BY <2>1, <2>2
  <1>7. QED
    BY <1>1, <1>2, <1>3, <1>4, <1>5, <1>6 DEF ListsKept

\* What the changes have in common, and how an upload differs from the others.
LEMMA ChangeForm ==
    ASSUME TypeOK, NEW c \in Coroutines, Change(c)
    PROVE  /\ ListsKept
           /\ \E op \in Ops : BeginChange(c, op) /\ (op = "add" => Begins(Chunks, Chunks'))
           /\ \/ server = "up" /\ server' = "up"
              \/ server = "down" /\ server' = "starting"
  <1>1. CASE AddChunks(c)
    <2>1. PICK d \in Docs : heap' = [heap EXCEPT ![chunks] = Append(@, d)]
      BY <1>1 DEF AddChunks
    <2>2. BeginChange(c, "add") /\ chunks' = chunks /\ server = "up" /\ server' = "up"
      BY <1>1 DEF AddChunks, Request
    <2>3. QED
      BY <2>1, <2>2, ExtensionKeepsLists DEF Ops
  <1>2. CASE RemoveByDocumentId(c)
    <2>1. PICK i \in Positions(Chunks) :
              heap' = Append(heap, SubSeq(Chunks, 1, i - 1)
                                       \o SubSeq(Chunks, i + 1, Len(Chunks)))
      BY <1>2 DEF RemoveByDocumentId
    <2>2. Chunks \in Seq(Docs)
      BY ElementOfSeq, LenProperties DEF TypeOK, Chunks
    <2>3. SubSeq(Chunks, 1, i - 1) \o SubSeq(Chunks, i + 1, Len(Chunks)) \in Seq(Docs)
      BY <2>1, <2>2, PartOfList DEF Positions
    <2>4. BeginChange(c, "remove") /\ chunks' = Len(heap) + 1 /\ server = "up" /\ server' = "up"
      BY <1>2 DEF RemoveByDocumentId, Request
    <2>5. QED
      BY <2>1, <2>3, <2>4, NewListKeepsLists DEF Ops
  <1>3. ASSUME BuildFromChunks(c) PROVE ListsKept /\ BeginChange(c, "build")
    BY <1>3, SnapshotIsList, NewListKeepsLists DEF BuildFromChunks
  <1>4. CASE Reindex(c)
    BY <1>3, <1>4 DEF Reindex, Request, Ops
  <1>5. CASE LoadFails(c)
    BY <1>3, <1>5 DEF LoadFails, Ops
  <1>6. QED
    BY <1>1, <1>2, <1>4, <1>5 DEF Change

\* A search stays one, and goes on with positions it has scores for.
LEMMA SearchForm ==
    ASSUME TypeOK, NEW s \in Searchers, Search(s)
    PROVE  \E new \in SearchRecord :
               Update(s, new) /\ new.todo \subseteq Positions(new.scored)
  <1>1. /\ search[s] \in SearchRecord
        /\ search[s].todo \subseteq Positions(search[s].scored)
        /\ bm25 \in Seq(Docs) /\ Positions(bm25) \subseteq Nat
    BY LenProperties DEF TypeOK, Positions
  <1>2. Chunks \in Seq(Docs) /\ Positions(Chunks) \subseteq Nat
    BY ElementOfSeq, LenProperties DEF TypeOK, Chunks, Positions
  <1>3. CASE SearchStart(s)
    <2>1. OverlapsNow \subseteq Ops \cup {"load"}
      BY DEF TypeOK, Job, OverlapsNow
    <2>2. PICK filter \in {"none", "official", "experience"} :
              Update(s, [search[s] EXCEPT
                  !.pc = IF bm25 = <<>> \/ Chunks = <<>> THEN "done"
                         ELSE IF filter = "none" THEN "score" ELSE "filter",
                  !.filter = filter,
                  !.overlaps = OverlapsNow])
      BY <1>3 DEF SearchStart
    <2> DEFINE new == [search[s] EXCEPT
                  !.pc = IF bm25 = <<>> \/ Chunks = <<>> THEN "done"
                         ELSE IF filter = "none" THEN "score" ELSE "filter",
                  !.filter = filter,
                  !.overlaps = OverlapsNow]
    <2>3. new \in SearchRecord /\ new.todo \subseteq Positions(new.scored)
      BY <1>1, <2>1 DEF SearchRecord, SearchSteps
    <2>4. QED
      BY <2>2, <2>3
  <1>4. CASE SearchFilter(s)
    <2> DEFINE eligible == {i \in Positions(Chunks) : SourceOf(Chunks[i]) = search[s].filter}
               new == [search[s] EXCEPT
                          !.pc = IF eligible = {} THEN "done" ELSE "score",
                          !.eligible = eligible]
    <2>1. Update(s, new)
      BY <1>4 DEF SearchFilter
    <2>2. eligible \in SUBSET Nat
      BY <1>2
    <2>3. new \in SearchRecord /\ new.todo \subseteq Positions(new.scored)
      BY <1>1, <2>2 DEF SearchRecord, SearchSteps
    <2>4. QED
      BY <2>1, <2>3
  <1>5. CASE SearchScore(s)
    <2>1. ASSUME Update(s, [search[s] EXCEPT !.pc = "failed"])
          PROVE  \E new \in SearchRecord :
                     Update(s, new) /\ new.todo \subseteq Positions(new.scored)
      <3>1. [search[s] EXCEPT !.pc = "failed"] \in SearchRecord
        BY <1>1 DEF SearchRecord, SearchSteps
      <3>2. [search[s] EXCEPT !.pc = "failed"].todo = search[s].todo
            /\ [search[s] EXCEPT !.pc = "failed"].scored = search[s].scored
        BY <1>1 DEF SearchRecord
      <3>3. QED
        BY <1>1, <2>1, <3>1, <3>2
    <2>2. ASSUME NEW hits \in SUBSET Positions(bm25),
                 Update(s, [search[s] EXCEPT !.pc = "copy", !.scored = bm25,
                                             !.todo = hits, !.eligible = {}])
          PROVE  \E new \in SearchRecord :
                     Update(s, new) /\ new.todo \subseteq Positions(new.scored)
      <3> DEFINE new == [search[s] EXCEPT !.pc = "copy", !.scored = bm25,
                                          !.todo = hits, !.eligible = {}]
      <3>1. new \in SearchRecord /\ new.todo \subseteq Positions(new.scored)
        BY <1>1, <2>2 DEF SearchRecord, SearchSteps
      <3>2. QED
        BY <2>2, <3>1
    <2>3. QED
      BY <1>5, <2>1, <2>2 DEF SearchScore
  <1>6. CASE SearchCopy(s)
    <2>1. PICK i \in search[s].todo :
              IF i \in Positions(Chunks)
                THEN Update(s, [search[s] EXCEPT !.todo = @ \ {i},
                                    !.found = @ \cup {[at |-> i, doc |-> Chunks[i]]}])
                ELSE Update(s, [search[s] EXCEPT !.pc = "failed"])
      BY <1>6 DEF SearchCopy
    <2>2. CASE i \in Positions(Chunks)
      <3> DEFINE new == [search[s] EXCEPT !.todo = @ \ {i},
                                    !.found = @ \cup {[at |-> i, doc |-> Chunks[i]]}]
      <3>1. [at |-> i, doc |-> Chunks[i]] \in [at : Nat, doc : Docs]
        BY <1>2, <2>2, ElementOfSeq DEF Positions
      <3>2. new \in SearchRecord
        BY <1>1, <3>1 DEF SearchRecord, SearchSteps
      <3>3. new.todo \subseteq Positions(new.scored)
        BY <1>1 DEF SearchRecord
      <3>4. QED
        BY <2>1, <2>2, <3>2, <3>3
    <2>3. CASE i \notin Positions(Chunks)
      <3> DEFINE new == [search[s] EXCEPT !.pc = "failed"]
      <3>1. new \in SearchRecord /\ new.todo \subseteq Positions(new.scored)
        BY <1>1 DEF SearchRecord, SearchSteps
      <3>2. QED
        BY <2>1, <2>3, <3>1
    <2>4. QED
      BY <2>2, <2>3
  <1>7. CASE SearchEnd(s)
    <2> DEFINE new == [search[s] EXCEPT !.pc = "done"]
    <2>1. new \in SearchRecord /\ new.todo \subseteq Positions(new.scored)
      BY <1>1 DEF SearchRecord, SearchSteps
    <2>2. QED
      BY <1>7, <2>1 DEF SearchEnd
  <1>8. QED
    BY <1>3, <1>4, <1>5, <1>6, <1>7 DEF Search

\* A search leaves everything else as it is.
LEMMA SearchKeepsTypes == ASSUME TypeOK, NEW s \in Searchers, Search(s) PROVE TypeOK'
  <1>1. PICK new \in SearchRecord : Update(s, new) /\ new.todo \subseteq Positions(new.scored)
    BY SearchForm
  <1>2. /\ search' \in [Searchers -> SearchRecord]
        /\ \A r \in Searchers : search'[r].todo \subseteq Positions(search'[r].scored)
    BY <1>1 DEF TypeOK, Update
  <1>3. UNCHANGED <<index, version, files, server, job, changes, crashes>>
    BY <1>1 DEF Update
  <1>4. QED
    BY <1>2, <1>3 DEF TypeOK, index, files, Positions

\* The steps of a coroutine that leave the lists alone.
LEMMA JobKeepsTypes ==
    ASSUME TypeOK, NEW c \in Coroutines, NEW j \in Job,
           job' = [job EXCEPT ![c] = j],
           j.pc = "index" => j.op # "none",
           j.pc \in {"open", "head"} => j.list \in DOMAIN heap,
           j.pc \in {"head", "tail"} => j.inode \in DOMAIN inodes',
           DOMAIN inodes \subseteq DOMAIN inodes',
           bm25' \in Seq(Docs), suspect' \in BOOLEAN, version' \in Nat, inodes' \in Seq(File),
           tmp' \in 0..Len(inodes'), disk' \in 0..Len(inodes'),
           server' \in {"down", "starting", "up"},
           UNCHANGED <<heap, chunks, search, changes, crashes>>
    PROVE  TypeOK'
  <1>1. job' \in [Coroutines -> Job]
    BY DEF TypeOK
  <1>2. \A d \in Coroutines :
            /\ job'[d].pc = "index" => job'[d].op # "none"
            /\ job'[d].pc \in {"open", "head"} => job'[d].list \in DOMAIN heap'
            /\ job'[d].pc \in {"head", "tail"} => job'[d].inode \in DOMAIN inodes'
    BY DEF TypeOK
  <1>3. QED
    BY <1>1, <1>2 DEF TypeOK, Positions

\* A part of a file that is written keeps the files what they are.
LEMMA WritingKeepsFiles ==
    ASSUME TypeOK, NEW i \in DOMAIN inodes, NEW f \in File, inodes' = [inodes EXCEPT ![i] = f]
    PROVE  inodes' \in Seq(File) /\ Len(inodes') = Len(inodes) /\ DOMAIN inodes' = DOMAIN inodes
  BY ExceptSeq, LenProperties DEF TypeOK

\* A part of a file is its label and a list.
LEMMA PartType ==
    /\ \A ver \in Nat, list \in Seq(Docs) : Part(ver, list) \in [ver : Nat, list : Seq(Docs)]
    /\ NoPart \in [ver : Nat, list : Seq(Docs)]
  <1>1. <<>> \in Seq(Docs)
    BY EmptySeq
  <1>2. QED
    BY <1>1 DEF Part, NoPart

\* The steps of a save keep the types.
LEMMA SaveKeepsTypes == ASSUME TypeOK, NEW c \in Coroutines, Save(c) PROVE TypeOK'
  <1> DEFINE j == job[c]
  <1>1. /\ j \in Job
        /\ j.pc \in {"open", "head"} => j.list \in DOMAIN heap
        /\ j.pc \in {"head", "tail"} => j.inode \in DOMAIN inodes
        /\ inodes \in Seq(File) /\ Len(inodes) \in Nat /\ DOMAIN inodes = 1..Len(inodes)
        /\ tmp \in 0..Len(inodes) /\ disk \in 0..Len(inodes)
        /\ heap \in Seq(Seq(Docs)) /\ chunks \in DOMAIN heap /\ DOMAIN heap \subseteq Nat
        /\ bm25 \in Seq(Docs) /\ version \in Nat /\ server \in {"down", "starting", "up"}
        /\ suspect \in BOOLEAN
    BY LenProperties DEF TypeOK
  <1>2. CASE SaveCapture(c)
    <2> DEFINE alone == \A d \in Coroutines \ {c} : job[d].pc = "idle"
               k == [j EXCEPT !.pc = "open", !.list = chunks, !.scores = bm25, !.alone = alone]
    <2> HIDE DEF alone
    <2>1. k \in Job /\ k.pc = "open" /\ k.list = chunks
      <3>1. alone \in BOOLEAN
        BY DEF alone
      <3>2. QED
        BY <1>1, <3>1 DEF Job, JobSteps
    <2>2. job' = [job EXCEPT ![c] = k] /\ UNCHANGED <<index, version, files, server, search,
                                                      changes, crashes>>
      BY <1>2 DEF SaveCapture, alone
    <2> HIDE DEF k
    <2>3. QED
      BY <1>1, <2>1, <2>2, JobKeepsTypes DEF index, files
  <1>3. CASE SaveOpen(c)
    <2> DEFINE k == [j EXCEPT !.pc = "head", !.inode = tmp']
               empty == EmptyFile(j.alone)
    <2>1. empty \in File
      BY <1>1, PartType DEF File, EmptyFile, Job
    <2>2. /\ inodes' \in Seq(File) /\ DOMAIN inodes' = 1..Len(inodes')
          /\ Len(inodes') \in Nat /\ Len(inodes) <= Len(inodes')
          /\ tmp' \in 1..Len(inodes')
      <3>1. CASE tmp = 0
        <4>1. inodes' = Append(inodes, empty) /\ tmp' = Len(inodes) + 1
          BY <1>3, <3>1 DEF SaveOpen
        <4>2. QED
          BY <1>1, <2>1, <4>1, AppendedList
      <3>2. CASE tmp # 0
        <4>1. inodes' = [inodes EXCEPT ![tmp] = empty] /\ tmp' = tmp /\ tmp \in DOMAIN inodes
          BY <1>1, <1>3, <3>2 DEF SaveOpen
        <4>2. QED
          BY <1>1, <2>1, <4>1, WritingKeepsFiles
      <3>3. QED
        BY <3>1, <3>2
    <2>3. job' = [job EXCEPT ![c] = k] /\ UNCHANGED <<index, version, disk, server, search,
                                                      changes, crashes>>
      BY <1>3 DEF SaveOpen
    <2>4. tmp' \in Nat /\ tmp' \in DOMAIN inodes' /\ DOMAIN inodes \subseteq DOMAIN inodes'
          /\ disk' \in 0..Len(inodes') /\ tmp' \in 0..Len(inodes')
      BY <1>1, <2>2, <2>3
    <2>5. k \in Job /\ k.pc = "head" /\ k.inode = tmp' /\ k.list = j.list
      BY <1>1, <2>4 DEF Job, JobSteps
    <2>6. j.pc = "open"
      BY <1>3 DEF SaveOpen
    <2>7. bm25' = bm25 /\ suspect' = suspect /\ version' = version /\ server' = server
          /\ UNCHANGED <<heap, chunks, search, changes, crashes>>
      BY <2>3 DEF index
    <2> HIDE DEF k
    <2>8. QED
      BY <1>1, <2>2, <2>3, <2>4, <2>5, <2>6, <2>7, JobKeepsTypes
  <1>4. CASE SaveHead(c)
    <2> DEFINE k == [j EXCEPT !.pc = "tail"]
               f == [inodes[j.inode] EXCEPT !.head = Part(j.ver, heap[j.list]),
                                            !.alone = @ /\ j.alone]
    <2>1. j.pc = "head"
      BY <1>4 DEF SaveHead
    <2>2. heap[j.list] \in Seq(Docs) /\ inodes[j.inode] \in File
      BY <1>1, <2>1, ElementOfSeq
    <2>3. Part(j.ver, heap[j.list]) \in [ver : Nat, list : Seq(Docs)]
      BY <1>1, <2>2, PartType DEF Job
    <2>4. f \in File
      BY <1>1, <2>2, <2>3 DEF File, Job
    <2>5. inodes' = [inodes EXCEPT ![j.inode] = f]
      BY <1>4 DEF SaveHead
    <2>6. inodes' \in Seq(File) /\ DOMAIN inodes' = DOMAIN inodes /\ Len(inodes') = Len(inodes)
      BY <1>1, <2>1, <2>4, <2>5, WritingKeepsFiles
    <2>7. k \in Job /\ k.pc = "tail" /\ k.inode = j.inode
      BY <1>1 DEF Job, JobSteps
    <2>8. job' = [job EXCEPT ![c] = k] /\ UNCHANGED <<index, version, tmp, disk, server, search,
                                                      changes, crashes>>
      BY <1>4 DEF SaveHead
    <2>9. QED
      BY <1>1, <2>1, <2>6, <2>7, <2>8, JobKeepsTypes DEF index
  <1>5. CASE SaveTail(c)
    <2> DEFINE k == [j EXCEPT !.pc = "rename"]
               f == [inodes[j.inode] EXCEPT !.tail = Part(j.ver, j.scores),
                                            !.alone = @ /\ j.alone]
    <2>1. j.pc = "tail"
      BY <1>5 DEF SaveTail
    <2>2. inodes[j.inode] \in File
      BY <1>1, <2>1, ElementOfSeq
    <2>3. Part(j.ver, j.scores) \in [ver : Nat, list : Seq(Docs)]
      BY <1>1, PartType DEF Job
    <2>4. f \in File
      BY <1>1, <2>2, <2>3 DEF File, Job
    <2>5. inodes' = [inodes EXCEPT ![j.inode] = f]
      BY <1>5 DEF SaveTail
    <2>6. inodes' \in Seq(File) /\ DOMAIN inodes' = DOMAIN inodes /\ Len(inodes') = Len(inodes)
      BY <1>1, <2>1, <2>4, <2>5, WritingKeepsFiles
    <2>7. k \in Job /\ k.pc = "rename"
      BY <1>1 DEF Job, JobSteps
    <2>8. job' = [job EXCEPT ![c] = k] /\ UNCHANGED <<index, version, tmp, disk, server, search,
                                                      changes, crashes>>
      BY <1>5 DEF SaveTail
    <2>9. QED
      BY <1>1, <2>6, <2>7, <2>8, JobKeepsTypes DEF index
  <1>6. CASE SaveRename(c)
    <2>1. NoJob.pc = "idle"
      BY DEF NoJob
    <2>2. /\ tmp' \in 0..Len(inodes') /\ disk' \in 0..Len(inodes') /\ inodes' = inodes
          /\ server' = "up" /\ bm25' = bm25 /\ suspect' = suspect /\ version' = version
          /\ UNCHANGED <<heap, chunks, search, changes, crashes>>
          /\ job' = [job EXCEPT ![c] = NoJob]
      BY <1>1, <1>6 DEF SaveRename, index
    <2>3. QED
      BY <1>1, <2>1, <2>2, IdleTypes, JobKeepsTypes
  <1>7. QED
    BY <1>2, <1>3, <1>4, <1>5, <1>6 DEF Save

\* The other steps of a change keep the types.
LEMMA ChangeKeepsTypes ==
    ASSUME TypeOK, NEW c \in Coroutines, Change(c) \/ FinishChange(c) \/ BumpKbVersion(c)
    PROVE  TypeOK'
  <1> DEFINE j == job[c]
  <1>1. /\ j \in Job /\ job \in [Coroutines -> Job]
        /\ inodes \in Seq(File) /\ tmp \in 0..Len(inodes) /\ disk \in 0..Len(inodes)
        /\ bm25 \in Seq(Docs) /\ version \in Nat /\ server \in {"down", "starting", "up"}
        /\ suspect \in BOOLEAN
    BY DEF TypeOK
  <1>2. CASE Change(c)
    BY <1>2, ChangeForm, BeginChangeTypes
  <1>3. CASE FinishChange(c)
    <2> DEFINE k == [j EXCEPT !.pc = "bump"]
    <2>1. Chunks \in Seq(Docs)
      BY ElementOfSeq, LenProperties DEF TypeOK, Chunks
    <2>2. k \in Job /\ k.pc = "bump"
      BY <1>1 DEF Job, JobSteps
    <2>3. job' = [job EXCEPT ![c] = k] /\ bm25' \in Seq(Docs) /\ suspect' \in BOOLEAN
          /\ UNCHANGED <<heap, chunks, version, files, server, search, changes, crashes>>
      BY <1>3, <2>1 DEF FinishChange
    <2>4. QED
      BY <1>1, <2>2, <2>3, JobKeepsTypes DEF files
  <1>4. CASE BumpKbVersion(c)
    <2> DEFINE k == [j EXCEPT !.pc = "capture", !.ver = version + 1]
    <2>1. version + 1 \in Nat
      BY <1>1
    <2>2. k \in Job /\ k.pc = "capture"
      BY <1>1, <2>1 DEF Job, JobSteps
    <2>3. job' = [job EXCEPT ![c] = k] /\ version' = version + 1
          /\ bm25' = bm25 /\ suspect' = suspect /\ server' = server
          /\ UNCHANGED <<inodes, tmp, disk>>
          /\ UNCHANGED <<heap, chunks, search, changes, crashes>>
      BY <1>4 DEF BumpKbVersion, index, files
    <2> HIDE DEF k
    <2>4. QED
      BY <1>1, <2>1, <2>2, <2>3, JobKeepsTypes
  <1>5. QED
    BY <1>2, <1>3, <1>4

\* A process that starts from nothing or from a file has one list.
LEMMA OneList ==
    ASSUME NEW list \in Seq(Docs)
    PROVE  <<list>> \in Seq(Seq(Docs)) /\ 1 \in DOMAIN <<list>> /\ <<list>>[1] = list
  OBVIOUS

\* While the server is down nothing runs.
DownIsQuiet ==
    server = "down" =>
        /\ \A c \in Coroutines : job[c] = NoJob
        /\ \A s \in Searchers : ~Running(s)
        /\ bm25 = <<>> /\ Chunks = <<>>

\* A crash, and a start from the pickle, keep the types.
LEMMA RestartKeepsTypes == ASSUME TypeOK, DownIsQuiet, Crash \/ LoadFromDisk PROVE TypeOK'
  <1>1. <<>> \in Seq(Docs)
    BY EmptySeq
  <1>2. CASE Crash
    <2>1. heap' \in Seq(Seq(Docs)) /\ chunks' \in DOMAIN heap' /\ bm25' \in Seq(Docs)
      BY <1>1, <1>2, OneList DEF Crash
    <2>2. job' \in [Coroutines -> Job] /\ \A c \in Coroutines : job'[c].pc = "idle"
      BY <1>2, IdleTypes DEF Crash, NoJob
    <2>3. search' \in [Searchers -> SearchRecord]
      BY <1>2, IdleTypes DEF Crash, TypeOK
    <2>4. \A s \in Searchers : search'[s].todo \subseteq Positions(search'[s].scored)
      BY <1>2 DEF Crash, TypeOK, NewSearch, Positions
    <2>5. crashes' \in 0..MaxCrashes
      BY <1>2, BoundsAssumption DEF Crash, TypeOK
    <2>6. QED
      BY <1>2, <2>1, <2>2, <2>3, <2>4, <2>5 DEF Crash, TypeOK, files
  <1>3. CASE LoadFromDisk
    <2>1. inodes[disk] \in File
      <3>1. disk \in 1..Len(inodes)
        BY <1>3, LenProperties DEF LoadFromDisk, Loadable, TypeOK
      <3>2. QED
        BY <3>1, ElementOfSeq DEF TypeOK
    <2>2. heap' \in Seq(Seq(Docs)) /\ chunks' \in DOMAIN heap' /\ bm25' \in Seq(Docs)
          /\ suspect' \in BOOLEAN
      BY <1>3, <2>1, OneList DEF LoadFromDisk, File
    <2>3. \A c \in Coroutines : job'[c].pc = "idle"
      BY <1>3 DEF LoadFromDisk, DownIsQuiet, NoJob
    <2>4. QED
      BY <1>3, <2>2, <2>3 DEF LoadFromDisk, TypeOK, files, Positions
  <1>4. QED
    BY <1>2, <1>3

\* While the server is down only a start can happen.
LEMMA DownOnlyStarts ==
    ASSUME DownIsQuiet, server = "down", Next
    PROVE  LoadFromDisk \/ \E c \in Coroutines : LoadFails(c)
  <1>1. \A c \in Coroutines : job[c].pc = "idle"
    BY DEF DownIsQuiet, NoJob
  <1>2. \A c \in Coroutines : ~FinishChange(c) /\ ~BumpKbVersion(c) /\ ~Save(c)
    BY <1>1 DEF FinishChange, BumpKbVersion, Save, SaveCapture, SaveOpen, SaveHead, SaveTail,
                SaveRename
  <1>3. \A s \in Searchers : search[s].pc \notin {"filter", "score", "copy"}
    BY DEF DownIsQuiet, Running
  <1>4. \A s \in Searchers : ~Search(s)
    BY <1>3 DEF Search, SearchStart, SearchFilter, SearchScore, SearchCopy, SearchEnd
  <1>5. QED
    BY <1>2, <1>4 DEF Next, Change, AddChunks, RemoveByDocumentId, Reindex, Request, Crash

\* The server goes down only by a crash, and a crash leaves nothing.
LEMMA DownIsQuietNext == TypeOK /\ DownIsQuiet /\ [Next]_vars => DownIsQuiet'
  <1> SUFFICES ASSUME TypeOK, DownIsQuiet, [Next]_vars, server' = "down"
               PROVE  DownIsQuiet'
    BY DEF DownIsQuiet
  <1>1. CASE UNCHANGED vars
    BY <1>1 DEF DownIsQuiet, vars, index, Chunks, Running
  <1>2. CASE Crash
    <2>1. \A c \in Coroutines : job'[c] = NoJob
      BY <1>2 DEF Crash
    <2>2. \A s \in Searchers : ~Running(s)'
      BY <1>2 DEF Crash, Running, NewSearch
    <2>3. bm25' = <<>> /\ Chunks' = <<>>
      BY <1>2 DEF Crash, Chunks
    <2>4. QED
      BY <2>1, <2>2, <2>3 DEF DownIsQuiet
  <1>3. ASSUME NEW c \in Coroutines, Change(c) PROVE FALSE
    BY <1>3, ChangeForm
  <1>4. ASSUME NEW c \in Coroutines, FinishChange(c) \/ BumpKbVersion(c) \/ Save(c)
        PROVE  server = "down"
    BY <1>4 DEF FinishChange, BumpKbVersion, Save, SaveCapture, SaveOpen, SaveHead, SaveTail,
                SaveRename
  <1>5. ASSUME NEW s \in Searchers, Search(s) PROVE server = "down"
    BY <1>5, SearchForm DEF Update
  <1>6. CASE server = "down"
    BY <1>1, <1>6, DownOnlyStarts DEF LoadFromDisk, LoadFails
  <1>7. QED
    BY <1>1, <1>2, <1>3, <1>4, <1>5, <1>6 DEF Next, LoadFromDisk

\* The first start-up is over: nothing runs, and there is one empty list.
LEMMA TypesInit == Init => TypeOK /\ DownIsQuiet
  <1> SUFFICES ASSUME Init PROVE TypeOK /\ DownIsQuiet
    OBVIOUS
  <1>1. <<>> \in Seq(Docs)
    BY EmptySeq
  <1>2. heap \in Seq(Seq(Docs)) /\ chunks \in DOMAIN heap
    BY <1>1, OneList DEF Init
  <1>3. [head |-> Part(2, <<>>), tail |-> Part(2, <<>>), alone |-> TRUE] \in File
    BY <1>1, PartType DEF File
  <1>4. inodes \in Seq(File) /\ Len(inodes) = 1
    BY <1>3 DEF Init
  <1>5. job \in [Coroutines -> Job] /\ \A c \in Coroutines : job[c].pc = "idle"
    BY IdleTypes DEF Init, NoJob
  <1>6. search \in [Searchers -> SearchRecord]
        /\ \A s \in Searchers : search[s].todo \subseteq Positions(search[s].scored)
    BY IdleTypes DEF Init, NewSearch, Positions
  <1>7. suspect \in BOOLEAN /\ bm25 \in Seq(Docs)
    BY <1>1 DEF Init
  <1>8. version \in Nat /\ changes \in Nat /\ crashes \in 0..MaxCrashes
    BY BoundsAssumption DEF Init
  <1>9. server = "up" /\ tmp = 0 /\ disk = 1
    BY DEF Init
  <1>10. QED
    <2>1. \A c \in Coroutines :
              /\ job[c].pc = "index" => job[c].op # "none"
              /\ job[c].pc \in {"open", "head"} => job[c].list \in DOMAIN heap
              /\ job[c].pc \in {"head", "tail"} => job[c].inode \in DOMAIN inodes
      BY <1>5
    <2>2. tmp \in 0..Len(inodes) /\ disk \in 0..Len(inodes)
      BY <1>4, <1>9
    <2>3. DownIsQuiet
      BY <1>9 DEF DownIsQuiet
    <2>4. server \in {"down", "starting", "up"}
      BY <1>9
    <2>5. QED
      BY <1>2, <1>4, <1>5, <1>6, <1>7, <1>8, <2>1, <2>2, <2>3, <2>4 DEF TypeOK

\* Every step keeps the types.
LEMMA TypeOKNext == TypeOK /\ DownIsQuiet /\ [Next]_vars => TypeOK'
  <1> SUFFICES ASSUME TypeOK, DownIsQuiet, [Next]_vars PROVE TypeOK'
    OBVIOUS
  <1>1. CASE UNCHANGED vars
    BY <1>1 DEF TypeOK, vars, index, files, Positions
  <1>2. QED
    BY <1>1, ChangeKeepsTypes, SaveKeepsTypes, SearchKeepsTypes, RestartKeepsTypes DEF Next

\* Types are right, whatever the threads and the coroutines do.
THEOREM TypeCorrect == Spec => []TypeOK
  BY TypesInit, TypeOKNext, DownIsQuietNext, PTL DEF Spec

-----------------------------------------------------------------------------
(* The index and its pickle.                                               *)

\* At most one coroutine is changing the index: the event loop is one thread.
OneChanger ==
    \A c, d \in Coroutines : job[c].pc = "index" /\ job[d].pc = "index" => c = d

\* Nothing is saved of an index that was loaded from a doubtful pickle, before a
\* change has made it right.
SuspectIsFresh == suspect => \A c \in Coroutines : job[c].pc \in {"idle", "index"}

\* While a save is alone nobody else is at work.
AloneIsAlone ==
    \A c, d \in Coroutines : job[c].alone /\ c # d => job[d].pc = "idle"

\* A save has a label, which is a version from after the start of the counter.
LabelsArePositive ==
    /\ version # 0
    /\ \A c \in Coroutines :
          job[c].pc \in {"capture", "open", "head", "tail", "rename"} => job[c].ver # 0

\* What the next theorems start from.
BaseInv ==
    TypeOK /\ DownIsQuiet /\ OneChanger /\ LabelsArePositive /\ SuspectIsFresh /\ AloneIsAlone

\* A coroutine past its change moves no other, and is past its change afterwards.
\* Its label is the version it has made.
LEMMA JobForm ==
    ASSUME TypeOK, NEW c \in Coroutines, FinishChange(c) \/ BumpKbVersion(c) \/ Save(c)
    PROVE  /\ UNCHANGED <<heap, chunks, search, changes, crashes>>
           /\ job'[c].pc # "index"
           /\ \A d \in Coroutines : d # c => job'[d] = job[d]
           /\ ~FinishChange(c) =>
                 bm25' = bm25 /\ suspect' = suspect /\ job[c].pc \notin {"idle", "index"}
           /\ server' \in {server, "up"}
           /\ version' \in {version, version + 1}
           /\ job'[c].pc \in {"open", "head", "tail", "rename"} =>
                 /\ job[c].pc \in {"capture", "open", "head", "tail"}
                 /\ job'[c].ver = job[c].ver
           /\ job'[c].pc = "capture" => job'[c].ver = version + 1
  <1>1. job \in [Coroutines -> Job] /\ job[c] \in Job
    BY DEF TypeOK
  <1>2. CASE FinishChange(c)
    BY <1>1, <1>2 DEF FinishChange, Job
  <1>3. CASE BumpKbVersion(c)
    BY <1>1, <1>3 DEF BumpKbVersion, FinishChange, index, Job
  <1>4. CASE SaveCapture(c)
    BY <1>1, <1>4 DEF SaveCapture, FinishChange, index, Job
  <1>5. CASE SaveOpen(c)
    BY <1>1, <1>5 DEF SaveOpen, FinishChange, index, Job
  <1>6. CASE SaveHead(c)
    BY <1>1, <1>6 DEF SaveHead, FinishChange, index, Job
  <1>7. CASE SaveTail(c)
    BY <1>1, <1>7 DEF SaveTail, FinishChange, index, Job
  <1>8. CASE SaveRename(c)
    BY <1>1, <1>8 DEF SaveRename, FinishChange, index, Job, NoJob
  <1>9. QED
    BY <1>2, <1>3, <1>4, <1>5, <1>6, <1>7, <1>8 DEF Save

\* A change begins only when the loop is free.
LEMMA OneChangerNext == TypeOK /\ OneChanger /\ [Next]_vars => OneChanger'
  <1> SUFFICES ASSUME TypeOK, OneChanger, [Next]_vars PROVE OneChanger'
    OBVIOUS
  <1>1. CASE UNCHANGED vars
    BY <1>1 DEF OneChanger, vars
  <1>2. ASSUME NEW c \in Coroutines, NEW op, BeginChange(c, op) PROVE OneChanger'
    BY <1>2 DEF BeginChange, LoopIsFree, OneChanger, TypeOK
  <1>3. ASSUME NEW c \in Coroutines, Change(c) PROVE OneChanger'
    BY <1>2, <1>3, ChangeForm
  <1>4. ASSUME NEW c \in Coroutines, FinishChange(c) \/ BumpKbVersion(c) \/ Save(c)
        PROVE  OneChanger'
    BY <1>4, JobForm DEF OneChanger
  <1>5. ASSUME NEW s \in Searchers, Search(s) PROVE OneChanger'
    BY <1>5, SearchForm DEF Update, OneChanger
  <1>6. CASE LoadFromDisk
    BY <1>6 DEF LoadFromDisk, OneChanger
  <1>7. CASE Crash
    BY <1>7 DEF Crash, OneChanger, NoJob
  <1>8. QED
    BY <1>1, <1>3, <1>4, <1>5, <1>6, <1>7 DEF Next

\* The index is suspect from a load to the end of the next change.
LEMMA SuspectIsFreshNext ==
    TypeOK /\ DownIsQuiet /\ SuspectIsFresh /\ [Next]_vars => SuspectIsFresh'
  <1> SUFFICES ASSUME TypeOK, DownIsQuiet, SuspectIsFresh, [Next]_vars PROVE SuspectIsFresh'
    OBVIOUS
  <1>1. CASE UNCHANGED vars
    BY <1>1 DEF SuspectIsFresh, vars, index
  <1>2. ASSUME NEW c \in Coroutines, Change(c) PROVE SuspectIsFresh'
    <2>1. PICK op \in Ops : BeginChange(c, op)
      BY <1>2, ChangeForm
    <2>2. suspect' = suspect /\ job'[c].pc = "index"
          /\ \A d \in Coroutines : d # c => job'[d].pc = job[d].pc
      BY <2>1 DEF BeginChange, NoJob, TypeOK, Job
    <2>3. QED
      BY <2>2 DEF SuspectIsFresh
  <1>3. ASSUME NEW c \in Coroutines, FinishChange(c) PROVE SuspectIsFresh'
    BY <1>3 DEF FinishChange, SuspectIsFresh
  <1>4. ASSUME NEW c \in Coroutines, ~FinishChange(c), BumpKbVersion(c) \/ Save(c)
        PROVE  SuspectIsFresh'
    BY <1>4, JobForm DEF SuspectIsFresh
  <1>5. ASSUME NEW s \in Searchers, Search(s) PROVE SuspectIsFresh'
    BY <1>5, SearchForm DEF Update, SuspectIsFresh, index
  <1>6. CASE LoadFromDisk
    BY <1>6 DEF LoadFromDisk, SuspectIsFresh, DownIsQuiet, NoJob
  <1>7. CASE Crash
    BY <1>7 DEF Crash, SuspectIsFresh, NoJob
  <1>8. QED
    BY <1>1, <1>2, <1>3, <1>4, <1>5, <1>6, <1>7 DEF Next

\* A save knows when it begins whether it is alone, and a change tells it when
\* that ends.
LEMMA AloneIsAloneNext ==
    TypeOK /\ DownIsQuiet /\ AloneIsAlone /\ [Next]_vars => AloneIsAlone'
  <1> SUFFICES ASSUME TypeOK, DownIsQuiet, AloneIsAlone, [Next]_vars PROVE AloneIsAlone'
    OBVIOUS
  <1>1. CASE UNCHANGED vars
    BY <1>1 DEF AloneIsAlone, vars
  <1>2. ASSUME NEW c \in Coroutines, Change(c) PROVE AloneIsAlone'
    <2>1. PICK op \in Ops : BeginChange(c, op)
      BY <1>2, ChangeForm
    <2>2. \A d \in Coroutines : job'[d].alone = FALSE
      BY <2>1 DEF BeginChange, NoJob, TypeOK, Job
    <2>3. QED
      BY <2>2 DEF AloneIsAlone
  <1>3. ASSUME NEW c \in Coroutines, SaveCapture(c) PROVE AloneIsAlone'
    <2>1. job'[c].alone => \A d \in Coroutines \ {c} : job[d].pc = "idle"
      BY <1>3 DEF SaveCapture, TypeOK, Job
    <2>2. job[c].pc = "capture" /\ \A d \in Coroutines : d # c => job'[d] = job[d]
      BY <1>3, JobForm DEF Save, SaveCapture
    <2>3. \A d \in Coroutines : d # c => ~job[d].alone
      BY <2>2 DEF AloneIsAlone
    <2>4. QED
      BY <2>1, <2>2, <2>3 DEF AloneIsAlone
  <1>4. ASSUME NEW c \in Coroutines, ~SaveCapture(c),
               FinishChange(c) \/ BumpKbVersion(c) \/ Save(c)
        PROVE  AloneIsAlone'
    <2>1. job'[c].alone => job[c].alone
      <3>1. job[c] \in Job /\ job \in [Coroutines -> Job]
        BY DEF TypeOK
      <3>2. ASSUME NEW pc, NEW ver, NEW inode,
                   job'[c] = [job[c] EXCEPT !.pc = pc, !.ver = ver, !.inode = inode]
            PROVE  job'[c].alone = job[c].alone
        BY <3>1, <3>2 DEF Job
      <3>3. CASE FinishChange(c)
        <4>1. job'[c] = [job[c] EXCEPT !.pc = "bump", !.ver = job[c].ver, !.inode = job[c].inode]
          BY <3>1, <3>3 DEF FinishChange, Job
        <4>2. QED
          BY <3>2, <4>1
      <3>4. CASE BumpKbVersion(c)
        <4>1. job'[c] = [job[c] EXCEPT !.pc = "capture", !.ver = version + 1,
                                       !.inode = job[c].inode]
          BY <3>1, <3>4 DEF BumpKbVersion, Job
        <4>2. QED
          BY <3>2, <4>1
      <3>5. CASE SaveOpen(c)
        <4>1. job' = [job EXCEPT ![c].pc = "head", ![c].inode = tmp']
          BY <3>5 DEF SaveOpen
        <4>2. job'[c] = [job[c] EXCEPT !.pc = "head", !.ver = job[c].ver, !.inode = tmp']
          BY <3>1, <4>1 DEF Job
        <4>3. QED
          BY <3>2, <4>2
      <3>6. CASE SaveHead(c)
        <4>1. job' = [job EXCEPT ![c].pc = "tail"]
          BY <3>6 DEF SaveHead
        <4>2. job'[c] = [job[c] EXCEPT !.pc = "tail", !.ver = job[c].ver, !.inode = job[c].inode]
          BY <3>1, <4>1 DEF Job
        <4>3. QED
          BY <3>2, <4>2
      <3>7. CASE SaveTail(c)
        <4>1. job' = [job EXCEPT ![c].pc = "rename"]
          BY <3>7 DEF SaveTail
        <4>2. job'[c] = [job[c] EXCEPT !.pc = "rename", !.ver = job[c].ver,
                                       !.inode = job[c].inode]
          BY <3>1, <4>1 DEF Job
        <4>3. QED
          BY <3>2, <4>2
      <3>8. CASE SaveRename(c)
        BY <3>1, <3>8 DEF SaveRename, NoJob
      <3>9. QED
        BY <1>4, <3>3, <3>4, <3>5, <3>6, <3>7, <3>8 DEF Save
    <2>2. job[c].pc # "idle"
      BY <1>4 DEF FinishChange, BumpKbVersion, Save, SaveOpen, SaveHead, SaveTail, SaveRename
    <2>3. \A d \in Coroutines : d # c => ~job[d].alone /\ job'[d] = job[d]
      BY <1>4, <2>2, JobForm DEF AloneIsAlone
    <2>4. QED
      BY <2>1, <2>3 DEF AloneIsAlone
  <1>5. ASSUME NEW s \in Searchers, Search(s) PROVE AloneIsAlone'
    BY <1>5, SearchForm DEF Update, AloneIsAlone
  <1>6. CASE LoadFromDisk
    BY <1>6 DEF LoadFromDisk, AloneIsAlone
  <1>7. CASE Crash
    BY <1>7 DEF Crash, AloneIsAlone, NoJob
  <1>8. QED
    BY <1>1, <1>2, <1>3, <1>4, <1>5, <1>6, <1>7 DEF Next

\* The counter starts at 2 and only grows, and labels are its values.
LEMMA LabelsArePositiveNext == TypeOK /\ LabelsArePositive /\ [Next]_vars => LabelsArePositive'
  <1> SUFFICES ASSUME TypeOK, LabelsArePositive, [Next]_vars PROVE LabelsArePositive'
    OBVIOUS
  <1>1. CASE UNCHANGED vars
    BY <1>1 DEF LabelsArePositive, vars
  <1>2. ASSUME NEW c \in Coroutines, Change(c) PROVE LabelsArePositive'
    <2>1. PICK op \in Ops : BeginChange(c, op)
      BY <1>2, ChangeForm
    <2>2. version' = version /\ job'[c].pc = "index"
          /\ \A d \in Coroutines : d # c => job'[d].pc = job[d].pc /\ job'[d].ver = job[d].ver
      BY <2>1 DEF BeginChange, TypeOK, NoJob, Job
    <2>3. QED
      BY <2>2 DEF LabelsArePositive
  <1>3. ASSUME NEW c \in Coroutines, FinishChange(c) \/ BumpKbVersion(c) \/ Save(c)
        PROVE  LabelsArePositive'
    <2>1. version \in Nat /\ version # 0 /\ version + 1 # 0
      BY DEF LabelsArePositive, TypeOK
    <2>2. version' # 0
      BY <1>3, <2>1, JobForm
    <2>3. job'[c].pc \in {"capture", "open", "head", "tail", "rename"} => job'[c].ver # 0
      BY <1>3, <2>1, JobForm DEF LabelsArePositive
    <2>4. QED
      BY <1>3, <2>2, <2>3, JobForm DEF LabelsArePositive
  <1>4. ASSUME NEW s \in Searchers, Search(s) PROVE LabelsArePositive'
    BY <1>4, SearchForm DEF Update, LabelsArePositive
  <1>5. CASE Crash \/ LoadFromDisk
    BY <1>5 DEF Crash, LoadFromDisk, LabelsArePositive, NoJob
  <1>6. QED
    BY <1>1, <1>2, <1>3, <1>4, <1>5 DEF Next

-----------------------------------------------------------------------------
(* Alignment.                                                              *)

\* Between changes the index scores the chunks it holds; while chunks are added
\* it scores the ones that were there before.
Aligned ==
    ~suspect =>
        /\ LoopIsFree => bm25 = Chunks
        /\ \A c \in Coroutines :
              job[c].pc = "index" /\ job[c].op = "add" => Begins(bm25, Chunks)

\* The whole work of one save, of an index that was aligned.
WholeFile(file) ==
    /\ file.head.ver # 0 /\ file.head.ver = file.tail.ver
    /\ file.head.list = file.tail.list

\* A file that is the work of saves nobody overlapped.
OfOneSave(i) == i # 0 /\ inodes[i].alone

\* The file under the final name is whole, unless the saves that wrote it were
\* overlapped.  A save that is alone has the temporary file for itself; and a
\* temporary file of one save is as far as that save is.
PickleIsWhole ==
    /\ OfOneSave(disk) => WholeFile(inodes[disk])
    /\ disk # 0 => tmp # disk
    /\ \A c \in Coroutines :
          /\ job[c].pc \in {"open", "head"} /\ job[c].alone =>
                job[c].scores = heap[job[c].list]
          /\ job[c].pc \in {"head", "tail", "rename"} /\ (job[c].alone \/ OfOneSave(tmp)) =>
                (tmp # 0 => job[c].inode = tmp)
          /\ job[c].pc \in {"head", "tail", "rename"} /\ job[c].alone => tmp # 0
          /\ job[c].pc = "tail" /\ OfOneSave(tmp) =>
                inodes[tmp].head = Part(job[c].ver, job[c].scores)
          /\ job[c].pc = "rename" /\ OfOneSave(tmp) => WholeFile(inodes[tmp])

\* Changes of the index are over, and its two parts agree, before the next one.
LEMMA AlignedNext ==
    ASSUME BaseInv, Aligned, PickleIsWhole, [Next]_vars
    PROVE  Aligned'
  <1>1. CASE UNCHANGED vars
    BY <1>1 DEF Aligned, vars, index, LoopIsFree, Chunks, Begins, Positions
  <1>2. ASSUME UNCHANGED <<heap, chunks, bm25, suspect>>,
               \A c \in Coroutines : job'[c].pc = "index" <=> job[c].pc = "index",
               \A c \in Coroutines : job'[c].pc = "index" => job'[c].op = job[c].op
        PROVE  Aligned'
    <2>1. Chunks' = Chunks /\ LoopIsFree' = LoopIsFree
      BY <1>2 DEF Chunks, LoopIsFree
    <2>2. QED
      BY <1>2, <2>1 DEF Aligned, Begins, Positions
  <1>3. ASSUME NEW c \in Coroutines, Change(c) PROVE Aligned'
    <2>1. PICK op \in Ops : BeginChange(c, op) /\ (op = "add" => Begins(Chunks, Chunks'))
      BY <1>3, ChangeForm DEF BaseInv
    <2>2. /\ \A d \in Coroutines : job[d].pc # "index"
          /\ bm25' = bm25 /\ suspect' = suspect
      BY <2>1 DEF BeginChange, LoopIsFree
    <2>3. ~suspect => bm25 = Chunks
      BY <2>2 DEF Aligned, LoopIsFree
    <2>4. job'[c].pc = "index" /\ job'[c].op = op
          /\ \A d \in Coroutines : job'[d].pc = "index" => d = c
      BY <2>1, <2>2 DEF BeginChange, BaseInv, TypeOK, NoJob, Job
    <2>5. ~LoopIsFree'
      BY <2>4 DEF LoopIsFree
    <2>6. ~suspect' => \A d \in Coroutines :
              job'[d].pc = "index" /\ job'[d].op = "add" => Begins(bm25', Chunks')
      BY <2>1, <2>2, <2>3, <2>4 DEF Begins, Positions
    <2>7. QED
      BY <2>5, <2>6 DEF Aligned
  <1>4. ASSUME NEW c \in Coroutines, FinishChange(c) PROVE Aligned'
    <2>1. Chunks' = Chunks /\ bm25' = Chunks
      BY <1>4 DEF FinishChange, Chunks
    <2>2. \A d \in Coroutines : job'[d].pc # "index"
      BY <1>4 DEF FinishChange, BaseInv, OneChanger, TypeOK, Job
    <2>3. QED
      BY <2>1, <2>2 DEF Aligned
  <1>5. ASSUME NEW c \in Coroutines, BumpKbVersion(c) \/ Save(c) PROVE Aligned'
    <2>1. ~FinishChange(c)
      BY <1>5 DEF BaseInv, TypeOK, Job, FinishChange, BumpKbVersion, Save, SaveCapture, SaveOpen,
                  SaveHead, SaveTail, SaveRename
    <2>2. QED
      BY <1>2, <1>5, <2>1, JobForm DEF BaseInv
  <1>6. ASSUME NEW s \in Searchers, Search(s) PROVE Aligned'
    BY <1>2, <1>6, SearchForm DEF BaseInv, Update, index
  <1>7. CASE LoadFromDisk
    <2>1. Chunks' = inodes[disk].head.list /\ bm25' = inodes[disk].tail.list
          /\ suspect' = ~inodes[disk].alone /\ disk # 0
      BY <1>7 DEF LoadFromDisk, Loadable, Chunks
    <2>2. ~suspect' => bm25' = Chunks'
      BY <2>1 DEF PickleIsWhole, OfOneSave, WholeFile
    <2>3. \A c \in Coroutines : job'[c].pc # "index"
      BY <1>7 DEF LoadFromDisk, BaseInv, DownIsQuiet, NoJob
    <2>4. QED
      BY <2>2, <2>3 DEF Aligned
  <1>8. CASE Crash
    BY <1>8 DEF Crash, Aligned, Chunks, NoJob
  <1>9. QED
    BY <1>1, <1>3, <1>4, <1>5, <1>6, <1>7, <1>8 DEF Next

\* A save that is alone finds its temporary file as it left it, and what it
\* pickles is aligned; so the file it renames is whole.
LEMMA PickleIsWholeNext ==
    ASSUME BaseInv, Aligned, PickleIsWhole, [Next]_vars
    PROVE  PickleIsWhole'
  <1>1. /\ inodes \in Seq(File) /\ Len(inodes) \in Nat /\ DOMAIN inodes = 1..Len(inodes)
        /\ tmp \in 0..Len(inodes) /\ disk \in 0..Len(inodes)
    BY LenProperties DEF BaseInv, TypeOK
  <1>2. \A c, d \in Coroutines : job[c].alone /\ c # d => job[d].pc = "idle"
    BY DEF BaseInv, AloneIsAlone
  <1>3. CASE UNCHANGED vars
    BY <1>3 DEF PickleIsWhole, OfOneSave, vars, index, files
  \* Where no save is past its capture, only the files matter.
  <1>4. ASSUME UNCHANGED files,
               \A c \in Coroutines : job'[c].pc \notin {"open", "head", "tail", "rename"}
        PROVE  PickleIsWhole'
    BY <1>4 DEF PickleIsWhole, OfOneSave, files
  <1>5. ASSUME NEW c \in Coroutines, Change(c) PROVE PickleIsWhole'
    <2>1. PICK op \in Ops : BeginChange(c, op)
      BY <1>5, ChangeForm DEF BaseInv
    <2>2. /\ UNCHANGED files /\ job'[c].pc = "index"
          /\ \A d \in Coroutines : d # c =>
                /\ job'[d].pc = job[d].pc /\ job'[d].inode = job[d].inode
                /\ job'[d].ver = job[d].ver /\ job'[d].scores = job[d].scores
          /\ \A d \in Coroutines : ~job'[d].alone
      BY <2>1 DEF BeginChange, BaseInv, TypeOK, NoJob, Job
    <2>3. QED
      BY <2>2 DEF PickleIsWhole, OfOneSave, files
  <1>6. ASSUME NEW c \in Coroutines, FinishChange(c) \/ BumpKbVersion(c)
        PROVE  PickleIsWhole'
    <2>1. UNCHANGED files /\ UNCHANGED heap /\ job'[c].pc \in {"bump", "capture"}
      BY <1>6 DEF FinishChange, BumpKbVersion, BaseInv, TypeOK, Job, index
    <2>2. \A d \in Coroutines : d # c => job'[d] = job[d]
      BY <1>6, JobForm DEF BaseInv
    <2>3. QED
      BY <2>1, <2>2 DEF PickleIsWhole, OfOneSave, files
  <1>7. ASSUME NEW c \in Coroutines, SaveCapture(c) PROVE PickleIsWhole'
    <2>1. /\ UNCHANGED files /\ UNCHANGED heap /\ job[c].pc = "capture"
          /\ job'[c].pc = "open" /\ job'[c].list = chunks /\ job'[c].scores = bm25
          /\ job'[c].alone = (\A k \in Coroutines \ {c} : job[k].pc = "idle")
          /\ \A d \in Coroutines : d # c => job'[d] = job[d]
      BY <1>7 DEF SaveCapture, BaseInv, TypeOK, Job, index
    <2>2. job'[c].alone => LoopIsFree /\ ~suspect
      BY <2>1 DEF LoopIsFree, BaseInv, SuspectIsFresh
    <2>3. job'[c].alone => job'[c].scores = heap'[job'[c].list]
      BY <2>1, <2>2 DEF Aligned, Chunks
    <2>4. QED
      BY <2>1, <2>3 DEF PickleIsWhole, OfOneSave, files
  <1>8. ASSUME NEW c \in Coroutines, SaveOpen(c) PROVE PickleIsWhole'
    <2>x. disk' = disk
      BY <1>8 DEF SaveOpen
    <2>1. /\ job[c].pc = "open" /\ UNCHANGED heap /\ disk' = disk
          /\ job'[c].pc = "head" /\ job'[c].list = job[c].list
          /\ job'[c].scores = job[c].scores /\ job'[c].inode = tmp'
          /\ job'[c].alone = job[c].alone
          /\ \A d \in Coroutines : d # c => job'[d] = job[d]
      BY <1>8 DEF SaveOpen, BaseInv, TypeOK, Job, index
    <2> DEFINE empty == EmptyFile(job[c].alone)
    <2>2. /\ tmp = 0 => inodes' = Append(inodes, empty) /\ tmp' = Len(inodes) + 1
          /\ tmp # 0 => inodes' = [inodes EXCEPT ![tmp] = empty] /\ tmp' = tmp
      BY <1>8 DEF SaveOpen
    <2>3. empty \in File /\ empty.alone = job[c].alone
      <3>1. job[c].alone \in BOOLEAN
        BY DEF BaseInv, TypeOK, Job
      <3>2. QED
        BY <3>1, PartType DEF File, EmptyFile
    <2> HIDE DEF empty
    <2>4. /\ tmp' # 0 /\ inodes'[tmp'] = empty
          /\ \A i \in DOMAIN inodes : i # tmp' => inodes'[i] = inodes[i]
          /\ disk # 0 => tmp' # disk
      <3>1. CASE tmp = 0
        BY <1>1, <2>2, <2>3, <3>1, AppendProperties
      <3>2. CASE tmp # 0
        BY <1>1, <2>2, <3>2 DEF PickleIsWhole
      <3>3. QED
        BY <3>1, <3>2
    <2>5. \A i \in DOMAIN inodes : i # tmp' => inodes'[i] = inodes[i]
      BY <2>4
    <2>6. disk # 0 => tmp' # disk
      BY <2>4
    <2>7. disk # 0 => inodes'[disk] = inodes[disk]
      <3>1. disk # 0 => disk \in DOMAIN inodes
        BY <1>1
      <3>2. QED
        BY <2>5, <2>6, <3>1
    <2>8. inodes'[tmp'].alone = job[c].alone
      BY <2>4, <2>3
    <2>9. \A d \in Coroutines : d # c /\ job[c].alone => job'[d].pc = "idle"
      BY <1>2, <2>1
    <2>10. \A d \in Coroutines : d # c => ~job'[d].alone
      BY <1>2, <2>1
    <2>11. job'[c].alone => job'[c].scores = heap'[job'[c].list]
      BY <2>1 DEF PickleIsWhole
    <2>12. OfOneSave(disk)' => WholeFile(inodes[disk])'
      BY <2>1, <2>7 DEF PickleIsWhole, OfOneSave, WholeFile
    <2>13. OfOneSave(tmp)' => job[c].alone
      BY <2>8 DEF OfOneSave
    <2>14. disk' # 0 => tmp' # disk'
      BY <2>x, <2>6
    <2>15. ASSUME NEW d \in Coroutines, d # c
           PROVE  /\ ~job'[d].alone
                  /\ job'[d].pc # "idle" => ~OfOneSave(tmp)'
      BY <2>9, <2>10, <2>13, <2>15
    <2>16. QED
      BY <2>1, <2>4, <2>11, <2>12, <2>14, <2>15 DEF PickleIsWhole
  \* A part is written: the file stays the work of one save only for a save that
  \* is alone, and that one writes the temporary file.
  <1>9. ASSUME NEW c \in Coroutines, NEW file \in File,
               job[c].pc \in {"head", "tail"},
               inodes' = [inodes EXCEPT ![job[c].inode] = file],
               file.alone => job[c].alone /\ inodes[job[c].inode].alone,
               UNCHANGED <<heap, tmp, disk>>,
               \A d \in Coroutines : d # c => job'[d] = job[d]
        PROVE  /\ OfOneSave(disk)' => WholeFile(inodes[disk])'
               /\ OfOneSave(tmp)' => OfOneSave(tmp)
               /\ OfOneSave(tmp)' /\ job[c].inode = tmp =>
                     /\ job[c].alone /\ inodes'[tmp] = file
                     /\ \A d \in Coroutines : d # c => job'[d].pc = "idle"
               /\ tmp # job[c].inode => inodes'[tmp] = inodes[tmp]
    <2>1. job[c].inode \in DOMAIN inodes /\ job[c].inode # 0
      BY <1>1, <1>9 DEF BaseInv, TypeOK
    <2>2. \A i : i # job[c].inode => inodes'[i] = inodes[i]
      BY <1>9
    <2>3. inodes'[job[c].inode] = file
      BY <1>9, <2>1
    <2>4. job[c].alone => tmp # 0 /\ job[c].inode = tmp
      BY <1>9 DEF PickleIsWhole
    <2>5. OfOneSave(disk)' => disk # job[c].inode /\ OfOneSave(disk)
      BY <1>9, <2>2, <2>3, <2>4 DEF PickleIsWhole, OfOneSave
    <2>6. OfOneSave(disk)' => WholeFile(inodes[disk])'
      BY <1>9, <2>2, <2>5 DEF PickleIsWhole, OfOneSave, WholeFile
    <2>7. OfOneSave(tmp)' => OfOneSave(tmp)
      BY <1>9, <2>2, <2>3 DEF OfOneSave
    <2>8. OfOneSave(tmp)' /\ job[c].inode = tmp => job[c].alone /\ inodes'[tmp] = file
      BY <1>9, <2>3 DEF OfOneSave
    <2>9. QED
      BY <1>2, <1>9, <2>2, <2>6, <2>7, <2>8
  <1>10. ASSUME NEW c \in Coroutines, SaveHead(c) PROVE PickleIsWhole'
    <2>1. /\ job[c].pc = "head" /\ UNCHANGED <<heap, tmp, disk>>
          /\ job'[c].pc = "tail" /\ job'[c].ver = job[c].ver /\ job'[c].alone = job[c].alone
          /\ job'[c].scores = job[c].scores /\ job'[c].inode = job[c].inode
          /\ \A d \in Coroutines : d # c => job'[d] = job[d]
      BY <1>10 DEF SaveHead, BaseInv, TypeOK, Job, index
    <2> DEFINE file == [inodes[job[c].inode] EXCEPT
                           !.head = Part(job[c].ver, heap[job[c].list]),
                           !.alone = @ /\ job[c].alone]
    <2>2. inodes' = [inodes EXCEPT ![job[c].inode] = file]
      BY <1>10 DEF SaveHead
    <2>3. inodes[job[c].inode] \in File /\ job[c] \in Job /\ heap[job[c].list] \in Seq(Docs)
      BY <1>1, <2>1, ElementOfSeq DEF BaseInv, TypeOK
    <2>4. /\ file \in File /\ file.head = Part(job[c].ver, heap[job[c].list])
          /\ file.alone => job[c].alone /\ inodes[job[c].inode].alone
      BY <2>3, PartType DEF File, Job
    <2> HIDE DEF file
    <2>5. /\ OfOneSave(disk)' => WholeFile(inodes[disk])'
          /\ OfOneSave(tmp)' => OfOneSave(tmp)
          /\ OfOneSave(tmp)' /\ job[c].inode = tmp =>
                /\ job[c].alone /\ inodes'[tmp] = file
                /\ \A d \in Coroutines : d # c => job'[d].pc = "idle"
          /\ tmp # job[c].inode => inodes'[tmp] = inodes[tmp]
      BY <1>9, <2>1, <2>2, <2>4
    <2>6. job[c].alone \/ OfOneSave(tmp) => (tmp # 0 => job[c].inode = tmp)
      BY <2>1 DEF PickleIsWhole
    <2>7. job[c].alone => tmp # 0 /\ job[c].scores = heap[job[c].list]
      BY <2>1 DEF PickleIsWhole
    <2>8. OfOneSave(tmp)' => /\ job[c].inode = tmp
                             /\ inodes'[tmp].head = Part(job[c].ver, job[c].scores)
                             /\ \A d \in Coroutines : d # c => job'[d].pc = "idle"
      BY <2>4, <2>5, <2>6, <2>7 DEF OfOneSave
    <2>9. QED
      BY <2>1, <2>5, <2>6, <2>7, <2>8, <1>2 DEF PickleIsWhole
  <1>11. ASSUME NEW c \in Coroutines, SaveTail(c) PROVE PickleIsWhole'
    <2>1. /\ job[c].pc = "tail" /\ UNCHANGED <<heap, tmp, disk>>
          /\ job'[c].pc = "rename" /\ job'[c].alone = job[c].alone
          /\ job'[c].inode = job[c].inode
          /\ \A d \in Coroutines : d # c => job'[d] = job[d]
      BY <1>11 DEF SaveTail, BaseInv, TypeOK, Job, index
    <2> DEFINE file == [inodes[job[c].inode] EXCEPT
                           !.tail = Part(job[c].ver, job[c].scores),
                           !.alone = @ /\ job[c].alone]
    <2>2. inodes' = [inodes EXCEPT ![job[c].inode] = file]
      BY <1>11 DEF SaveTail
    <2>3. inodes[job[c].inode] \in File /\ job[c] \in Job
      BY <1>1, <2>1, ElementOfSeq DEF BaseInv, TypeOK
    <2>4. /\ file \in File /\ file.tail = Part(job[c].ver, job[c].scores)
          /\ file.head = inodes[job[c].inode].head
          /\ file.alone => job[c].alone /\ inodes[job[c].inode].alone
      BY <2>3, PartType DEF File, Job
    <2> HIDE DEF file
    <2>5. /\ OfOneSave(disk)' => WholeFile(inodes[disk])'
          /\ OfOneSave(tmp)' => OfOneSave(tmp)
          /\ OfOneSave(tmp)' /\ job[c].inode = tmp =>
                /\ job[c].alone /\ inodes'[tmp] = file
                /\ \A d \in Coroutines : d # c => job'[d].pc = "idle"
          /\ tmp # job[c].inode => inodes'[tmp] = inodes[tmp]
      BY <1>9, <2>1, <2>2, <2>4
    <2>6. job[c].alone \/ OfOneSave(tmp) => (tmp # 0 => job[c].inode = tmp)
      BY <2>1 DEF PickleIsWhole
    <2>7. job[c].alone => tmp # 0
      BY <2>1 DEF PickleIsWhole
    <2>8. OfOneSave(tmp) => inodes[tmp].head = Part(job[c].ver, job[c].scores)
      BY <2>1 DEF PickleIsWhole
    <2>9. job[c].ver # 0
      BY <2>1 DEF BaseInv, LabelsArePositive
    <2>10. OfOneSave(tmp)' => /\ job[c].inode = tmp /\ WholeFile(inodes'[tmp])
                              /\ \A d \in Coroutines : d # c => job'[d].pc = "idle"
      BY <2>4, <2>5, <2>6, <2>8, <2>9 DEF OfOneSave, WholeFile, Part
    <2>11. QED
      BY <2>1, <2>5, <2>6, <2>7, <2>10, <1>2 DEF PickleIsWhole
  <1>12. ASSUME NEW c \in Coroutines, SaveRename(c) PROVE PickleIsWhole'
    <2>1. job[c].pc = "rename" /\ inodes' = inodes /\ heap' = heap /\ job'[c].pc = "idle"
          /\ \A d \in Coroutines : d # c => job'[d] = job[d]
      BY <1>12 DEF SaveRename, BaseInv, TypeOK, NoJob, index
    <2>2. tmp' = 0 /\ disk' = IF tmp # 0 THEN tmp ELSE disk
      BY <1>12 DEF SaveRename
    <2>3. \A d \in Coroutines : d # c => ~job'[d].alone
      BY <1>2, <2>1
    <2>4. OfOneSave(disk)' => WholeFile(inodes[disk])'
      BY <2>1, <2>2 DEF PickleIsWhole, OfOneSave, WholeFile
    <2>5. QED
      BY <2>1, <2>2, <2>3, <2>4 DEF PickleIsWhole, OfOneSave
  <1>13. ASSUME NEW s \in Searchers, Search(s) PROVE PickleIsWhole'
    BY <1>13, SearchForm DEF BaseInv, Update, PickleIsWhole, OfOneSave, index, files
  <1>14. CASE LoadFromDisk
    <2>1. UNCHANGED files /\ \A c \in Coroutines : job'[c].pc = "idle"
      BY <1>14 DEF LoadFromDisk, BaseInv, DownIsQuiet, NoJob
    <2>2. QED
      BY <1>4, <2>1
  <1>15. CASE Crash
    <2>1. UNCHANGED files /\ \A c \in Coroutines : job'[c].pc = "idle"
      BY <1>15 DEF Crash, NoJob
    <2>2. QED
      BY <1>4, <2>1
  <1>16. QED
    BY <1>3, <1>5, <1>6, <1>7, <1>8, <1>10, <1>11, <1>12, <1>13, <1>14, <1>15
    DEF Next, Save

\* The inductive invariant of the index and its pickle.
IndexInv == BaseInv /\ Aligned /\ PickleIsWhole

\* It holds from the start, when a pickle of the empty index is on disk.
LEMMA IndexInvInit == Init => IndexInv
  <1> SUFFICES ASSUME Init PROVE IndexInv
    OBVIOUS
  <1>1. TypeOK /\ DownIsQuiet
    BY TypesInit
  <1>2. OneChanger /\ SuspectIsFresh /\ AloneIsAlone /\ LabelsArePositive /\ Aligned
    BY DEF Init, NoJob, OneChanger, SuspectIsFresh, AloneIsAlone, LabelsArePositive, Aligned,
           Chunks
  <1>3. WholeFile(inodes[1])
    BY DEF Init, WholeFile, Part
  <1>4. PickleIsWhole
    BY <1>3 DEF Init, PickleIsWhole, NoJob
  <1>5. QED
    BY <1>1, <1>2, <1>4 DEF IndexInv, BaseInv

\* What the theorems below rely on, in every state.
LEMMA IndexInvAlways == Spec => []IndexInv
  <1>1. IndexInv /\ [Next]_vars => IndexInv'
    <2> SUFFICES ASSUME IndexInv, [Next]_vars PROVE IndexInv'
      OBVIOUS
    <2>1. BaseInv'
      BY TypeOKNext, DownIsQuietNext, OneChangerNext, SuspectIsFreshNext, AloneIsAloneNext,
         LabelsArePositiveNext
      DEF IndexInv, BaseInv
    <2>2. Aligned' /\ PickleIsWhole'
      BY AlignedNext, PickleIsWholeNext DEF IndexInv
    <2>3. QED
      BY <2>1, <2>2 DEF IndexInv
  <1>2. QED
    BY <1>1, IndexInvInit, PTL DEF Spec

\* Between changes the index scores exactly the chunks it holds, also after a
\* restart from the pickle, for any number of coroutines and crashes: but for an
\* index loaded from a pickle whose save was overlapped, until its next change.
THEOREM IndexStaysAligned == Spec => []IndexIsAligned
  <1>1. IndexInv => IndexIsAligned
    BY DEF IndexInv, Aligned, IndexIsAligned
  <1>2. QED
    BY <1>1, IndexInvAlways, PTL

\* However many coroutines save and wherever the process crashes, the pickle of a
\* save that no other coroutine overlapped is whole, and aligned.
THEOREM LoneSavesStayWhole == Spec => []LoneSavesAreWhole
  <1>1. IndexInv => LoneSavesAreWhole
    BY DEF IndexInv, PickleIsWhole, OfOneSave, WholeFile, LoneSavesAreWhole, Unreadable, Mixed
  <1>2. QED
    BY <1>1, IndexInvAlways, PTL

-----------------------------------------------------------------------------
(* Searches.                                                               *)

\* The change that is under way has overlapped every search that runs, and a
\* search of an index from a doubtful pickle knows it.
OverlapsAreRecorded ==
    \A s \in Searchers : Running(s) =>
        /\ \A c \in Coroutines : job[c].pc = "index" => job[c].op \in search[s].overlaps
        /\ suspect => "load" \in search[s].overlaps

OnlyAdded(s) == search[s].overlaps \subseteq {"add"}

\* What a search has read so far is still so, whatever was added meanwhile.
SearchIsRight(s) ==
    /\ search[s].pc \in {"filter", "score"} => bm25 # <<>>
    /\ search[s].pc \in {"new", "filter", "score"} => search[s].found = {}
    /\ search[s].pc = "score" /\ Filtered(s) =>
          \A i \in search[s].eligible :
             i \in Positions(Chunks) /\ SourceOf(Chunks[i]) = search[s].filter
    /\ search[s].pc = "score" /\ Filtered(s) /\ search[s].overlaps = {} =>
          search[s].eligible \subseteq Positions(bm25)
    /\ search[s].pc = "copy" => Begins(search[s].scored, Chunks)
    /\ search[s].pc = "copy" /\ Filtered(s) =>
          \A i \in search[s].todo : SourceOf(search[s].scored[i]) = search[s].filter
    /\ \A f \in search[s].found :
            /\ f.doc = search[s].scored[f.at]
            /\ Filtered(s) => SourceOf(f.doc) = search[s].filter
    /\ search[s].pc = "failed" => search[s].overlaps = {"add"} /\ Filtered(s)

SearchesAreRight == \A s \in Searchers : OnlyAdded(s) => SearchIsRight(s)

\* A search starts once, and what has overlapped it since is not forgotten.
LEMMA SearchGoesOn ==
    ASSUME TypeOK, NEW s \in Searchers, Search(s)
    PROVE  /\ search'[s].pc # "new"
           /\ ~SearchStart(s) => Running(s) /\ search'[s].overlaps = search[s].overlaps
  <1>1. search[s] \in SearchRecord /\ search \in [Searchers -> SearchRecord]
    BY DEF TypeOK
  <1>2. CASE SearchFilter(s)
    BY <1>1, <1>2 DEF SearchFilter, Update, Running, SearchRecord
  <1>3. CASE SearchScore(s)
    <2>1. \/ search'[s] = [search[s] EXCEPT !.pc = "failed"]
          \/ \E hits : search'[s] = [search[s] EXCEPT !.pc = "copy", !.scored = bm25,
                                                      !.todo = hits, !.eligible = {}]
      BY <1>1, <1>3 DEF SearchScore, Update
    <2>2. QED
      BY <1>1, <1>3, <2>1 DEF SearchScore, Running, SearchRecord
  <1>4. CASE SearchCopy(s)
    <2>1. PICK i \in search[s].todo :
              IF i \in Positions(Chunks)
                THEN Update(s, [search[s] EXCEPT !.todo = @ \ {i},
                                    !.found = @ \cup {[at |-> i, doc |-> Chunks[i]]}])
                ELSE Update(s, [search[s] EXCEPT !.pc = "failed"])
      BY <1>4 DEF SearchCopy
    <2>2. \/ search'[s] = [search[s] EXCEPT !.pc = "failed"]
          \/ search'[s] = [search[s] EXCEPT !.todo = @ \ {i},
                               !.found = @ \cup {[at |-> i, doc |-> Chunks[i]]}]
      BY <1>1, <2>1 DEF Update
    <2>3. search[s].pc = "copy"
      BY <1>4 DEF SearchCopy
    <2> HIDE DEF Chunks
    <2>4. search'[s].pc # "new" /\ search'[s].overlaps = search[s].overlaps
      BY <1>1, <2>2, <2>3 DEF SearchRecord
    <2>5. QED
      BY <2>3, <2>4 DEF Running
  <1>5. CASE SearchEnd(s)
    BY <1>1, <1>5 DEF SearchEnd, Update, Running, SearchRecord
  <1>6. CASE SearchStart(s)
    <2>1. PICK filter \in {"none", "official", "experience"} :
              Update(s, [search[s] EXCEPT
                  !.pc = IF bm25 = <<>> \/ Chunks = <<>> THEN "done"
                         ELSE IF filter = "none" THEN "score" ELSE "filter",
                  !.filter = filter,
                  !.overlaps = OverlapsNow])
      BY <1>6 DEF SearchStart
    <2>2. search'[s].pc = IF bm25 = <<>> \/ Chunks = <<>> THEN "done"
                          ELSE IF filter = "none" THEN "score" ELSE "filter"
      BY <1>1, <2>1 DEF Update, SearchRecord
    <2>3. QED
      BY <1>6, <2>2
  <1>7. QED
    BY <1>2, <1>3, <1>4, <1>5, <1>6 DEF Search

\* A search that has not started has nothing to forget.
NewSearchesAreNew == \A s \in Searchers : search[s].pc = "new" => search[s] = NewSearch

LEMMA NewSearchesAreNewNext ==
    ASSUME BaseInv, NewSearchesAreNew, [Next]_vars
    PROVE  NewSearchesAreNew'
  <1>1. CASE UNCHANGED vars
    BY <1>1 DEF NewSearchesAreNew, vars
  <1>2. ASSUME NEW c \in Coroutines, Change(c) PROVE NewSearchesAreNew'
    <2>1. PICK op \in Ops : BeginChange(c, op)
      BY <1>2, ChangeForm DEF BaseInv
    <2>2. \A s \in Searchers : search'[s] = IF Running(s)
              THEN [search[s] EXCEPT !.overlaps = @ \cup {op}] ELSE search[s]
      BY <2>1 DEF BeginChange
    <2>3. \A s \in Searchers : Running(s) => search'[s].pc = search[s].pc
      BY <2>2 DEF BaseInv, TypeOK, SearchRecord
    <2>4. QED
      BY <2>2, <2>3 DEF NewSearchesAreNew, Running
  <1>3. ASSUME NEW c \in Coroutines, FinishChange(c) \/ BumpKbVersion(c) \/ Save(c)
        PROVE  NewSearchesAreNew'
    BY <1>3, JobForm DEF NewSearchesAreNew, BaseInv
  <1>4. ASSUME NEW s \in Searchers, Search(s) PROVE NewSearchesAreNew'
    <2>1. search'[s].pc # "new"
      BY <1>4, SearchGoesOn DEF BaseInv
    <2>2. \A r \in Searchers : r # s => search'[r] = search[r]
      BY <1>4, SearchForm DEF Update, BaseInv, TypeOK
    <2>3. QED
      BY <2>1, <2>2 DEF NewSearchesAreNew
  <1>5. CASE LoadFromDisk \/ Crash
    BY <1>5 DEF LoadFromDisk, Crash, NewSearchesAreNew
  <1>6. QED
    BY <1>1, <1>2, <1>3, <1>4, <1>5 DEF Next

\* A change tells the searches that run, and a search that starts asks for it.
LEMMA OverlapsAreRecordedNext ==
    ASSUME BaseInv, OverlapsAreRecorded, [Next]_vars
    PROVE  OverlapsAreRecorded'
  <1>1. CASE UNCHANGED vars
    BY <1>1 DEF OverlapsAreRecorded, vars, index, Running
  <1>2. ASSUME NEW c \in Coroutines, Change(c) PROVE OverlapsAreRecorded'
    <2>1. PICK op \in Ops : BeginChange(c, op)
      BY <1>2, ChangeForm DEF BaseInv
    <2>2. \A d \in Coroutines : job'[d].pc = "index" => job'[d].op = op
      BY <2>1 DEF BeginChange, LoopIsFree, BaseInv, TypeOK, NoJob, Job
    <2>3. \A s \in Searchers : Running(s)' => Running(s) /\ op \in search'[s].overlaps
                                              /\ search[s].overlaps \subseteq search'[s].overlaps
      BY <2>1 DEF BeginChange, BaseInv, TypeOK, SearchRecord, Running
    <2>4. suspect' = suspect
      BY <2>1 DEF BeginChange
    <2>5. QED
      BY <2>2, <2>3, <2>4 DEF OverlapsAreRecorded
  <1>3. ASSUME NEW c \in Coroutines, FinishChange(c) \/ BumpKbVersion(c) \/ Save(c)
        PROVE  OverlapsAreRecorded'
    <2>1. suspect' => suspect
      BY <1>3, JobForm DEF FinishChange, BaseInv
    <2>2. QED
      BY <1>3, <2>1, JobForm DEF OverlapsAreRecorded, BaseInv, Running
  <1>4. ASSUME NEW s \in Searchers, Search(s) PROVE OverlapsAreRecorded'
    <2>1. job' = job /\ suspect' = suspect
          /\ \A r \in Searchers : r # s => search'[r] = search[r]
      BY <1>4, SearchForm DEF Update, index, BaseInv, TypeOK
    <2>2. CASE SearchStart(s)
      <3>1. search'[s].overlaps = OverlapsNow
        BY <2>2 DEF SearchStart, Update, BaseInv, TypeOK, SearchRecord
      <3>2. QED
        BY <2>1, <3>1 DEF OverlapsAreRecorded, OverlapsNow, Running
    <2>3. CASE ~SearchStart(s)
      <3>1. search'[s].overlaps = search[s].overlaps /\ Running(s)
        BY <1>4, <2>3, SearchGoesOn DEF BaseInv
      <3>2. QED
        BY <2>1, <3>1 DEF OverlapsAreRecorded, Running
    <2>4. QED
      BY <2>2, <2>3
  <1>5. CASE LoadFromDisk \/ Crash
    <2>1. \A s \in Searchers : ~Running(s)'
      BY <1>5 DEF LoadFromDisk, Crash, BaseInv, DownIsQuiet, Running, NewSearch
    <2>2. QED
      BY <2>1 DEF OverlapsAreRecorded
  <1>6. QED
    BY <1>1, <1>2, <1>3, <1>4, <1>5 DEF Next

\* A search that does not run has read what it read.
LEMMA RestingStaysRight ==
    ASSUME NEW s \in Searchers, SearchIsRight(s), search'[s] = search[s], ~Running(s)
    PROVE  SearchIsRight(s)'
  BY DEF SearchIsRight, Running, Filtered

\* Nor does a search notice that the list grows.
LEMMA GrowthKeepsRight ==
    ASSUME BaseInv, NEW s \in Searchers, SearchIsRight(s),
           \E overlaps \in SUBSET {"add"} :
               search'[s] = [search[s] EXCEPT !.overlaps = overlaps],
           Chunks' \in Seq(Docs), Begins(Chunks, Chunks'),
           bm25 # <<>> => bm25' # <<>>,
           search'[s].overlaps = {} => search[s].overlaps = {} /\ bm25' = bm25,
           search[s].pc # "failed"
    PROVE  SearchIsRight(s)'
  <1>1. PICK overlaps \in SUBSET {"add"} : search'[s] = [search[s] EXCEPT !.overlaps = overlaps]
    OBVIOUS
  <1>2. search[s] \in SearchRecord
    BY DEF BaseInv, TypeOK
  <1>3. /\ search'[s].pc = search[s].pc /\ search'[s].filter = search[s].filter
        /\ search'[s].eligible = search[s].eligible /\ search'[s].scored = search[s].scored
        /\ search'[s].todo = search[s].todo /\ search'[s].found = search[s].found
        /\ Filtered(s)' = Filtered(s)
    BY <1>1, <1>2 DEF SearchRecord, Filtered
  <1>4. Chunks \in Seq(Docs)
    BY ElementOfSeq, LenProperties DEF BaseInv, TypeOK, Chunks
  <1>5. Len(Chunks) \in Nat /\ Len(Chunks') \in Nat /\ Len(search[s].scored) \in Nat
    BY <1>2, <1>4, LenProperties DEF SearchRecord
  <1>6. \A i \in Positions(Chunks) : i \in Positions(Chunks)' /\ Chunks'[i] = Chunks[i]
    BY <1>5 DEF Begins, Positions
  <1>7. Begins(search[s].scored, Chunks) => Begins(search[s].scored, Chunks')
    BY <1>5 DEF Begins, Positions
  <1>8. search'[s].pc = "score" /\ Filtered(s)' =>
          \A i \in search'[s].eligible :
             i \in Positions(Chunks)' /\ SourceOf(Chunks'[i]) = search'[s].filter
    BY <1>3, <1>6 DEF SearchIsRight
  <1>9. search'[s].pc = "score" /\ Filtered(s)' /\ search'[s].overlaps = {} =>
          search'[s].eligible \subseteq Positions(bm25')
    BY <1>3 DEF SearchIsRight
  <1>10. search'[s].pc = "copy" => Begins(search'[s].scored, Chunks')
    BY <1>3, <1>7 DEF SearchIsRight
  <1>11. QED
    BY <1>3, <1>8, <1>9, <1>10 DEF SearchIsRight, Positions, SourceOf, Begins

\* A search that starts has found nothing yet.
LEMMA StartIsRight ==
    ASSUME BaseInv, NewSearchesAreNew, NEW s \in Searchers, SearchStart(s)
    PROVE  SearchIsRight(s)'
  <1>1. search[s] \in SearchRecord /\ search \in [Searchers -> SearchRecord]
    BY DEF BaseInv, TypeOK
  <1>2. search[s].found = {}
    BY DEF SearchStart, NewSearchesAreNew, NewSearch
  <1>3. /\ search'[s].found = {} /\ search'[s].pc \in {"done", "filter", "score"}
        /\ search'[s].pc = "score" => search'[s].filter = "none"
        /\ search'[s].pc \in {"filter", "score"} => bm25 # <<>>
        /\ UNCHANGED <<heap, chunks, bm25>>
    BY <1>1, <1>2 DEF SearchStart, Update, index, SearchRecord
  <1>4. QED
    BY <1>3 DEF SearchIsRight, Filtered

\* Where no change has overlapped a search, the positions it filters are scored.
LEMMA FilterIsRight ==
    ASSUME BaseInv, Aligned, OverlapsAreRecorded, NEW s \in Searchers, SearchFilter(s),
           SearchIsRight(s)
    PROVE  SearchIsRight(s)'
  <1> DEFINE eligible == {i \in Positions(Chunks) : SourceOf(Chunks[i]) = search[s].filter}
  <1>1. search[s] \in SearchRecord /\ search \in [Searchers -> SearchRecord]
    BY DEF BaseInv, TypeOK
  <1>2. /\ search[s].pc = "filter"
        /\ search'[s].pc \in {"done", "score"} /\ search'[s].eligible = eligible
        /\ search'[s].filter = search[s].filter /\ search'[s].found = search[s].found
        /\ search'[s].overlaps = search[s].overlaps
        /\ UNCHANGED <<heap, chunks, bm25>>
    BY <1>1 DEF SearchFilter, Update, index, SearchRecord
  <1>3. search[s].overlaps = {} => eligible \subseteq Positions(bm25)
    <2> SUFFICES ASSUME search[s].overlaps = {} PROVE bm25 = Chunks
      OBVIOUS
    <2>1. LoopIsFree /\ ~suspect
      BY <1>2 DEF OverlapsAreRecorded, Running, LoopIsFree
    <2>2. QED
      BY <2>1 DEF Aligned
  <1>4. bm25 # <<>> /\ search[s].found = {}
    BY <1>2 DEF SearchIsRight
  <1>5. Chunks' = Chunks
    BY <1>2 DEF Chunks
  <1> HIDE DEF eligible
  <1>6. \A i \in eligible : i \in Positions(Chunks) /\ SourceOf(Chunks[i]) = search[s].filter
    BY DEF eligible
  <1>7. QED
    BY <1>2, <1>3, <1>4, <1>5, <1>6 DEF SearchIsRight, Filtered, Positions

\* The positions that are scored are those of the list, or of its beginning.
LEMMA ScoreIsRight ==
    ASSUME BaseInv, Aligned, OverlapsAreRecorded, NEW s \in Searchers, SearchScore(s),
           OnlyAdded(s), SearchIsRight(s)
    PROVE  SearchIsRight(s)'
  <1>1. search[s] \in SearchRecord /\ search \in [Searchers -> SearchRecord]
    BY DEF BaseInv, TypeOK
  <1>2. search[s].pc = "score" /\ bm25 # <<>> /\ search[s].found = {}
    BY DEF SearchScore, SearchIsRight
  <1>3. Chunks' = Chunks /\ bm25' = bm25
    BY DEF SearchScore, Update, index, Chunks
  <1>4. Begins(bm25, Chunks)
    <2>0. ~suspect
      BY <1>2 DEF OverlapsAreRecorded, Running, OnlyAdded
    <2>1. CASE LoopIsFree
      <3>1. Chunks \in Seq(Docs)
        BY ElementOfSeq, LenProperties DEF BaseInv, TypeOK, Chunks
      <3>2. QED
        BY <2>0, <2>1, <3>1, LenProperties DEF Aligned, Begins
    <2>2. CASE ~LoopIsFree
      <3>1. PICK c \in Coroutines : job[c].pc = "index"
        BY <2>2 DEF LoopIsFree
      <3>2. job[c].op = "add"
        BY <1>2, <3>1 DEF OverlapsAreRecorded, Running, OnlyAdded
      <3>3. QED
        BY <2>0, <3>1, <3>2 DEF Aligned
    <2>3. QED
      BY <2>1, <2>2
  <1> DEFINE candidates == IF search[s].filter = "none" THEN Positions(bm25)
                                                        ELSE search[s].eligible
  <1>5. CASE ~(candidates \subseteq Positions(bm25))
    <2>1. search'[s] = [search[s] EXCEPT !.pc = "failed"]
      BY <1>1, <1>5 DEF SearchScore, Update
    <2>2. /\ search'[s].pc = "failed" /\ search'[s].found = {}
          /\ search'[s].overlaps = search[s].overlaps /\ search'[s].filter = search[s].filter
      BY <1>1, <1>2, <2>1 DEF SearchRecord
    <2>3. Filtered(s)
      BY <1>5 DEF Filtered
    <2>4. search[s].overlaps # {}
      BY <1>2, <1>5, <2>3 DEF SearchIsRight, Filtered
    <2>5. QED
      BY <2>2, <2>3, <2>4 DEF SearchIsRight, Filtered, OnlyAdded
  <1>6. CASE candidates \subseteq Positions(bm25)
    <2>1. PICK hits \in SUBSET candidates :
              search'[s] = [search[s] EXCEPT !.pc = "copy", !.scored = bm25,
                                             !.todo = hits, !.eligible = {}]
      BY <1>1, <1>2, <1>6 DEF SearchScore, Update
    <2>2. /\ search'[s].pc = "copy" /\ search'[s].found = {} /\ search'[s].scored = bm25
          /\ search'[s].todo = hits /\ search'[s].filter = search[s].filter
      BY <1>1, <1>2, <2>1 DEF SearchRecord
    <2>3. ASSUME Filtered(s), NEW i \in hits PROVE SourceOf(bm25[i]) = search[s].filter
      <3>1. i \in Positions(bm25) /\ SourceOf(Chunks[i]) = search[s].filter
        BY <1>2, <1>6, <2>1, <2>3 DEF SearchIsRight, Filtered
      <3>2. QED
        BY <1>4, <3>1 DEF Begins
    <2>4. QED
      BY <1>3, <1>4, <2>2, <2>3 DEF SearchIsRight, Filtered
  <1>7. QED
    BY <1>5, <1>6

\* A chunk that is copied has the position it was scored at.
LEMMA CopyIsRight ==
    ASSUME BaseInv, NEW s \in Searchers, SearchCopy(s), SearchIsRight(s)
    PROVE  SearchIsRight(s)'
  <1>1. search[s] \in SearchRecord /\ search \in [Searchers -> SearchRecord]
        /\ search[s].todo \subseteq Positions(search[s].scored)
    BY DEF BaseInv, TypeOK
  <1>2. PICK i \in search[s].todo :
            IF i \in Positions(Chunks)
              THEN Update(s, [search[s] EXCEPT !.todo = @ \ {i},
                                  !.found = @ \cup {[at |-> i, doc |-> Chunks[i]]}])
              ELSE Update(s, [search[s] EXCEPT !.pc = "failed"])
    BY DEF SearchCopy
  <1>3. search[s].pc = "copy" /\ Begins(search[s].scored, Chunks)
    BY DEF SearchCopy, SearchIsRight
  <1>4. i \in Positions(Chunks) /\ Chunks[i] = search[s].scored[i]
    <2>1. Chunks \in Seq(Docs)
      BY ElementOfSeq, LenProperties DEF BaseInv, TypeOK, Chunks
    <2>2. Len(Chunks) \in Nat /\ Len(search[s].scored) \in Nat
      BY <1>1, <2>1, LenProperties DEF SearchRecord
    <2>3. QED
      BY <1>1, <1>3, <2>2 DEF Begins, Positions
  <1>5. Chunks' = Chunks /\ bm25' = bm25
    BY <1>2, <1>4 DEF Update, index, Chunks
  <1>6. search'[s] = [search[s] EXCEPT !.todo = @ \ {i},
                          !.found = @ \cup {[at |-> i, doc |-> Chunks[i]]}]
    BY <1>1, <1>2, <1>4 DEF Update
  <1>7. /\ search'[s].pc = "copy" /\ search'[s].scored = search[s].scored
        /\ search'[s].filter = search[s].filter
        /\ search'[s].todo = search[s].todo \ {i}
        /\ search'[s].found = search[s].found \cup {[at |-> i, doc |-> Chunks[i]]}
    BY <1>1, <1>3, <1>6 DEF SearchRecord
  <1>8. Filtered(s) => SourceOf(Chunks[i]) = search[s].filter
    BY <1>3, <1>4 DEF SearchIsRight
  <1>9. \A f \in search'[s].found :
            /\ f.doc = search'[s].scored[f.at]
            /\ Filtered(s)' => SourceOf(f.doc) = search'[s].filter
    BY <1>4, <1>7, <1>8 DEF SearchIsRight, Filtered
  <1>10. QED
    BY <1>3, <1>5, <1>7, <1>9 DEF SearchIsRight, Filtered

\* A search that ends keeps what it found.
LEMMA EndIsRight ==
    ASSUME BaseInv, NEW s \in Searchers, SearchEnd(s), SearchIsRight(s)
    PROVE  SearchIsRight(s)'
  <1>1. search[s] \in SearchRecord /\ search \in [Searchers -> SearchRecord]
    BY DEF BaseInv, TypeOK
  <1>2. /\ search'[s].pc = "done" /\ search'[s].found = search[s].found
        /\ search'[s].scored = search[s].scored /\ search'[s].filter = search[s].filter
    BY <1>1 DEF SearchEnd, Update, SearchRecord
  <1>3. QED
    BY <1>2 DEF SearchIsRight, Filtered

\* Whatever a step does, a search that was only overlapped by uploads is right.
LEMMA SearchesAreRightNext ==
    ASSUME BaseInv, Aligned, NewSearchesAreNew, OverlapsAreRecorded, SearchesAreRight,
           [Next]_vars
    PROVE  SearchesAreRight'
  <1> SUFFICES ASSUME NEW s \in Searchers, OnlyAdded(s)' PROVE SearchIsRight(s)'
    BY DEF SearchesAreRight
  <1>1. search[s] \in SearchRecord /\ search \in [Searchers -> SearchRecord]
    BY DEF BaseInv, TypeOK
  <1>2. ASSUME search'[s] = search[s], Chunks' = Chunks, bm25' = bm25
        PROVE  SearchIsRight(s)'
    BY <1>2 DEF SearchesAreRight, OnlyAdded, SearchIsRight, Filtered, Positions, Begins
  <1>3. ASSUME search'[s] = search[s], ~Running(s) PROVE SearchIsRight(s)'
    BY <1>3, RestingStaysRight DEF SearchesAreRight, OnlyAdded
  <1>4. CASE UNCHANGED vars
    BY <1>2, <1>4 DEF vars, index, Chunks
  <1>5. ASSUME NEW c \in Coroutines, Change(c) PROVE SearchIsRight(s)'
    <2>1. PICK op \in Ops : BeginChange(c, op) /\ (op = "add" => Begins(Chunks, Chunks'))
      BY <1>5, ChangeForm DEF BaseInv
    <2>2. bm25' = bm25 /\ search'[s] = IF Running(s)
                THEN [search[s] EXCEPT !.overlaps = @ \cup {op}] ELSE search[s]
      BY <2>1 DEF BeginChange
    <2>3. CASE Running(s)
      <3>1. search'[s].overlaps = search[s].overlaps \cup {op}
        BY <1>1, <2>2, <2>3 DEF SearchRecord
      <3>2. op = "add" /\ OnlyAdded(s) /\ search'[s].overlaps \in SUBSET {"add"}
        BY <3>1 DEF OnlyAdded
      <3>3. search'[s] = [search[s] EXCEPT !.overlaps = search'[s].overlaps]
        BY <1>1, <2>2, <2>3, <3>1
      <3>4. Chunks' \in Seq(Docs)
        BY <1>5, ChangeForm, ElementOfSeq, LenProperties DEF BaseInv, ListsKept, Chunks
      <3>5. search'[s].overlaps # {} /\ search[s].pc # "failed" /\ SearchIsRight(s)
        BY <2>3, <3>1, <3>2 DEF Running, SearchesAreRight
      <3>6. QED
        BY <2>1, <2>2, <3>2, <3>3, <3>4, <3>5, GrowthKeepsRight
    <2>4. CASE ~Running(s)
      BY <1>3, <2>2, <2>4
    <2>5. QED
      BY <2>3, <2>4
  <1>6. ASSUME NEW c \in Coroutines, FinishChange(c) PROVE SearchIsRight(s)'
    <2>1. bm25' = Chunks /\ Chunks' = Chunks /\ search' = search /\ job[c].pc = "index"
      BY <1>6 DEF FinishChange, Chunks
    <2>2. CASE Running(s)
      <3>1. job[c].op \in search[s].overlaps /\ ~suspect /\ OnlyAdded(s) /\ SearchIsRight(s)
        BY <2>1, <2>2 DEF OverlapsAreRecorded, OnlyAdded, SearchesAreRight
      <3>2. Begins(bm25, Chunks)
        BY <2>1, <3>1 DEF OnlyAdded, Aligned
      <3>3. Chunks \in Seq(Docs) /\ bm25 \in Seq(Docs)
        BY ElementOfSeq, LenProperties DEF BaseInv, TypeOK, Chunks
      <3>4. bm25 # <<>> => bm25' # <<>>
        <4>1. bm25 # <<>> => Len(bm25) \in Nat /\ Len(bm25) # 0
          BY <3>3, EmptySeq, LenProperties
        <4>2. Chunks = <<>> => Len(Chunks) = 0
          BY EmptySeq
        <4>3. QED
          BY <2>1, <3>2, <4>1, <4>2 DEF Begins
      <3>5. search[s].overlaps # {} /\ search[s].overlaps \in SUBSET {"add"}
            /\ search'[s] = [search[s] EXCEPT !.overlaps = search[s].overlaps]
        BY <1>1, <2>1, <3>1 DEF OnlyAdded, SearchRecord
      <3>6. Begins(Chunks, Chunks')
        BY <2>1, <3>3, LenProperties DEF Begins
      <3>7. QED
        BY <2>1, <2>2, <3>1, <3>3, <3>4, <3>5, <3>6, GrowthKeepsRight DEF Running
    <2>3. QED
      BY <1>3, <2>1, <2>2
  <1>7. ASSUME NEW c \in Coroutines, BumpKbVersion(c) \/ Save(c) PROVE SearchIsRight(s)'
    <2>1. ~FinishChange(c)
      BY <1>7 DEF BaseInv, TypeOK, Job, FinishChange, BumpKbVersion, Save, SaveCapture, SaveOpen,
                  SaveHead, SaveTail, SaveRename
    <2>2. QED
      BY <1>2, <1>7, <2>1, JobForm DEF BaseInv, Chunks
  <1>8. ASSUME NEW r \in Searchers, Search(r) PROVE SearchIsRight(s)'
    <2>1. /\ UNCHANGED <<heap, chunks, bm25>>
          /\ r # s => search'[s] = search[s]
      BY <1>8, SearchForm DEF Update, index, BaseInv, TypeOK
    <2>2. CASE r # s
      BY <1>2, <2>1, <2>2 DEF Chunks
    <2>3. CASE r = s /\ SearchStart(s)
      BY <2>3, StartIsRight
    <2>4. CASE r = s /\ ~SearchStart(s)
      <3>1. OnlyAdded(s) /\ SearchIsRight(s)
        BY <1>8, <2>4, SearchGoesOn DEF BaseInv, OnlyAdded, SearchesAreRight
      <3>2. QED
        BY <1>8, <2>4, <3>1, FilterIsRight, ScoreIsRight, CopyIsRight, EndIsRight DEF Search
    <2>5. QED
      BY <2>2, <2>3, <2>4
  <1>9. CASE LoadFromDisk
    BY <1>3, <1>9 DEF LoadFromDisk, BaseInv, DownIsQuiet
  <1>10. CASE Crash
    <2>1. CASE Running(s)
      BY <1>10, <2>1 DEF Crash, NewSearch, SearchIsRight, Filtered
    <2>2. CASE ~Running(s)
      BY <1>3, <1>10, <2>2 DEF Crash
    <2>3. QED
      BY <2>1, <2>2
  <1>11. QED
    BY <1>4, <1>5, <1>6, <1>7, <1>8, <1>9, <1>10 DEF Next

\* The inductive invariant of the searches.
SearchInv == IndexInv /\ NewSearchesAreNew /\ OverlapsAreRecorded /\ SearchesAreRight

LEMMA SearchInvAlways == Spec => []SearchInv
  <1>1. Init => NewSearchesAreNew /\ OverlapsAreRecorded /\ SearchesAreRight
    BY DEF Init, NewSearchesAreNew, OverlapsAreRecorded, SearchesAreRight, SearchIsRight,
           NewSearch, Running, Filtered
  <1>2. /\ IndexInv /\ NewSearchesAreNew /\ OverlapsAreRecorded /\ SearchesAreRight
        /\ [Next]_vars
        => (NewSearchesAreNew /\ OverlapsAreRecorded /\ SearchesAreRight)'
    BY NewSearchesAreNewNext, OverlapsAreRecordedNext, SearchesAreRightNext DEF IndexInv
  <1>3. QED
    BY <1>1, <1>2, IndexInvAlways, PTL DEF Spec, SearchInv

\* Whatever uploads a search interleaves with, every chunk it returns is the chunk
\* whose score it carries and one the filter let in.
THEOREM NoUploadMisleads == Spec => []UploadsNeverMislead
  <1>1. SearchInv => UploadsNeverMislead
    BY DEF SearchInv, SearchesAreRight, SearchIsRight, OnlyAdded, UploadsNeverMislead
  <1>2. QED
    BY <1>1, SearchInvAlways, PTL

\* No search fails by itself, and no unfiltered one by uploads.
THEOREM SearchesFailByOverlap == Spec => []SearchesFailOnlyByOverlap
  <1>1. SearchInv => SearchesFailOnlyByOverlap
    BY DEF SearchInv, SearchesAreRight, SearchIsRight, OnlyAdded, SearchesFailOnlyByOverlap
  <1>2. QED
    BY <1>1, SearchInvAlways, PTL
=============================================================================
