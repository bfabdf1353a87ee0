# CampusGPT: a TLA+ model

CampusGPT answers students' questions from documents an administrator uploads:
a FastAPI server (`backend/app`), a React client (`frontend/src`), PostgreSQL
with pgvector, an in-memory BM25 index, Redis, an object store and two
providers of language models. This directory models the parts of it in which
several actors share state, checks them with TLC, and proves the most important
invariants with TLAPS.

All line numbers below are those of `backend/app` unless a path says otherwise.

## 1. Inventory

| Component | State | Operations | Interacts with |
|---|---|---|---|
| **Documents** (`services/document_service.py`, `routers/documents.py`) | a row per document (`status`, `source_type`), a file in the object store, chunks in `document_chunks`, chunks in BM25 | upload + background indexing, delete, patch, reindex, list | all stores, KB version, response cache |
| **BM25 index** (`rag/bm25_index.py`) | list of chunks, `BM25Okapi` object; pickle on disk labelled with a KB version | build, add, remove, search, save, load | changed on the event loop; searched and pickled in pool threads |
| **KB version** (`cache/kb_version.py`) | one counter in Redis | get (initialises to 1), bump | labels cache keys and the pickle |
| **Response cache** (`cache/response_cache.py`) | Redis entries with a TTL | get, set, flush | chat, patch, `POST /cache/flush` |
| **Chat** (`routers/chat.py`) | conversations, messages; one transaction per turn | ask, list, read, delete | cache, pipeline, progress, knowledge gaps, analytics |
| **Feedback** (`routers/feedback.py`) | feedback rows with snapshots | submit, list negatives | messages, by foreign keys |
| **Knowledge gaps** (`services/knowledge_gap_service.py`, `rag/outcome_classifier.py`) | a counter per normalised question | classify in the background, record, list | chat |
| **Progress** (`services/progress_service.py`) | stage of a request, in Redis with a process-local fallback | update, get, clear | pipeline writes, browser polls |
| **Pipeline** (`rag/pipeline.py`, `retriever.py`, `reranker.py`, `query_rewriter.py`) | none | rewrite, retrieve, fuse, rerank, generate | BM25, pgvector, models |
| **LLM fallback** (`services/llm_service.py`) | none | first provider, second on some errors | pipeline, classifier |
| **Ingestion** (`rag/ingestion.py`, `rag/chunker.py`) | none | extract, detect headings, pack sentences | document indexing |
| **Limiter** (`limiter.py`) | counters and recent query hashes, in Redis or memory | limit, reject duplicates within 5 s | every route |
| **Database** (`database.py`) | pool of 2 + 3 connections; schema | sessions, migrations at start-up | everything |
| **Start-up** (`main.py`) | - | migrate, load models, load or rebuild BM25 | BM25, KB version |
| **Sessions, admin login** (`dependencies.py`, `routers/admin_auth.py`) | none on the server | check a header or a cookie | every route |
| **Analytics** (`services/analytics_service.py`) | events, visits | insert, aggregate | chat, feedback |
| **Chat store** (`frontend/src/stores/chatStore.ts`) | active conversation, optimistic messages, pending conversations, a cache, a polling timer | send, switch, delete, rate, prefetch | chat, progress, feedback routes |

What is hard about it:

* **No transaction spans the stores.** A document is in five places, and every
  request updates them one after another with awaits in between. Deletion,
  patch and reindex may run while a document is being indexed; the process may
  die, and any call may fail, between two updates.
* **One process, many interleavings.** Requests are coroutines of one event
  loop (`render.yaml` starts one worker) and call blocking code in pool threads:
  a step of another request can fall between any two awaits, and threads read
  the BM25 index while the loop changes it.
* **Invalidation by version.** Cached answers and the pickle are never removed
  when the knowledge base changes; they become unreachable because a counter
  moved. That is right only if every change moves it, after the change, and
  nobody labels old data with a new version.
* **READ COMMITTED.** Turns, deletions, feedback and gap counters read and then
  write in separate statements.

What makes each part correct is stated as properties in section 4. The hazards
are listed, each at its line, in `PROJECT.json`.

## 2. Modules

| Module | Models | Grain of a step |
|---|---|---|
| `KnowledgeBase` | document lifecycle over all five stores, KB version, start-up, migration, crashes | what a coroutine does between two awaits |
| `KnowledgeBaseProofs` | theorems about it: types, pgvector, rows, the pickle, the BM25 index | |
| `Ingestion` | from a file to its chunks: extraction, headings, tables, packing | one page read, line parsed, row or sentence packed |
| `IngestionProofs` | theorems about it | |
| `AnsweredTurns` | what `POST /chat` promises about a turn, and nothing about how | one change of a turn's phase |
| `ChatServing` | a chat request: duplicate window, connection pool, handler, pipeline, two models, cache, progress; extends `KnowledgeGaps`, whose tasks it runs | what happens between two awaits or two calls to a shared store |
| `ChatServingProofs` | theorems about it, the refinement of `AnsweredTurns` among them | |
| `ChatStore` | the browser: selected conversation, display, cache, waiting questions, polling | a handler between two awaits |
| `ChatStoreProofs` | theorems about it | |
| `ResponseCache` | a question's way through the cache against changes, flushes and increments | one call to Redis |
| `ResponseCacheProofs` | theorems about it | |
| `Bm25Index` | the index object and its pickle under threads | a group of reads or writes of a shared object |
| `Bm25IndexProofs` | theorems about it | |
| `Conversations` | turns, deletion and feedback in PostgreSQL | one SQL statement or commit |
| `ConversationsProofs` | theorems about it | |
| `KnowledgeGaps` | classification and counting of unanswered questions | one SQL statement or commit |
| `KnowledgeGapsProofs` | theorems about it | |
| `MC...` | small instances: symmetry sets, files, queries of requests | |

The modules overlap on purpose. `KnowledgeBase` takes a change of the BM25
index, a search and a save for one step each; `Bm25Index` opens these steps up
and leaves the requests out. `KnowledgeBase` has the requests that bump the
version; `ResponseCache` reduces such a request to *change, (flush,) bump* and
adds the questions. `KnowledgeBase` has ingestion as one step that succeeds or
fails; `Ingestion` says what it computes. A turn is a sequence of SQL statements
in `Conversations`, a request with everything around the transaction in
`ChatServing`, and one step of the server in `ChatStore`.

Definitions whose comment begins with *Mutant* are faulty variants of the
definition that follows them. No specification uses them. They are listed under
`mutants` in `PROJECT.json`, each with the property that fails when the variant
takes the definition's place; so each property is known to notice a plausible
error in the code.

### KnowledgeBase

Variables: `status`, `src` (the rows), `r2` (files), `pg` (pgvector chunks),
`bm25`, `disk` (the pickle), `version`, `server`, and `job`, one record per
running coroutine with the step it is at. `trust` is a history variable: it
notes whether requests that disturb each other have overlapped (`Conflict`), a
call has failed, or the process died in the middle of something, so that a
property can say what holds if nothing of the kind has happened, or after the
rebuild that repairs it. The steps of a job are the awaits of
the code:

| Request | Steps, in order | Code |
|---|---|---|
| upload | `UploadStart` (file stored), `UploadInsertRow`, `ProcessSetIndexing`, `ProcessIngest`, `ProcessUpsert`, `ProcessAddBm25`, `ProcessSetIndexed`, `BumpKbVersion`, `SaveToDisk`; `ProcessSetError` is the except block | `routers/documents.py:34-124`, `document_service.py:71-172` |
| delete | `DeleteStart`, `DeletePg`, `DeleteBm25`, `DeleteR2`, `DeleteRow` (with the cascade), bump, save | `:142-156`, `:175-205` |
| patch | `PatchStart`, `PatchRow`, `PatchPg`, `PatchBm25`, `PatchFlush`, bump (no save) | `:159-196`, `:208-256` |
| reindex, start-up | `ReindexStart` or `BootRebuild`, `RebuildFetch`, `RebuildBuild`, bump, save | `:199-218`, `:259-275`, `main.py:78-84` |

Failures: `ProcessFault` (inside the try block, the except block can report it),
`JobRaises` (outside it, or the session itself fails, so that nothing more
runs), `BumpFails` (Redis: 0 is returned and the save skipped), and `Crash`
(memory and coroutines are gone, stores stay). A restart accepts the pickle if
its label is the version in Redis (`BootFromDisk`) and rebuilds otherwise.
`Redeploy` is a restart of an idle server with another vector dimension
configured: `init_db` drops all chunks and sets every row to *pending* in one
transaction (`database.py:181-215`). It does not increment the version, so the
pickle from before may be loaded; from then on `trust` no longer vouches for the
rows, until a rebuild for the index.

Abstractions: a document's chunks are inserted, relabelled and deleted by single
SQL statements or loops without an await, so they are one unit with a
`source_type`; BM25 also records whether chunks came from ingestion or from a
fetch, because the code holds different objects for them. Category and author
travel with `source_type` and are left out, as is the limit of 100000 chunks of a
fetch. A route's own SELECT and that of the service (both find the row in the
same transaction, or both do not) are one step. Models, extraction and embedding
are one step that succeeds, or fails.

### Ingestion

One behaviour is one call of `ingest_pdf` or `ingest_text_file`; `file` is chosen
at the start. `pc` names the loop the call is in: pages by PyMuPDF, by pdfplumber
when that raised or found no text, tables, decoding; merging of the pages;
parsing of lines into the section tree (`nodes` in
document order, `stack` the open ones); then the walk over the sections with the
table blocks split (`rows`) and the sentences packed (`cur`). A line of text is a
record: what kind of line `_is_table_line` sees, the first heading pattern it
matches, its number of words, whether it ends in a full stop, and whether it
begins with its section's title. Tokens are `int(words * 1.3)` as in the code. A
title is its heading without the hashes or the number, and a chunk's words are
those of the emitted text, with the title in front (`_prefix_section`). A
body line holds one sentence. Chunks remember the positions they were made of,
which is what the properties are about; `dropped` is a history variable with the
pieces for which the code makes no chunk.

### ChatServing and AnsweredTurns

`pc` is the step of each request, `status` what its client was told. `Arrive` is
`is_duplicate_query` with its pruning; `recent` is the dictionary in the
process's memory and is lost in a `Crash`. A session takes a connection at its
first statement (`Connect`) and gives it back at its commit, so a request needs
one for the turn, a second time for the refresh and the event, and its background
task once more (`holds`, `PoolSize`). The pipeline is a step per stage with the
report that `progress_service` makes of it: in Redis (`redis`), or in the
process's memory when the call fails (`spilled` notes whose last report went
there). A prompt goes to the models twice, for the rewriting and for the answer:
in *rewriting* and *generating* it is with Gemini, in *rephrasing* and *fallback*
with Groq. `RewriteFails` and `GeminiFails` choose the words of Gemini's error;
`Eligible` and `ClassifyLlmError` are the code's tests for them, upper and lower
case included. Errors of the rewriting are swallowed. Any other error of the
pipeline first reports *failed*, in its thread, and then waits with its code as
the step of the request, until `RaiseHttpError`, on the event loop, answers with
that code and closes the session. A cached answer is
the request it was made for. `DatabaseFails` is any statement, or the pool's
timeout.

`AnsweredTurns` is the contract: a turn is stored before it is answered, a
refused one never is, and between the two an error leaves it *unsure*. The
refinement mapping is the operator `turn` of `ChatServing`.

### ChatStore

What a JavaScript handler does between two awaits is one step, and the user, the
server and the replies interleave freely; replies overtake each other, any call
may fail. A conversation is the set of questions whose turns it holds. `cache`
with `lru` is the cache of conversations in the order of access, `pending` the
optimistic messages with their request ids, `polling` whether the interval is
set. Polling replaces all of the store's progress twice a second, from replies
that may be late and entries that may have expired; therefore progress is no
variable: `Progress` is the set of values it may have at a step, given what the
server can have reported by then. The server's steps are `StoreTurn`,
`RefuseTurn`, `ServeCall` and `ServeReload`; a reload of the page keeps the id of
the active conversation only. Left out: the list in the sidebar, the mode, the
toast, the flag of the background refresh, the text in the input.

### ResponseCache

`content` counts the changes retrieval can see. A request carries the version of
its lookup, the content its retrieval found, and the version of its write. An
answer records what it was computed from, so that a property can compare it with
what the request was entitled to: `mustSee`, the newest change whose request had
ended when the question arrived. SCAN returns every key that is present from its
start to its end, in pages, and possibly others. Retrieval is one step, though
the code searches BM25 and pgvector one after the other.

### Bm25Index

The list objects made so far are a `heap`, because the code depends on which
operation replaces the list (`build_from_chunks`, `remove_by_document_id`) and
which extends it in place (`add_chunks`). A pickle is written in two parts, the
list and the rest; the temporary file and the final name are directory entries
that point to inodes, so that one save can truncate the file another is writing.
A search in a pool thread is four steps: filter, score, copy each hit. Which
positions score above zero is any subset. Two history fields say what the
properties leave out: a save and its file are `alone` as long as no other
coroutine changes or saves the index while the save runs, and `suspect` marks an
index loaded from a file that is not `alone`, until the next change. Relabelling
chunks in place (a patch) is not in this module.

### Conversations

One browser session. A turn is one transaction, from the lookup of the
conversation to the commit of question and answer together; `conv` is *open*
while a new conversation is uncommitted. A deletion waits for the turns that
have inserted a message (they hold a share lock on the conversation's row
through the foreign key) and then cascades to what they committed. A rating is
two statements, the check for an existing row and the INSERT; its history field
`late` notes that its answer had feedback already when it began. Left out: a
turn that changes the knowledge mode (its row lock only orders turns more
strictly), rate limits, and listing.

### KnowledgeGaps

One action per statement of `record_knowledge_gap`. `ClassifyQueryOutcome` decides
by the phrases an answer may have and by the model's reply, in any of its forms,
or its failure.

`ChatServing` extends this module (so the names of the two differ), and the task
of a request is the request itself. `LogEvent` ends the request and classifies its
answer in one step, which decides whether the task goes on to wait for a
connection. While the request is at *record* its task makes its statements
(`LookUpGap`, `RecordGap`), and the commit gives the connection back; a failure
there (`DatabaseFails`) ends both without a word to anybody. A restart stops tasks
where they are: nothing takes them up again, and the row stays as it was. Every
step of `ChatServing` is a step of `KnowledgeGaps` or leaves it alone (proved,
`TasksAreImplemented`), so what is proved of the tasks holds of those of requests.

## 3. Bounds and fairness

Bounds are constants with names that begin with `Max`, or the number of members
of a set; they limit how many requests, changes, flushes, failures and crashes
happen, never what a step does.

| Run | Bounds | Why they are enough |
|---|---|---|
| `KB_concurrent` | 2 documents, 2 coroutines, 3 requests, 1 crash or redeployment, 1 failing call, 2 failures of Redis | every pair of requests overlaps in every way, before or after any third one; one failing call lets a coroutine stop anywhere, two failures of Redis are a start-up that leaves no version |
| `KB_liveness` | 1 document, 2 coroutines, 3 requests, 1 crash or redeployment, 1 failure | upload, deletion and patch of one document overlap; no symmetry, as it is unsound for liveness |
| `IN_chunks` | a budget of 10 tokens, a minimum of 4; all files of up to 5 lines of three lengths, or of table rows, rulers and text; outlines over two or three pages with and without injected tables | three sentences fit, one fits, one is too long; a block is below the minimum, fits, or is split more than once, and the first or the last piece of a split one is below the minimum; a heading closes one or several sections, on its own page or a later one |
| `CS_serving` | 3 requests of three clients with one query in 1 conversation, their tasks, 2 connections, 1 failing call of Redis or restart; Gemini fails with "blocked" and "rate" or without a word; the query has a normalised text or none | two pipelines of one conversation run and report at once while a third request waits for their connections; each can use the other's cached answer; two tasks read one count before either writes it, and a third comes before or after; the clock stands still, as nobody is a duplicate |
| `CS_liveness` | 3 requests of one client with one query, 2 conversations, their tasks, 1 connection, a window of 2, a clock of 6; no reranker, no failing Redis or Gemini, no restart; no symmetry | two requests or tasks wait for the connection that the third has, which each takes up to three times and can lose in every way; the ways the models fail are in `CS_serving`, and a pipeline keeps its connection through all of them; pruning forgets after more than four ticks, so a request comes to a pruned entry, within and outside of the window of each other one |
| `CH_store` | 2 conversations, 2 questions, 2 other calls, a cache of 1, 1 reload of the page | the reply of one question meets any state the other question, two loads, a deletion or a rating can leave; every second entry evicts one |
| `RC_cache` | 2 requests, 2 queries, 2 modes, 2 admins, 2 changes, 1 flush, 1 failure | the second request can hit what the first one stored; a change during the pipeline of an answer and one after it |
| `BM_threads` | 2 documents, one of each source type, 2 coroutines, 1 search, 2 changes, 1 crash | two saves overlap in all their steps, an upload extends the list that the other coroutine pickles, a crash falls in each of the steps, and the restart loads the mixed, the misaligned or the whole file; a search is overlapped by every sequence of 2 changes |
| `CV_turns` | 2 conversations, 3 turns, 2 ratings, history of 2 messages | overlaps of three turns with a deletion and two ratings; the third turn's window has to drop one |

The runs that end in a counterexample have the smallest bounds that show it.

`CHECK_DEADLOCK FALSE` is in the configurations of the server's modules, because
a server with no request left to serve, which the bounds bring about, rightly
does nothing. The runs of `Ingestion`, `ChatServing` and `ChatStore` check for
deadlock: a user can always do something, and the others have a step for being
done.

Fairness is assumed in two runs.

* `KB_liveness`: weak fairness of each coroutine's next step, because the event
  loop runs every coroutine that is ready and the calls it awaits return or fail;
  and weak fairness of the start-up, because the platform restarts a process that
  died. Nothing is assumed about failures or requests. `IndexingEnds` speaks of an
  indexing that is scheduled or runs, until the process dies: a crash in the
  middle leaves the row at `pending` or `indexing` for ever, because nothing starts
  the indexing again (`~> ... \/ server # "up"`). In this run calls fail at
  `ingest` and `upsert` (`FaultySteps`): a failure of the UPDATE that sets
  `indexed` leaves the session's transaction failed, the except block's own
  UPDATE raises, and the row stays at `indexing`. So the guarantee holds for
  failures of storage, extraction, embedding and pgvector, and not for those of
  the database session.
* `CS_liveness`: weak fairness of `Serve(r)`, the steps that go on with a request:
  the event loop and the threads of the pool get to each, and retrieval and the
  models answer or fail. The last is an assumption the code does not enforce,
  because the call to Gemini has no timeout (`llm_service.py:61`). Arrivals,
  the clock, failures and crashes are not fair, and the pool's timeout is not
  counted on: a request waits only for connections that other requests give back.

## 4. What the checks show

Properties that hold. *Proved* means: for every value of the constants, see
section 5.

Knowledge base:

* **ChunksHaveRow** - no chunk in pgvector outlives its document, in any
  interleaving with failures and crashes: the foreign key carries it. *Proved.*
* **IndexedHasChunks** - without crash, redeployment or failure an `indexed`
  document has chunks in pgvector unless it is being deleted. *Proved.*
* **AcceptedPickleIsCurrent** - when no step is between a change and its
  increment, a pickle labelled with the current version is the index, although
  saves race for the file: each save is labelled with the version its own
  increment returned, and the index is pickled only after it. *Proved.*
* **RowsAgreeWhenQuiet**, **IndexesAgreeWhenQuiet** - when all requests have
  ended, exactly the `indexed` documents have chunks, BM25 holds what pgvector
  holds, each document once and with its row's source type. This is so for all
  requests that do not conflict, whether or not they overlap; the second also
  holds after the restart of an idle server, and after any failure, crash or
  conflict once a rebuild has run alone. `Conflict` lists the overlaps to exclude,
  and is as small as the check allows: without any of its cases the run fails.
  Both *proved.*
* **IndexingEnds** - indexing ends in *indexed* or *error*, or its document is
  deleted, unless the process dies meanwhile; see section 3 for the failures it
  includes and for what a crash leaves behind.
* **ServerComesBack** - see section 3.

Ingestion:

* **ChunksFitBudget** - a text piece stays within the budget up to one token per
  sentence, by which rounding may deceive the running count, unless it is one
  sentence, or the overlap sentence with one that follows; a table piece stays
  within one and a half budgets unless one row and the header exceed it. The
  emitted chunk may exceed that by its section title, which the code puts in front
  without counting it, and by no more. *Proved.*
* **OnlySmallTextIsLost** - a line that is in no chunk of a finished call was in a
  piece that was dropped because it was small as a whole (a piece of text with its
  title below the noise floor, a table or a piece of one below the minimum) and
  that was complete: the line behind it did not fit, or was of another kind, or
  there was none. Headings are not lines of a section's body: the title of a
  section without body text is in no chunk's text, at most in the paths of its
  subsections' chunks, and the property does not speak of it. *Proved.*
* **SentencesInOrder** - chunks skip no sentence and repeat at most the last one.
  *Proved.*
* **TablePiecesKeepHeader** - pieces come from one block and begin with its
  header. *Proved.*
* **TextKeepsItsSection** - the path of a chunk is the outline of the file at each
  of its sentences, with either extractor, unless PyMuPDF broke off after a page.
  *Proved.*

Serving a question:

* **ImplementsTurns** - `ChatServing` implements `AnsweredTurns`: nobody is told
  an answer that is not stored, and nothing is ever stored of a refused turn, in
  spite of the commits of the event and of failures after the commit. *Proved.*
* **WindowIsKept** - while the process lives, accepted duplicates of one client are
  a window apart, and a rejection has an accepted question less than a window
  before it. The window is per client and begins with the last accepted question,
  which is less than `limiter.py` says; see the end of this section. *Proved.*
* **BlockedQuestionsStayOut** - a prompt that Gemini says it blocked is not put to
  the other model; a question blocked when it was to be answered reaches neither
  the cache nor the database, and its client gets an error. A block of the
  rewriting is swallowed like any error there, and that question goes on.
  *Proved.*
* **ProgressIsTrue** - the stage in Redis is where its request is, however many
  pipelines of a conversation report at once; a completed one has its answer, a
  failed one an error that the client is or will be told. This leaves out a
  request whose last report did not reach Redis, and those a crash has lost.
  *Proved.*
* **EveryRequestIsAnswered** - see section 3.

The browser:

* **PaneIsRight** - the display is the selected conversation, whichever reply
  comes late, and a skeleton has a load under way. *Proved.*
* **WaitingIsKept** - a question asked in a saved conversation that is asked nothing
  else stays on display as long as it may be answered; polling ends with the last
  question. *Proved.*
* **AnswersStay** - an answer that has arrived stays in cache and display, unless
  an older reply was on its way when it was stored. *Proved.*

Conversations, cache, index, gaps:

* **HitsKeepModeAndQuery**, **StableHitsAreFresh**, **FlushedAnswersStayAway** -
  the cache never mixes modes or questions; answers that no increment overlapped
  are invalidated by the next change; a flush removes what was there. *Proved.*
* **UploadsNeverMislead**, **SearchesFailOnlyByOverlap** - extending the list in
  place is safe for searches: positions only grow. *Proved.*
* **IndexIsAligned** - between changes, scores and chunks agree, however many
  coroutines change and save the index; the exception is an index loaded from the
  pickle of a save that was overlapped, until the next change (`suspect`). *Proved.*
* **LoneSavesAreWhole** - the pickle of a save that no other coroutine overlapped
  is whole after any crash, its list and its scores agree. The docstring promises
  it of every save; see the end of this section. *Proved.*
* **StoredTurnsAreWhole** - question and answer are stored together or not at
  all, and a deletion takes both. *Proved.*
* **SnapshotsAreImmutable** - feedback survives the deletion of its conversation
  and keeps its snapshot. *Proved.*
* **SecondRatingsAddNothing** - who rates an answer that has feedback adds no
  second row, because he finds the first or the answer is gone. *Proved.*
* **LoneAnswersAreRatedWithTheirQuestion**, **LoneHistoriesAreWhole** - without
  overlapping turns, snapshots and histories pair questions and answers correctly.
  *Proved.*
* **CountsAreEarned** - a gap's count is positive once recorded and never too
  large. *Proved.*

Runs that show where the code departs from what its documentation says (each a
finding in `PROJECT.json`, with the sentence it contradicts):

| Run | What happens |
|---|---|
| `KB_ghost` | deletion during indexing leaves the document's chunks in BM25 |
| `RC_race` | an answer is stored under a version newer than what it saw |
| `BM_isolation` | a filtered search returns a chunk of the other source type |

Three more sentences of the code and its documents are too strong. No run expects
their violation; the properties named here hold of what the code does instead, and
the models contain the behaviours that contradict the sentences:

* "The file is written atomically (temp file -> rename) so a crash mid-write never
  leaves a corrupted cache file" (`rag/bm25_index.py:287-288`). All saves use one
  temporary name: a second save opens and empties the file before the first
  renames it, so a half-written file gets the final name, and a crash leaves it
  there. `load_from_disk` cannot read it and rebuilds. **LoneSavesAreWhole** speaks
  of saves that no other coroutine overlapped.
* "Tables preserved as atomic chunks (never split)" (`rag/chunker.py:13`; "so they
  are never split by the chunker", `src/README.md:120`). `_split_table_if_needed`
  splits a table above one and a half budgets between its rows, as its own
  docstring says. **TablePiecesKeepHeader** is about the pieces.
* "to reject identical query spam regardless of source IP" (`limiter.py:22-24`):
  the hash is made of address and query, so one query from two addresses is
  accepted twice; and "was received within the deduplication window"
  (`limiter.py:135-136`): a rejected query is not remembered, so one that comes
  within the window of it may be accepted. **WindowIsKept** is about accepted
  queries of one client.

The premises of the properties above mark further behaviours of the code that
the models contain, and that a reader of a property should know.

In the server:

* a patch during indexing of the same document does not reach its chunks, and a
  rebuild that overlaps an upload drops it from BM25 (`Conflict`);
* after a crash between a change and its increment, or a failed increment, the
  pickle from before the change is accepted and old cached answers stay reachable
  (`trust`, and `redisFaults = 0` in `StableHitsAreFresh`);
* after a redeployment with another vector dimension the rows are *pending* and
  nothing indexes them again, while BM25 may still answer from the old pickle;
* a question that found no version sets it to 1 after it may have been
  incremented; this needs a start-up without Redis (`ChatSetsVersionOne`);
* an upload extends the list that another coroutine's save is pickling: the file
  then holds a longer list than its BM25 object scores, and a restart that loads
  it serves a misaligned index until the next change (`suspect`);
* overlapping turns interleave in a conversation: the history window may cut a
  turn (`lone`); of overlapping gap counts an increment is lost (`CountsAreEarned`
  is an upper bound);
* two clicks that overlap both find no feedback and both add a row; every later
  rating of that answer then fails, because `scalar_one_or_none` finds two;
* when PyMuPDF raises after some pages, pdfplumber's pages are appended to them
  and the beginning of the file is indexed twice (`trouble`); when pdfplumber
  raises after some pages, a document without its end is reported as indexed;
* an error from Gemini that says both *rate* and *blocked* is refused by the
  fallback and then reported as a rate limit; "rate" is part of "generate";
* a question that Gemini blocks while rewriting it is still retrieved for,
  answered, cached and stored, if Gemini then answers it or fails in another way;
* a stage, also a failed one, is not shown when Redis fails at that moment
  (`spilled`);
* a crash in the middle of indexing leaves the document at *pending* or *indexing*
  for ever.

In the browser:

* `startNewChat`, or a deletion, during a cold load leaves `isLoading` set: the
  input stays disabled until another conversation is opened;
* a reply that is older than the turn stored meanwhile replaces the newer cached
  and displayed conversation (`overlapped`);
* the answer to the first question of a new chat clears what waits under the key
  of the new chat, also when that is a second question, and moves the user who
  has opened another new chat to the first one's conversation (`Alone`, and
  `key \in Convs` in `WaitingIsKept`);
* a failure the browser noted itself is lost when a poll replaces the progress;
* after a reload of the page the active conversation is selected and not loaded.

## 5. What is proved

For every value of the constants, with assumptions no stronger than the
modules' `ASSUME`s (the bounds are numbers, "nothing" values are not members of
the sets they complete, lines and tables have the shapes the code gives them,
see `IngestionProofs` below). The type invariant of every module is a theorem
(`TypeCorrect`), and the others rest on it.

`KnowledgeBaseProofs`

* `ChunksAlwaysHaveRow`: inductive with `TypeOK`. Only `ProcessUpsert` adds
  chunks, under the row the foreign key demands; only `DeleteRow` removes a row,
  and it cascades.
* `AcceptedPickle`: rests on `LabelsAreOld`, an invariant of its own: while no
  increment has failed, no label, on disk or carried by a coroutine about to save,
  is newer than the counter, and no question is about to set the counter to 1. An
  increment then makes every other label older than the current version, and the
  save that carries it writes the index of a moment at which no other change is
  unannounced, or leaves the property's premise false. Steps that touch none of
  this are `PickleFrame` steps.
* The next theorems share `Course`: the types, `ChunksHaveRow`, who can run beside
  whom (`StartUp`: while the server is not up, at most one start-up and no
  request), and that a document has one upload, which finds no chunks before its
  INSERT (`OneUpload`).
* `IndexedAlwaysHasChunks`: the property is not inductive, because the UPDATE to
  `indexed` does not look at the chunks. `InsertedHasChunks` says it of the steps
  before: from the INSERT on the chunks are there, or a deletion has taken them and
  is still to take the row.
* `RowsAlwaysAgree`: while rows are trusted no two coroutines at work `Conflict`
  (`NoConflicts`; `Undisturbing` says what that means for two of them). `RowsRight`
  then says at every step, not only at the end, who may disagree with a row: an
  upload between its INSERT and its UPDATE, a patch between row and chunks, a
  deletion that has begun; and what each of them relies on meanwhile.

* `IndexesAlwaysAgree`: `Good` is to BM25 what `RowsRight` is to the rows; every
  entry has its document's label unless a deletion or patch of it has changed
  pgvector and not yet the index, and so on. `Good` is not inductive by itself:
  a start-up has no index, and a rebuild replaces it by what was fetched some steps
  ago. `IndexRight` says that nobody changes documents then, so that the snapshot
  is still what pgvector holds when it becomes the index; `DiskRight` that a pickle
  labelled with the current version, while nothing is unannounced, is what a
  rebuild would give, which is why a start-up may take it. `LabelsAreOld` and
  `NoConflicts` are used by all three.

`IngestionProofs`

* `EveryChunkFits`: the invariant `IInv` adds to the types that the piece being
  filled keeps its running count within the budget or is one of the exceptions,
  and that the count and the true tokens differ by less than one per sentence
  (lemma `Rounding`). Every chunk is such a piece with its title in front
  (`PrefixedFits`), and the tokens of the two are at most one more than the sum of
  their tokens (`TitleInFront`).
* `SentencesStayInOrder`, over `InOrder` (positions rise through a section) and
  `PackInOrder`: every sentence of a chunk or of the piece being filled has been
  passed, the piece skips none, and each chunk of the section ends before it or
  with its first sentence. What an overlap repeats is therefore one sentence.
* `PiecesKeepTheHeader`, over `BlocksInOrder`: what is collected is a run of table
  lines that could not begin earlier (`RunAt`), so it is a whole block when it
  ends; a piece of it has the header and then rows that rise.
* `OnlySmallTextGoesMissing`, over `NothingLost`: every row and sentence passed is
  in a chunk, or in a dropped piece that is small and had no room, or in the piece
  being filled. That a piece had no room is shown where it is completed: a row
  that does not fit is the next line of the body (`NoRoomBehindRow`), a run that
  ends has no table line behind it (`NoRoomBehindRun`), and the sentence at hand
  is the first one behind the piece, because the piece continues the body without
  a gap (`NoRoomAtSentence`, with `PackInOrder`); it does not fit by the words
  either, as the running count is never ahead of them (`OverflowOfWords`).
* `TextStaysInItsSection` compares two outlines: that of the file, by page and
  line, and that of the parser, by its stack. `PagesInOrder`: the list has the
  file's pages in order, none with text left out, and tables only behind them;
  this needs that no extractor starts again behind pages already read
  (`~trouble`). `LinesInPlace` says the same of the merged lines. `SectionsInPlace`:
  the headings of the open sections are those that no later one has closed
  (`Outline`), but for those the heading at hand has popped so far, which it
  closes (`StackIsOutline`); so the path with which a section opens is the
  outline there, and the sections tile the lines (`Tiled`), so it still is at each
  of its lines. A line injected with a table has another table line beside it,
  and neither is a heading, so both are in one section and in a block, and no text
  chunk has them (`SentencesAreNotInjected`). This uses that a table found is
  written as lines between bars and that a blank line matches no heading pattern
  (`FilesAssumption`, `IngestionAssumption`).

`Bm25IndexProofs`

* `IndexStaysAligned`, `NoUploadMisleads`, `SearchesFailByOverlap` and
  `LoneSavesStayWhole` hold for any number of coroutines that change and save, and
  a crash anywhere. While a chunk is being added the index scores a beginning of
  the list, and all of it otherwise, unless it is `suspect` (`Aligned`). A save
  that is alone has captured an aligned list and nobody else is in a step that
  writes (`PickleIsWhole`), so its file, wherever it is, has one label and one list
  in both its parts. A file that is `alone` was written by no other save, because
  whoever opens the temporary file labels it anew and whoever writes to it without
  being alone takes the label away. So a restart finds an aligned index or an
  index that is `suspect`.
* The searches, over `SearchInv`: the change under way has overlapped every search
  that runs (`OverlapsAreRecorded`), and a search that only uploads overlapped has
  scored a beginning of the list it copies its hits from (`SearchIsRight`), so
  that a position means the same chunk in both.

`ChatServingProofs`

* `TurnsAreImplemented`: each step is a step of `AnsweredTurns` or leaves `turn`
  alone (`ContractStep`), given where a request whose turn is stored or whose
  client was told something can be (`Ordered`).
* `BlockedStayOut`: a request blocked in rewriting has left it for good, and one
  blocked in generation is failing or has failed (`Apart`), so no later step puts
  the prompt to the second model, caches or stores it.
* `WindowAlwaysKept`: `Apace` says what the dictionary remembers of the accepted
  requests: the last one's time, or nothing if that is two windows ago or before
  a restart.
* `ProgressAlwaysTrue`: `Reported` relates the entry of Redis to the step of its
  request, a failed one to the code with which it waits or has ended; a step of
  another request replaces the entry or leaves it.

`ChatStoreProofs`

* `PaneAlwaysRight`, `WaitingAlwaysKept`, `AnswersAlwaysStay`, over `BaseInv`
  (types, the course of a question, and that what the browser knows exists).
  The second adds that a deleted conversation has nothing waiting for ever
  (`KeptInv`); the third that a stored turn is in every reply that is served from
  then on and in everything cached from such a reply (`StayInv`), with
  `PaneIsRight` for the display.

`ResponseCacheProofs`

* `HitsAlwaysMatch`: entries, writers and hits carry the key they were made for.
* `FlushedStayAway`: an entry that survives a flush was written after the flush
  began; who is to write it, or reads it, began after that as well.
* `StableHitsAlwaysFresh`: while no call fails, a change is announced by a later
  version than those of all answers that did not see it and overlapped no
  increment; a reader's version is then too new for them.

`ConversationsProofs`

* `TurnsAreStoredWhole`: the strengthening `TurnInv` adds that a turn which holds
  the row of its conversation finds it at its commit (`HeldConversationsStay`),
  because a deletion waits for it; and that an uncommitted conversation belongs to
  one turn (`OpenConversationsArePrivate`), so that no other's rollback removes it.
* `SecondRatingsNeverAdd`: a rating that began late finds a row at its check or
  its answer is gone for good (`RatingInv`).
* `SnapshotsNeverChange`: by cases on the step.
* `LoneHistoriesStayWhole` and `LoneAnswersKeepTheirQuestion`, over `LoneInv`: the
  messages have distinct times, and nothing is stored between the question and the
  answer of a turn that no other overlapped, because whoever would store it runs at
  the same time. A history of such turns is therefore a row of pairs; a window of
  whole turns (`HistoryAssumption`: the limit is even, 10 in the code) cuts none of
  them. The last question before such an answer is its own, and a rating that is
  still to insert it has it, or the answer is gone (`SnapshotIsRight`).

`KnowledgeGapsProofs`

* `CountsAlwaysEarned`: what a task has read is earned as well (`ReadsAreEarned`),
  so what it writes back is not more than was recorded; the cardinality of the
  recording tasks grows by one with each commit.
* `TasksAreImplemented`: step by step, `ChatServing` implements `KnowledgeGaps`;
  `ServedCountsEarned` carries the counts over to the tasks of its requests.

`ChatStoreProofs` also has `TypeCorrect`, which includes that the order of the
cache names every cached conversation once and is never longer than the cache.

Only model-checked: liveness (outside the prover's reach, as is `ENABLED`). Every
safety property of the passing runs is also a theorem.

## 6. Plan

Done: all modules of section 2 and their proofs. What is left, in this order:

1. An abstract knowledge base (a set of searchable documents) that
   `KnowledgeBase` with one coroutine implements.
2. The stages that went to the process's memory and the expiry of those in Redis,
   composed with the browser's polling.
3. Pure operators over bounded inputs: reciprocal rank fusion with
   de-duplication, the normalisation of cache keys.

## 7. Not modelled

* Rewriting, ranking, fusion, prompts and their truncation for the second model,
  tokenising, the embedder, and the models: sequential computations on numbers
  and text, or external. They appear as steps that may fail.
* Of progress: the expiry of entries and what is read from the process's memory.
  An entry that expired is an absent one to the browser (`Progress`).
* The counters of slowapi: a library in front of every route.
* Migrations that only add columns and indexes.
* Session tokens and the admin cookie: stateless checks. Every operation here is
  one that passed them. Presigned URLs likewise.
* Analytics, visits, listings: inserts and reads nobody else depends on. The
  commit a turn waits for is in `Conversations` and `ChatServing`.
* React components, styles, schemas, configuration, deployment files; of the chat
  store what the section on `ChatStore` lists.

## 8. Running

    tlc -config KB_concurrent.cfg MCKnowledgeBase.tla
    tlapm KnowledgeBaseProofs.tla

Each `.cfg` is named after its run; `PROJECT.json` says which module it belongs
to. The longest run takes a few minutes.
