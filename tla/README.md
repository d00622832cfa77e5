# supermemory-rs: specification and verification

supermemory-rs is a local memory server: clients submit documents over HTTP, a
durable pipeline cuts them into searchable chunks, embeds them, asks a language
model for the memories in them, and reconciles those memories into a graph that
search and profiles read. This directory models that program in TLA+, checks
the models with TLC and proves theorems about them with TLAPS.

All paths below are relative to the repository (`src/` in `PROJECT.json`).

## 1. Inventory

| Component | Where | State it keeps | Operations | What makes it correct |
| --- | --- | --- | --- | --- |
| Documents and jobs | `crates/storage/src/{lib,documents,document_jobs,memory_jobs}.rs` | SQLite tables `documents`, `jobs`, `document_chunks` | upsert, delete, claim, stage, publish, fail, cache, complete, retry, recovery in `initialize` | one job to do per document; status and job agree; only current content is published; nothing accepted is lost |
| Indexing coordinator | `crates/server/src/indexing_coordinator.rs` | a cohort of up to four claimed jobs, a notification permit | claim a cohort, process it, wait for notification or rescan, stop when degraded | no queued job is forgotten; a claimed job is finished or failed |
| Memory coordinator | `crates/server/src/memory_extraction_coordinator.rs` | tasks in flight, an adaptive concurrency limit | claim, extract, cache, embed, reconcile, complete, retry | bounded concurrency and attempts; a cached answer is used for its own body only |
| Storage writer, readers | `crates/server/src/{writer,runtime}.rs` | a bounded command queue; a pool of connections and permits | execute, notify | one write at a time; a permit always has a connection or the writer behind it |
| Service health | `crates/server/src/{health,lib}.rs` | healthy or degraded | degrade, recover, the health probe | a degraded service stops its coordinators |
| Embedding executor | `crates/memory-engine/src/embedding_executor.rs` | two bounded queues, a burst counter, one deferred request | embed, submit, run | batches keep their limits; no request is lost or answered with another's vectors; neither queue starves |
| Provider | `crates/memory-engine/src/provider.rs` | none | one request, normalisation of candidates | relations only to known memories |
| Chunking | `crates/memory-engine/src/chunking.rs` | none | chunk_text | chunks cover the text, bounded size |
| Memory graph | `crates/storage/src/memories.rs` | tables `memories`, `memory_relations`, `memory_sources`, `memory_embeddings` | reconcile, forget, profiles | lineages, one latest version per fact, forgotten facts stay out of search |
| Search | `crates/storage/src/search.rs`, `crates/server/src/{search_engine,search_projection}.rs` | none | candidates, fusion, diversity, projection | ranks are a function of the candidates; budgets hold |
| HTTP surface | `crates/server/src/{lib,auth,ui}.rs`, `routes/` | none | validation, routing, authentication | not stateful |
| Start-up | `crates/supermemory/src/*.rs`, `crates/storage/src/{legacy,connection,migrations}.rs` | configuration, credentials, API key files, legacy import markers | start, legacy export and import, credential storage | an import happens once; files are replaced atomically |

How they interact. Every write is a closure sent to the one task that owns the
connection (`writer.rs`); a storage call is therefore one atomic transaction,
and what interleaves is the sequence of calls each task makes. The two
coordinators claim jobs from the tables, work outside any transaction (cutting,
embedding, provider calls) and come back with a claim that names a job, a
document and the revision they read. A submission may have replaced the
document meanwhile, another task may have failed, or the process may have been
restarted, which moves every job in a stage back to the queue.

What is hard: a revision that changes while a task works on the old one; tasks
that are dropped with a claim in hand; crashes between claim, provider answer,
reconciliation and completion; retries with a bounded number of attempts;
notifications that are lost; priorities between queries and bulk work.

## 2. Plan

The durable queue decides what clients lose or get twice, so it came first; what
schedules work around it second; what is computed from the results last.

| Step | Modules | Abstract specification | State |
| --- | --- | --- | --- |
| 1 | `JobQueue`, `DocumentLifecycle`, `JobQueueRefinement`, proofs of both | `DocumentLifecycle`: a document is prepared, searchable, remembered, ready | done, refinement proved |
| 2 | `Microbatch`, `MicrobatchLoop`, `EmbeddingExecutor`, proofs of both | answers in caller order, stated as invariants | done |
| 3 | `IndexingCoordinator` with notifications and health, proofs | none: the promises are about scheduling | done |
| 4 | `MemoryCoordinator`: tasks in flight, adaptive concurrency, the steps of a task, proofs | capacity between one and the maximum | done |
| 5 | `StorageReaders`, and `Search`, which reads through it while the writer publishes, proofs of both | a counting semaphore over connections (`PoolIsWhole`) | done |
| 6 | `MemoryGraph`: extraction context, reconciliation, supersession, forgetting, expiry, proofs | a set of facts with one current memory each | done |
| 7 | `Chunking`, with the microbatches in `MCText`; that chunks fit and cover the text, proved | chunks that fit and, without overlaps, are the text | done |
| 8 | `Startup`: credentials, configuration, legacy import, crashes between steps, proofs | an import is recorded only when it is complete | done |
| 9 | `FoldLemmas`: induction over data, for the proofs of steps 2, 5 and 7 | none | done |

## 3. Modules and the code

### JobQueue

State: `documents` and `jobs` are the two tables, as sequences whose indices
are the rows' ids (`jobs` is claimed oldest first, which is index order);
`indexers` and `extractors` are the `ClaimedJob`s and `ClaimedMemoryJob`s that
tasks hold; `restarts` counts process starts. A document keeps the body its
chunks were cut from (`chunks`) and the body the last completed extraction read
(`extracted`) instead of chunks and memories; a job keeps the body its cached
provider answer came from (`cached`).

Each storage call is one action of the same name (`upsert_document_for` is
`InsertNew` and `Resubmit`, `initialize` is `Restart`); both outcomes of a
call's precondition are part of the action. `MayAdvance` and `MayPublish` say
which call `IndexingCoordinator::process` makes next. `AbortIndexer` and
`AbortExtractor` are the ways a task that holds a claim ends without a call that
settles its job: it is dropped with its round, or an error of a storage call, the
reader or the cached answer ends it. `NoCallForgetsItsJob` is about all other
ends, the reported failures among them. `TasksAbort = FALSE` excludes the two.

`DeleteDocument` is a storage operation with tests but no route yet. It is
included because every task has code for it.

### DocumentLifecycle, JobQueueRefinement

What a client can rely on: per document the accepted body, a phase, and the
bodies search and memories were made from. `JobQueueRefinement` maps a row and
its document job to a phase; claims, stages, retries, aborts and restarts are
stuttering steps.

### Microbatch, MicrobatchLoop

`Microbatch` holds the step of `microbatch_lengths` over one text.
`MicrobatchLoop` runs it text by text, with the texts read and, as history, the
positions where batches begin, so that the result is described at every point.
`EmbeddingExecutor` folds the same step over a whole job.

### EmbeddingExecutor

`calls` is each caller's progress in `embed_owned`; `queue` the two channels;
`deferred`, `batch`, `burst`, `serving`, `phase` the local variables of `run`.
`burst` stops at `QueryBurst`, above which the code does not distinguish
values. The merge loop is one action per `try_recv`, because senders get in
between. The three `try_recv`s of the selection are one action: a request that
arrives between two of them is one that arrives after all of them. Texts and
vectors are represented by caller and place; a request carries its texts, so
that a wrong count hands out somebody else's.

### IndexingCoordinator

`loop` is the position in `run` and `process_available`, `cohort` the jobs
claimed so far in a round, `tasks` the `JoinSet`, `permit` the one stored
permit of `Notify`, `uploads` the HTTP tasks between commit and notification,
`degraded` the `ServiceHealth`. Jobs are queued, claimed or settled; `JobQueue`
has the detail. `ProcessFails` distinguishes an error after `fail_job`, one that
leaves the job as it is, and a fatal one.

### MemoryCoordinator

`loop` is the position in `run`, `capacity` its `concurrency`, `steps` what each
task in the `JoinSet` is doing, `results` the tasks that have ended and were not
joined (they still count as in flight). `jobs`, `attempts` and `cached` are the
columns of the memory jobs; a delayed job is one whose `available_at` lies ahead.
`lost` remembers the jobs whose task ended without a call that settles or
requeues them. A storage call of a task succeeds, finds its revision replaced,
or fails; `JobQueue` has its effect on the tables, `MemoryGraph` that on the
memories. `HasDelay` is the classification of provider errors.

### StorageReaders, Search

`StorageReaders` is the pool of `runtime.rs`: connections, the semaphore's
permits, the fall-back to the writer, panics on either side, callers that leave
with their command still in the writer's channel (`abandoned`) or running there.
`Search` EXTENDS it with one search among other readers. `chunks` is the table
with rowids that are given out again and stable ids that are not; `found` has
the ranking of each statement, `selected` what fusion and diversity leave,
`hydrated` the rows the second read finds, `answer` what the budget admits. A
read is no transaction, so each statement (`Rank`, `HydrateMemories`,
`HydrateChunks`) is a step, and the writer's steps get in between. A ranking is
any sequence of candidates: scores, filters and thresholds are not computed.
`EvidenceUnit` is a common multiple of the denominators 61, 62, ..., so that sums
of reciprocal ranks are exact; the code's `f64` sums differ from these only where
two candidates with equal evidence of different ranks are told apart.

### MemoryGraph

A row of `memories` also carries its sources and whether its embedding is
active. `exact` and `learned` are the maps `exact_memories` and `temporary_ids`
of an open reconciliation, which is modelled one proposal at a time because the
maps are not refreshed while the proposals supersede rows; `tx` keeps everything
else out until `Commit`. `extractions` says which answers are waiting. Proposals
name any row of the container (`resolve_memory_parents` looks up whatever it is
given, shown to the provider or not) or an earlier one of their answer, each in
any relation, one row also under two names. Derived memories differ from
extended ones in one flag and are not told apart. `Profiles` is the query with
its `LIMIT` and `deduplicate_memories` with its own, for any order of the rows;
`Wordless` is what normalisation leaves of a text without letters and digits,
which is stored and found but shown in no profile. Memories an import brings in
are not in the model.

### Chunking

Pure functions over sections, sentences and words of given widths, in the
structure of `chunking.rs` and under its names. How characters make words and
sentences is abstracted, and white space that trimming removes. A word that is
too long becomes numbered parts (`Parts`), so that no two of them look alike: a
text that is `Divided` that way is what the chunks are compared with.

### Startup

One action per step of `start` that reads or writes a file or the database;
`Stop` between any two of them. Files are `None` or what they hold; an API key
is a number, a snapshot of the old server the set of documents in it, and a
chunk the text it comes from. `intent`, `calm`, `home` and `promised` are
history: what users did and what one serving had. One process runs at a time.

### MC modules

`MCJobQueue`, `MCEmbeddingExecutor`, `MCMemoryGraph`, `MCSearch` and `MCStartup`
hold sets and functions for the constants. `MCText` instantiates
`MicrobatchLoop` and reads each of its inputs as a text to chunk, too.

## 4. Runs

| Run | Instance | What it shows |
| --- | --- | --- |
| `job_queue` | 1 document, bodies `a`, `b`, blank; 3 revisions; 2 attempts; 2 restarts; all three server modes | the queue's safety properties, the care every call takes of its job, and the refinement of `DocumentLifecycle` |
| `every_submission_settles` | 1 document, 2 revisions, 2 restarts, no dropped tasks | every accepted body is finished, failed or deleted |
| `microbatches` | jobs of up to 6 texts of 5 lengths, 3 items, 8 padded tokens; the same as texts of up to 6 words, all ways to end sentences and sections, limit 6, overlap 3 | requests fit and are no smaller than needed; chunks fit, lose nothing and repeat no more than the overlap |
| `embedding_requests` | a search, a document and a memory task, each with a request that merges and one that does not; channels of two places; dropped callers | everybody gets the vectors of its own texts, and none is overtaken in its class |
| `embedding_turns` | two searches, a document, a memory task, endless calls that merge | both classes are served |
| `embedding_bulk_stream` | a search, two documents, calls that do not merge | the search waits for ever |
| `indexing_rounds` | 3 documents, rounds of 2, every failure, 1 restart | rounds own what they hold; nothing queued is forgotten |
| `stranded_jobs` | 2 documents, rounds of 2 | a sibling's error strands a job |
| `memory_graph` | 2 documents, 3 texts of 2 facts (one permanent, one temporary) and one without words, 1 parent, 3 memories; profile queries of 2 rows, profiles of 1 | facts stay unique, lineages are trees, search and profiles agree but for texts without words and full profiles |
| `memory_extraction` | 2 jobs, capacity 2, 2 attempts, 1 restart, every failure | capacity is bounded and returns, jobs are claimed and settled |
| `search` | a search and a context read over 1 connection and the writer; 2 panics; 1 command left behind; a document of 2 chunks, one still to be published, 1 publication; 1 memory; `/v4` with aggregate over memories and chunks, `/v4` with both chunk rankings, `/v3` | an answer quotes what was ranked, best evidence first, and comes to an end |
| `startup` | 2 old documents in 3 snapshots, 2 documents of the user's own, 2 providers, any number of starts | imports are complete; edits, settings and local documents are kept |

Why the bounds are enough. The tables have no property across documents except
claims, which are proved for every number of them. Three revisions let a task be
two revisions late, and let a resubmission follow one; a longer delay meets the
same comparisons. Two restarts let recovery work on what recovery left. Two
attempts reach every branch of the retry, four are the code's value. For the
executor, three callers are the fewest with two bulk requests to merge or hold
apart and a query beside them; channels of two places let a request be
overtaken, and the requests of dropped callers fill them, so that senders wait.
For the indexing coordinator three jobs are one more than a round takes, so a
job is left queued behind a full round. For the memory coordinator two jobs fill
the capacity, and a rate limit takes it to one with two tasks running. Three
memories give a lineage of three versions, or a fact, its successor and a rival
from the other document; two texts of one fact tell wording from meaning. One
parent keeps the run small; several, and one row named twice, are covered by the
proofs, which hold for any `MaxParents`. A profile of one memory is full with a
second one left over, and a query of two rows is cut off by the third. One
connection is the smallest pool that a panic can empty; two panics then also end
the writer. One publication replaces every chunk, and rowids come back at once,
or it brings in the second document, whose chunk competes with two of the first.
Three snapshots bring a document in, another beside it, and take the first one
away; no number of starts is bounded. Six words are enough for a chunk with an
overlap behind a chunk with one, cut at the limit, one below and one above it.

Fairness. `JobQueue!FairSpec`: both coordinators keep claiming and their tasks
keep running (they are spawned tasks that await I/O with timeouts or other
tasks), and delays end. It is used with `TasksAbort = FALSE`: a dropped task's
job waits for a restart, which nobody owes (`stranded_jobs`). Deletion,
submission and restarts are not fair. `EmbeddingExecutor!FairSpec`: the
executor's task runs; a channel admits its senders in turn (strong fairness of
`Submit`, tokio's channels queue their senders). Callers may start calls for
ever, and none has to. `IndexingCoordinator!FairSpec`: the loop, the tasks and
the HTTP tasks that are not dropped run; claims are strongly fair because
`claim_job` takes the oldest job and a storage error that is not fatal (a busy
database) does not return for ever. `MemoryCoordinator!FairSpec`: the loop and
each task run, delays pass; claims are strongly fair for the same reason, and
joins because `select!` chooses among its ready branches at random.
`Search!FairSpec`: operations come to an end, and semaphore and channel serve
their waiters in turn (strong fairness of getting a permit and of being taken by
the writer); that a read whose statements have run returns is weak fairness with
the guard written out, so that TLC need not compute an answer to know it.
The writer's task also comes to the end of a command nobody waits for. Panics,
publications and other readers owe nothing. No liveness is
claimed for `Startup`, where a crash may leave a key file only the user can
remove, nor for `MemoryGraph`.

Deadlock is checked for the executor, the indexing coordinator and start-up. The
other models end when a run's bounds are used up, or may be left with a
coordinator that has stopped for good.

### Further configurations

Kept for use by hand (`tlc -config X.cfg M`), with what they end in:

| Configuration | Module | Result |
| --- | --- | --- |
| `JobQueueTwoDocuments` | `MCJobQueue` | passes: claims and the retry budget with two documents and the code's four attempts |
| `IndexingCoordinatorNotified` | `IndexingCoordinator` | passes: without failures and without the rescan, permits lose no upload |
| `EmbeddingExecutorOrder` | `MCEmbeddingExecutor` | passes: `TypeOK`; batches do not mix classes |
| `JobQueueDeclaredLifecycle` | `MCJobQueue` | violates `FollowsDeclaredLifecycle`, see section 6 |
| `IndexingCoordinatorHealth` | `IndexingCoordinator` | violates `FatalDegradationIsSticky`, see section 6 |
| `MemoryGraphForgetting` | `MCMemoryGraph` | violates `ForgettingRemovesFromProfile`, see section 6 |
| `SearchBudget` | `MCSearch` | violates `OptionalFieldsGoFirst`, see section 6 |
| `SearchDiversity` | `MCSearch` | violates `OtherDocumentsFirst`, see section 6 |

## 5. Proofs

Every theorem holds for all values of the constants that the named `ASSUME`s
allow; nothing else is assumed. The bounds of the runs (`MaxDocuments`,
`MaxRevision`, `MaxMemories`, ...) are constants in the theorems, too, so no
result depends on their size.

**The queue** (`JobQueueProofs`). `IInv`, the type invariant and
`QueueInv`, is inductive; from it follow `TypeCorrect`, `AtMostOneActiveJob`,
`ActiveJobIsCurrent`, `StatusMatchesActiveJob` and `NoDoubleClaim`. The tables
are considered one document at a time, since every step changes the rows of one
document only, except a restart, which changes all of them alike. `QueueInv`
adds to the properties what a step needs to keep them:

* `ClaimsMatchJobs`: a task's claim still names its job, and the job is where
  the task left it unless it was failed or deleted; otherwise a late call could
  move a finished job.
* `JobsBelongToDocuments`: deleting a document deletes its jobs; otherwise a
  task could revive the job of a deleted row.
* `NoJobAheadOfDocument`: without it a resubmission could make an old job of a
  revision not yet reached look current, and `ActiveJobIsCurrent` would not
  follow from itself.

`TaskInv` adds that a queued job has an attempt left and that a memory task
counts the attempt its row counts. It yields `RetryBudget` and the action
property `NoCallForgetsItsJob`: in whatever state a task makes the call that ends it, the
job is finished, queued again or failed by that call or was so before
(`CallsSettleTheirJobs`). The third case of `RetryMemoryJob`, a current revision
whose job is not "extracting", would forget a job; `ClaimsMatchJobs` shows that
it never applies.

**Freshness and refinement** (`JobQueueProofs`). `FullInv` adds to `IInv`
what the bodies in rows and claims are worth: a claim has the body of its
revision and a result made from it (`Knows`), a stored answer is for the current
body, memories are only looked for in a body that is searchable, and no memory
job exists for a revision that still has its document job to do (`FreshAt`).
The last part is what makes a publication safe: without it "done" could be set
on a document whose memory job for that revision has extracted nothing. Most steps are `Quiet`: they change
statuses, at most one of them visibly. Five are not (a new document, a
resubmission, a publication, a stored answer, a finished extraction), and each
has a lemma. From `NextSound` follow `DoneMeansFresh`,
`CachedExtractionIsFresh`, the action properties `PublishesCurrentContent` and
`SettledUntilResubmitted`, `SearchIsCurrent` for the mapped view, and
`ImplementsLifecycle`: each step is the step of `DocumentLifecycle` of the same
name, or invisible. That the cases of `Phase` exclude one another rests on
`StatusMatchesActiveJob`.

**Induction over data** (`FoldLemmas`). The induction theorems of the library
take an operator, which the installed provers cannot instantiate. Here the
principle is about a set (`Numbers`, `UpTo`: a set that holds zero and the
successor of each of its numbers holds them all), and the step of a fold is a
constant operator of the module, so that each fold of a model is an INSTANCE of
it. `FoldVisits` gives the values a fold goes through, `FoldAppend`, `FoldKeeps`
and `FoldAgrees` what one element more, an invariant of the step or another step
do to it, and `GrowthKeepsOrder` what a fold that takes some elements and leaves
others makes: a subsequence, each element at the place where it was taken.
`Folded` is what `FoldLeft` of the community modules comes to by its definition
there; each proof begins with that equation (`CutOfFolds`, `WidthsFold` and the
like). By the same induction, `FlattenSlice` says where a part of a flattened
sequence is found, and `Sequencing`, the induction over sequences that grow by
an element, that two lots are flattened one after the other (`FlattenConcat`,
all in `EmbeddingProofs`). `FoldLemmas` extends as little as it needs, because
every INSTANCE of it brings that along into each obligation.

**Microbatches** (`EmbeddingProofs`). `Contiguous`, `RequestsFit`,
`RejectsOnlyOversized` and `CutsAreNeeded` for every job and all limits.
`LoopInv` says what the loop has done after each text: the closed batches cover
the texts before the open one, each fits, and each was closed because the next
text did not fit. An empty batch has no length yet, and no batch begins after
the texts read. `CutOf` is the same loop as a fold, so the plan of a call has
what the loop has.

**Chunks** (`EmbeddingProofs`). No chunk is empty or larger than the limit,
whatever the widths of words and however many sentences and sections there are
(`PlainChunksFit`, `MarkdownChunksFit`, and `ChunksFit` for the texts of the
run). The state of a loop is a sequence of chunks that fit and what is pending,
which fits too (`Chopped`, `Sectioned`); each way of closing, joining, splitting
or heading a chunk keeps that (`FlushFits`, `TakeUnitFits`, `SplitSentenceFits`,
`WithHeadingFits`, `TakeSectionFits`), and the folds keep it by `FoldVisits`. The
only assumption is that the limit is not zero.

And the chunks of a plain text are that text (`PlainChunksCover`, and
`ChunksCoverTheText` for the texts of the run), for any sentences and words:
each is a slice of it, they come in its order without a gap, and what one repeats
of the one before is within the overlap's budget. `Chops` is the invariant of the
loop of `chunk_units`: without pending units the chunks cover what has been read;
with them they cover it up to a place `p`, and the pending units are the slice
from `f` on, where `f` is next to `p` or before it. In the second case the
pending units repeat the end of the last chunk, and `Open` must also know that
they do not fit behind it: a short chunk that overlaps the one before and was
joined to it would say the same words twice within one chunk. The overlap is
kept only where the next unit did not fit, which is what establishes that
(`TakeUnitCovers`), and `FlushCovers` needs it. What is kept is the end of the last
chunk (`RetainedIsTail`). `CoversConcat`, `CoversAppend` and `CoversExtend` put stretches
together. A sentence that is too long is the same loop over its words
(`SplitSentenceCovers`), and a word its parts (`FixedWidthCovers`), which differ in
their number and add up to it (`DividedIsDistinct`, `PartsAddUp`). Chunks of
Markdown sections repeat headings by design and are not compared with the text.

**Executor** (`EmbeddingProofs`). `ExecutorInv` is inductive for any callers,
jobs, queue lengths and limits. A call is described by how far it has come: its
answers are the beginning of its texts, and its plan cuts the rest into requests
that each fit (`CallOf`). A line holds requests of its own class only
(`RequestsOfClass`), so a caller occurs in one line at most; one request at most
is deferred, and none while a batch is being filled (`OneDeferred`), because a
second one would be lost. `WaitsOnce` ties the two ends together: a caller waits
exactly while one request in line, batch or deferred place carries it, with the
texts it asked for. `BatchFits` needs that every request fits by itself, since
one that was measured against another batch begins the next one unmeasured. From
it follow `ClassesStayApart`, `WaitsForOneRequest` and `AnswersInCallerOrder`, and
the action property `LinesKeepOrder`: batch, deferred request and queue of a class,
laid end to end, lose requests only at their front, by an inference, and grow
only at their end (`SelectKeepsOrder`, `MergeKeepsOrder`, `SubmitKeepsOrder`,
`CancelKeepsOrder`). It needs `OneDeferred`: a request put back while another is
deferred would come before or replace it.

**Coordinators.** `IndexingCoordinatorProofs`: `HeldJobsAreClaimed` for any set
of jobs and any concurrency (between rounds nothing is held; what is held is
finite). `MemoryCoordinatorProofs`: `TasksOwnTheirJobs` with the types is
inductive as it stands, for any maximum, with the capacity halved and restored
in any order.

**Read pool** (`SearchProofs`). `PoolInv` joins `PoolIsWhole` and
`ReadsSpareTheWriter`: the second needs the count of what panics took, the first
needs none of the search. It is proved of the pool alone, of the steps of clients and
of those of the writer's task with commands left behind, and carried over to the
search that uses it.

**Search** (`SearchProofs`). `SearchInv` is about identity: in the tables a
stable id stands for one text of one document (`IdIsText`), and so it does for
every candidate that was found (`Cited`) and every row that was read
(`Hydrated`), even when the chunk has gone since, because ids are counted up and
kept only by a chunk that says the same at the same place. The keyed lookup then
makes `QuotesWhatWasRanked`, though rowids come back. `Arranged` adds that what
was selected is a function of what was found and the answer one of what was
read. The rest is about those functions: `Better` is a total order on fused
candidates (`BetterOrders`), so each has one rank and `Ordered` lists them by it
(`OrderedSorts`); selection, hydration and budget are folds that keep the order
and leave out what they must (`SelectsTheBest`, `HydratesInOrder`,
`FitsInOrder`). Composed they give `BestEvidenceFirst`, for all lists, limits
and budgets. That memories are compared by number, that there are finitely many
documents and that evidence is counted in a unit every rank divides is assumed by
name (`SearchAssumption`).

**Memory graph** (`MemoryGraphProofs`). `GraphInv` is proved for any documents,
texts and proposals. Beside `OneMemoryPerFact`, `NothingVanishes`,
`LineageIsSound` and `AnswersAreKept` it needs `LatestIsActive` (only memories
that are both can be superseded), `ExactIsSound` (what the map of an open
reconciliation is worth after its own proposals have superseded rows it lists)
and `NothingLearnedBefore` (the map of an answer's own memories is empty while
none is open). `SearchAndProfileAgree` follows: since a fact has one current
memory, deduplication finds nothing to drop, and a memory left out that has words
was left out by a limit; as `ProfileLimit` is below `RowLimit`, its profile is
then full (`ProfileShowsAll`).

**Start-up** (`StartupProofs`). `Basis`, the types and `ImportOrder` (how far an
import has come, and that it exports the snapshot it looked at or a later one),
carries one invariant per property: `SettingsInv`, `ImportInv`, `EditsInv` and
`ReachInv`. They say what holds between the steps of a start, where a crash may
come.

Only model-checked:

* liveness (`EverySubmissionSettles`, the `…Answered` properties,
  `QueuedJobIsClaimed` and the other `~>` properties of section 4), because
  liveness under fairness is beyond the prover.

Every invariant and every action property of section 4 is stated by a theorem.

## 6. Where the code disagrees

* **Bulk work starves queries** (`embedding_bulk_stream`). `run` serves the
  deferred request before it looks at any queue. Two documents whose
  microbatches do not fit one batch together, such as two full ones, take turns
  in being deferred, and a search waits until one of them is finished. The same
  holds the other way round for queries too long to be merged, whatever the
  burst counter says.
* **A failed document strands its round** (`stranded_jobs`). The first error
  returned by `process_available` drops the `JoinSet`. The other tasks are
  aborted with their jobs in a stage, which only a new process takes back; until
  then uploads of these documents are ignored.

Further configurations show smaller ones:

* **Health recovers, the coordinators do not** (`IndexingCoordinatorHealth`). The
  probe clears a degradation although a coordinator has stopped for good.
* **The declared lifecycle is not the one used** (`JobQueueDeclaredLifecycle`).
  `DocumentState::transition` is consulted by no storage call, and resubmission
  leaves its edges.
* **A forgotten text may still be in the profile** (`MemoryGraphForgetting`). A
  text names the oldest row with these words that was not forgotten, and that may
  be a version superseded long ago; the current one stays.
* **A result is rejected without the fields it could do without**
  (`SearchBudget`). Optional fields are left out of a result larger than what
  remains of the budget, not of one larger than half of the budget, which is the
  other reason to reject it.
* **Chunks of one document may fill an answer** (`SearchDiversity`). The comment
  in `select_diverse` (`crates/server/src/search_engine.rs:551-553`) says of
  chunks of a represented document that "normal search admits them only after
  other documents are covered". Its loop skips them for `aggregate` and otherwise
  takes candidates by their evidence alone, so that an answer of two may hold two
  chunks of one document while another document was found. `BestEvidenceFirst`
  allows both readings.

A job whose extraction task ends by an error of the reader, the cached answer or
the retry itself stays claimed as well until the next start (`AbortExtractor` in
`JobQueue`, `lost` in `MemoryCoordinator`): the second finding in the other
coordinator, for which there is no run of its own.

Not stated anywhere, so no property, but visible in the models: a submission
while its document is being indexed is answered and dropped (`Resubmit` is not
enabled); a document imported in a stage has no job to finish it; documents
submitted in the very run whose start moved the slug `local` to the imported
organization are not found after the next start; while the local organization
holds documents, an import that brings the slug `local` fails at every start; a
snapshot the old server changes brings back documents deleted since, and chunks
of an old text beyond the end of the new one.

## 7. Not modelled

Numeric inference, the language model's text, HTTP parsing, authentication,
terminal output and the user interface have no state whose order matters.
Cryptography of the credential store, scores and thresholds of search, profile
buckets, and the recognition of Markdown and sentences are data that no modelled
decision depends on. Metadata of a resubmission, organizations and tags are
abstracted in the queue: they select rows and change none of the states there.
The bounded channel of the writer is represented by the atomicity of a storage
call. The document threshold of `/v3` is any cut through its documents, which come
in the order of their scores. Imported spaces, memories and keys follow the same `INSERT OR IGNORE` as
documents and are not told apart in `Startup`; two processes on one data
directory are outside every model.
