------------------------------- MODULE JobQueue -------------------------------
(***************************************************************************)
(* The durable pipeline of supermemory-rs: the `documents` and `jobs`      *)
(* tables, every transaction of crates/storage that changes them, and the  *)
(* calls the two coordinators of crates/server make with a claim in hand.  *)
(*                                                                         *)
(* One task owns the database connection (server/src/writer.rs), so a      *)
(* storage call is one atomic step; the coordinators' tasks interleave     *)
(* between calls.  A task is known here by the claim it holds: a ClaimedJob*)
(* in `indexers`, a ClaimedMemoryJob in `extractors`.                      *)
(*                                                                         *)
(* Rows are never reused: `documents` and `jobs` are sequences in insertion*)
(* order, an index is a row's id, and a deleted row keeps its place with   *)
(* status "deleted".                                                       *)
(***************************************************************************)
EXTENDS Naturals, Sequences

CONSTANTS
    Contents,       \* document bodies, told apart by their hash
    BlankContents,  \* the bodies chunk_text cuts into no chunk at all
    CustomIds,      \* (custom_id, container_tags) pairs clients use
    NoId,           \* no custom_id given
    NoContent,      \* nothing published, nothing extracted
    Modes,          \* what the server publishes: chunks, vectors, memories
    MaxAttempts,    \* MAX_ATTEMPTS of retry_memory_job
    TasksAbort,     \* may a coordinator drop a task that holds a claim?
    MaxDocuments,   \* bounds of a run: rows, revisions per row, restarts
    MaxRevision,
    MaxRestarts

ASSUME ConstantsAssumption ==
    /\ BlankContents \subseteq Contents
    /\ NoContent \notin Contents
    /\ NoId \notin CustomIds
    /\ Modes \subseteq {"text", "vectors", "memories"}
    /\ MaxAttempts \in Nat \ {0}
    /\ TasksAbort \in BOOLEAN
    /\ {MaxDocuments, MaxRevision, MaxRestarts} \subseteq Nat

VARIABLES
    documents,   \* the documents table
    jobs,        \* the jobs table
    indexers,    \* claims held by tasks of the indexing coordinator
    extractors,  \* claims held by tasks of the memory coordinator
    restarts     \* how often the process has been restarted

vars == <<documents, jobs, indexers, extractors, restarts>>

-----------------------------------------------------------------------------
Stages == {"extracting", "chunking", "embedding", "indexing"}
ActiveStates == Stages \cup {"queued"}
JobStates == ActiveStates \cup {"done", "failed", "deleted"}

Published == Contents \cup {NoContent}

\* `chunks` and `extracted` name the body the searchable chunks were cut from
\* and the body the last finished memory extraction has read.
Document == [customId: CustomIds \cup {NoId}, content: Contents,
             status: JobStates, revision: Nat,
             chunks: Published, extracted: Published]

\* `delayed` stands for available_at in the future, `cached` for the body the
\* stored extraction_result was made from.
Job == [document: Nat \ {0}, kind: {"document", "memory"}, status: JobStates,
        revision: Nat, attempts: Nat, delayed: BOOLEAN, cached: Published]

\* A ClaimedJob, with the stage its task has reached.
Indexer == [job: Nat \ {0}, document: Nat \ {0}, revision: Nat,
            content: Contents, stage: Stages]

\* A ClaimedMemoryJob; `result` is the body its candidates came from, once it
\* has any, and `superseded` is set when reconciliation met a newer revision.
Extractor == [job: Nat \ {0}, document: Nat \ {0}, revision: Nat,
              content: Contents, attempts: Nat, result: Published,
              superseded: BOOLEAN]

TypeOK ==
    /\ documents \in Seq(Document)
    /\ jobs \in Seq(Job)
    /\ indexers \in SUBSET Indexer
    /\ extractors \in SUBSET Extractor
    /\ restarts \in Nat

-----------------------------------------------------------------------------
Live(d) == d \in DOMAIN documents /\ documents[d].status # "deleted"
Current(c) == Live(c.document) /\ documents[c.document].revision = c.revision
IsActive(j) == jobs[j].status \in ActiveStates

NewDocument(id, body) ==
    [customId |-> id, content |-> body, status |-> "queued", revision |-> 1,
     chunks |-> NoContent, extracted |-> NoContent]

NewJob(d, kind, revision) ==
    [document |-> d, kind |-> kind, status |-> "queued", revision |-> revision,
     attempts |-> 0, delayed |-> FALSE, cached |-> NoContent]

\* The query apply_existing and enqueue_unless_active share.
HasActiveDocumentJob(d, revision) ==
    \E j \in DOMAIN jobs : /\ jobs[j].document = d
                           /\ jobs[j].kind = "document"
                           /\ jobs[j].revision = revision
                           /\ IsActive(j)

\* Mutation of UpdateFull: the revision is not advanced.
UpdateFullInPlace(d, body) ==
    [documents EXCEPT ![d].content = body, ![d].status = "queued"]

\* update_full: the row takes the new body under the next revision.
UpdateFull(d, body) ==
    [documents EXCEPT ![d].content = body, ![d].status = "queued",
                      ![d].revision = @ + 1]

\* Mutation of FailStaleMemoryJobs: a job some task is running is left alone.
FailQueuedMemoryJobs(d, revision) ==
    [j \in DOMAIN jobs |->
        IF /\ jobs[j].document = d
           /\ jobs[j].kind = "memory"
           /\ jobs[j].revision # revision
           /\ jobs[j].status = "queued"
        THEN [jobs[j] EXCEPT !.status = "failed"]
        ELSE jobs[j]]

\* The second statement of update_full: memory jobs of other revisions fail.
FailStaleMemoryJobs(d, revision) ==
    [j \in DOMAIN jobs |->
        IF /\ jobs[j].document = d
           /\ jobs[j].kind = "memory"
           /\ jobs[j].revision # revision
           /\ IsActive(j)
        THEN [jobs[j] EXCEPT !.status = "failed"]
        ELSE jobs[j]]

\* ON DELETE CASCADE: the jobs of a deleted document go with it.
WithoutDocument(d) ==
    [j \in DOMAIN jobs |->
        IF jobs[j].document = d THEN [jobs[j] EXCEPT !.status = "deleted"]
                                ELSE jobs[j]]

DeleteRow(d) ==
    /\ documents' = [documents EXCEPT ![d].status = "deleted"]
    /\ jobs' = WithoutDocument(d)

\* Mutation of Claimable: the status filter admits every active job.
ClaimableInAnyStage(kind) ==
    {j \in DOMAIN jobs : /\ jobs[j].kind = kind
                         /\ IsActive(j)
                         /\ ~jobs[j].delayed
                         /\ Live(jobs[j].document)
                         /\ jobs[j].revision = documents[jobs[j].document].revision}

\* The rows claim_job and claim_memory_job select from, and their ORDER BY.
Claimable(kind) ==
    {j \in DOMAIN jobs : /\ jobs[j].kind = kind
                         /\ jobs[j].status = "queued"
                         /\ ~jobs[j].delayed
                         /\ Live(jobs[j].document)
                         /\ jobs[j].revision = documents[jobs[j].document].revision}

Oldest(j, rows) == j \in rows /\ \A k \in rows : j <= k

Init ==
    /\ documents = <<>>
    /\ jobs = <<>>
    /\ indexers = {}
    /\ extractors = {}
    /\ restarts = 0

-----------------------------------------------------------------------------
(* Client submissions: upsert_document_for, delete_document_for.           *)

\* No document has the custom id, or none was given and no finished document
\* duplicates the body, its tags and its metadata.
InsertNew(id, body) ==
    /\ Len(documents) < MaxDocuments
    /\ id # NoId => \A d \in DOMAIN documents :
                        Live(d) => documents[d].customId # id
    /\ documents' = Append(documents, NewDocument(id, body))
    /\ jobs' = Append(jobs, NewJob(Len(documents) + 1, "document", 1))
    /\ UNCHANGED <<indexers, extractors, restarts>>

\* A submission that finds its document.  While a document job is active it
\* returns early; the same body with nothing new in its metadata, or with new
\* metadata outside "indexing", leaves content, revision and jobs alone.  A
\* duplicate found without a custom id always ends in one of those cases.
Resubmit(d, body) ==
    /\ Live(d)
    /\ documents[d].customId # NoId
    /\ documents[d].revision < MaxRevision
    /\ ~HasActiveDocumentJob(d, documents[d].revision)
    /\ \/ documents[d].status \in {"failed", "indexing"}
       \/ documents[d].content # body
    /\ documents' = UpdateFull(d, body)
    /\ LET revision == documents'[d].revision IN
       jobs' = Append(FailStaleMemoryJobs(d, revision),
                      NewJob(d, "document", revision))
    /\ UNCHANGED <<indexers, extractors, restarts>>

DeleteDocument(d) ==
    /\ Live(d)
    /\ DeleteRow(d)
    /\ UNCHANGED <<indexers, extractors, restarts>>

-----------------------------------------------------------------------------
(* Document jobs: the calls IndexingCoordinator::process makes.            *)

ClaimJob ==
    \E j \in DOMAIN jobs :
        /\ Oldest(j, Claimable("document"))
        /\ LET d == jobs[j].document IN
           /\ jobs' = [jobs EXCEPT ![j].status = "extracting",
                                   ![j].attempts = jobs[j].attempts + 1]
           /\ documents' = [documents EXCEPT ![d].status = "extracting"]
           /\ indexers' = indexers \cup
                {[job |-> j, document |-> d, revision |-> jobs[j].revision,
                  content |-> documents[d].content, stage |-> "extracting"]}
        /\ UNCHANGED <<extractors, restarts>>

Successor == [extracting |-> "chunking", chunking |-> "embedding",
              embedding |-> "indexing"]

\* Which call comes next for a task: blank bodies end after chunking, and only
\* a server with an embedding model goes on to the later stages.
MayAdvance(c) ==
    \/ c.stage = "extracting"
    \/ /\ c.stage = "chunking"
       /\ c.content \notin BlankContents
       /\ Modes \cap {"vectors", "memories"} # {}
    \/ c.stage = "embedding"

\* Either row missing its precondition rolls both updates back, and the
\* StaleRevision error ends the task.
MarkJobStage(c) ==
    /\ MayAdvance(c)
    /\ LET stage == Successor[c.stage] IN
       IF jobs[c.job].status = c.stage /\ Current(c)
       THEN /\ jobs' = [jobs EXCEPT ![c.job].status = stage]
            /\ documents' = [documents EXCEPT ![c.document].status = stage]
            /\ indexers' = (indexers \ {c}) \cup {[c EXCEPT !.stage = stage]}
       ELSE /\ indexers' = indexers \ {c}
            /\ UNCHANGED <<documents, jobs>>
    /\ UNCHANGED <<extractors, restarts>>

MayPublish(c, mode) ==
    /\ mode \in Modes
    /\ c.content \notin BlankContents
    /\ IF mode = "text" THEN c.stage = "chunking" ELSE c.stage = "indexing"

\* The job row the worker finishes; its row count is not checked.
FinishJob(c) ==
    IF jobs[c.job].status \in Stages
    THEN [jobs EXCEPT ![c.job].status = "done"]
    ELSE jobs

\* publish_job: chunks and vectors are replaced, the job finishes and, with a
\* provider, the memory job is queued, all in one transaction.
PublishJob(c, mode) ==
    /\ MayPublish(c, mode)
    /\ IF Current(c)
       THEN /\ documents' = [documents EXCEPT
                    ![c.document].chunks = c.content,
                    ![c.document].status =
                        IF mode = "memories" THEN "indexing" ELSE "done"]
            /\ jobs' = IF mode = "memories"
                       THEN Append(FinishJob(c),
                                   NewJob(c.document, "memory", c.revision))
                       ELSE FinishJob(c)
       ELSE UNCHANGED <<documents, jobs>>
    /\ indexers' = indexers \ {c}
    /\ UNCHANGED <<extractors, restarts>>

\* Mutation of FailJob: only the document is marked.
FailDocumentOnly(c) ==
    /\ c.stage \in {"chunking", "embedding"}
    /\ documents' = IF Current(c)
                    THEN [documents EXCEPT ![c.document].status = "failed"]
                    ELSE documents
    /\ indexers' = indexers \ {c}
    /\ UNCHANGED <<jobs, extractors, restarts>>

\* Mutation of FailJob: the failure also takes the published chunks away.
FailAndUnpublish(c) ==
    /\ c.stage \in {"chunking", "embedding"}
    /\ jobs' = [jobs EXCEPT ![c.job].status = "failed"]
    /\ documents' = IF Current(c)
                    THEN [documents EXCEPT ![c.document].status = "failed",
                                           ![c.document].chunks = NoContent]
                    ELSE documents
    /\ indexers' = indexers \ {c}
    /\ UNCHANGED <<extractors, restarts>>

\* fail_job after a chunking or an embedding error; published chunks stay.
FailJob(c) ==
    /\ c.stage \in {"chunking", "embedding"}
    /\ jobs' = IF jobs[c.job].status = "deleted" THEN jobs
               ELSE [jobs EXCEPT ![c.job].status = "failed"]
    /\ documents' = IF Current(c)
                    THEN [documents EXCEPT ![c.document].status = "failed"]
                    ELSE documents
    /\ indexers' = indexers \ {c}
    /\ UNCHANGED <<extractors, restarts>>

DeleteEmptyDocument(c) ==
    /\ c.stage = "chunking"
    /\ c.content \in BlankContents
    /\ IF Current(c) /\ documents[c.document].status \in {"extracting", "chunking"}
       THEN DeleteRow(c.document)
       ELSE UNCHANGED <<documents, jobs>>
    /\ indexers' = indexers \ {c}
    /\ UNCHANGED <<extractors, restarts>>

\* The first error of a cohort drops its JoinSet and with it the sibling tasks;
\* a publication error that is no StaleRevision ends a task the same way.
AbortIndexer(c) ==
    /\ TasksAbort
    /\ indexers' = indexers \ {c}
    /\ UNCHANGED <<documents, jobs, extractors, restarts>>

-----------------------------------------------------------------------------
(* Memory jobs: the calls MemoryExtractionCoordinator::process makes.      *)

ClaimMemoryJob ==
    \E j \in DOMAIN jobs :
        /\ Oldest(j, Claimable("memory"))
        /\ LET d == jobs[j].document
               attempt == jobs[j].attempts + 1 IN
           /\ jobs' = [jobs EXCEPT ![j].status = "extracting",
                                   ![j].attempts = attempt]
           /\ extractors' = extractors \cup
                {[job |-> j, document |-> d, revision |-> jobs[j].revision,
                  content |-> documents[d].content, attempts |-> attempt,
                  result |-> jobs[j].cached, superseded |-> FALSE]}
        /\ UNCHANGED <<documents, indexers, restarts>>

\* mark_memory_job_stale: only an active row is touched.
MarkMemoryJobStale(c) ==
    IF IsActive(c.job) THEN [jobs EXCEPT ![c.job].status = "failed"] ELSE jobs

\* The provider answered: its output is stored before anything is made of it.
\* A newer revision marks the job stale and ends the task.
CacheMemoryExtraction(c) ==
    /\ c.result = NoContent
    /\ IF jobs[c.job].status = "extracting" /\ Current(c)
       THEN /\ jobs' = [jobs EXCEPT ![c.job].cached = c.content]
            /\ extractors' = (extractors \ {c}) \cup {[c EXCEPT !.result = c.content]}
       ELSE /\ jobs' = MarkMemoryJobStale(c)
            /\ extractors' = extractors \ {c}
    /\ UNCHANGED <<documents, indexers, restarts>>

\* The rows a finished extraction leaves: reconcile_memories_for with its
\* completion job, and the successful path of complete_memory_job.
FinishExtraction(c) ==
    /\ jobs' = [jobs EXCEPT ![c.job].status = "done", ![c.job].cached = NoContent]
    /\ documents' = [documents EXCEPT ![c.document].status = "done",
                                      ![c.document].extracted = c.result]
    /\ extractors' = extractors \ {c}

\* Memories, sources and completion in one transaction.  A newer revision, or a
\* job that is no longer "extracting", sends the task on to complete_memory_job;
\* a deleted document is an error the task answers with RetryMemoryJob.
ReconcileMemories(c) ==
    /\ c.result # NoContent
    /\ ~c.superseded
    /\ Live(c.document)
    /\ IF Current(c) /\ jobs[c.job].status = "extracting"
       THEN FinishExtraction(c)
       ELSE /\ extractors' = (extractors \ {c}) \cup {[c EXCEPT !.superseded = TRUE]}
            /\ UNCHANGED <<documents, jobs>>
    /\ UNCHANGED <<indexers, restarts>>

\* Called for an extraction without candidates and after a superseded
\* reconciliation.  A stale job is failed whatever its status was.
CompleteMemoryJob(c) ==
    /\ c.result # NoContent
    /\ IF Current(c) /\ jobs[c.job].status = "extracting"
       THEN FinishExtraction(c)
       ELSE /\ jobs' = IF Current(c) \/ jobs[c.job].status = "deleted" THEN jobs
                       ELSE [jobs EXCEPT ![c.job].status = "failed"]
            /\ extractors' = extractors \ {c}
            /\ UNCHANGED documents
    /\ UNCHANGED <<indexers, restarts>>

\* "permanent": authentication or configuration; "invalid": unusable output;
\* "transient": rate limits, transport, embedding and reconciliation errors.
Failures(c) == IF c.result = NoContent THEN {"permanent", "invalid", "transient"}
                                       ELSE {"transient"}

\* Mutation of IsTerminal: one attempt too many.
IsTerminalLate(c, failure) ==
    \/ failure = "permanent"
    \/ failure = "invalid" /\ c.attempts > 2
    \/ c.attempts > MaxAttempts

\* retry_delay gives no delay, or the attempts are used up.
IsTerminal(c, failure) ==
    \/ failure = "permanent"
    \/ failure = "invalid" /\ c.attempts >= 2
    \/ c.attempts >= MaxAttempts

RetryMemoryJob(c, failure) ==
    /\ failure \in Failures(c)
    /\ ~c.superseded
    /\ LET terminal == IsTerminal(c, failure) IN
       \/ /\ ~Current(c)
          /\ jobs' = MarkMemoryJobStale(c)
          /\ UNCHANGED documents
       \/ /\ Current(c)
          /\ jobs[c.job].status = "extracting"
          /\ jobs' = [jobs EXCEPT
                ![c.job].status = IF terminal THEN "failed" ELSE "queued",
                ![c.job].delayed = ~terminal]
          /\ documents' = IF terminal
                          THEN [documents EXCEPT ![c.document].status = "failed"]
                          ELSE documents
       \/ /\ Current(c)
          /\ jobs[c.job].status # "extracting"
          /\ UNCHANGED <<documents, jobs>>
    /\ extractors' = extractors \ {c}
    /\ UNCHANGED <<indexers, restarts>>

\* available_at passes.
DelayElapses(j) ==
    /\ jobs[j].delayed
    /\ jobs[j].status = "queued"
    /\ jobs' = [jobs EXCEPT ![j].delayed = FALSE]
    /\ UNCHANGED <<documents, indexers, extractors, restarts>>

\* A fatal error or a degraded service drops the coordinator's JoinSet; a
\* reader error or an unreadable cached result ends one task without a retry.
AbortExtractor(c) ==
    /\ TasksAbort
    /\ extractors' = extractors \ {c}
    /\ UNCHANGED <<documents, jobs, indexers, restarts>>

-----------------------------------------------------------------------------
(* The process stops at any point and starts again: initialize.            *)

\* Mutation of Requeued: a failed job is given another chance.
RequeuedWithFailed(j) ==
    IF jobs[j].status \in Stages \cup {"failed"}
    THEN [jobs[j] EXCEPT !.status = "queued", !.delayed = FALSE]
    ELSE jobs[j]

Requeued(j) ==
    IF jobs[j].status \in Stages
    THEN [jobs[j] EXCEPT !.status = "queued", !.delayed = FALSE]
    ELSE jobs[j]

IsOrphan(job) ==
    /\ job.kind = "memory"
    /\ job.status = "queued"
    /\ ~(Live(job.document) /\ documents[job.document].revision = job.revision)

\* Mutation of RecoveredJobs: jobs a dead process held are not taken back.
UnrecoveredJobs == jobs

RecoveredJobs ==
    [j \in DOMAIN jobs |->
        IF IsOrphan(Requeued(j)) THEN [Requeued(j) EXCEPT !.status = "failed"]
                                 ELSE Requeued(j)]

HasQueued(d, kind) ==
    \E j \in DOMAIN jobs : /\ RecoveredJobs[j].document = d
                           /\ RecoveredJobs[j].revision = documents[d].revision
                           /\ RecoveredJobs[j].kind = kind
                           /\ RecoveredJobs[j].status = "queued"

\* Mutation of RecoveredDocuments: only the jobs table is repaired.
UnrecoveredDocuments == documents

\* The two UPDATEs in their order: after the first one a queued document job
\* has already taken the row out of the statuses the second one selects.
RecoveredDocuments ==
    [d \in DOMAIN documents |->
        IF documents[d].status \notin Stages THEN documents[d]
        ELSE IF HasQueued(d, "document")
             THEN [documents[d] EXCEPT !.status = "queued"]
        ELSE IF HasQueued(d, "memory")
             THEN [documents[d] EXCEPT !.status = "indexing"]
        ELSE documents[d]]

Restart ==
    /\ restarts < MaxRestarts
    /\ restarts' = restarts + 1
    /\ jobs' = RecoveredJobs
    /\ documents' = RecoveredDocuments
    /\ indexers' = {}
    /\ extractors' = {}

-----------------------------------------------------------------------------
Submission ==
    \/ \E id \in CustomIds \cup {NoId}, body \in Contents : InsertNew(id, body)
    \/ \E d \in DOMAIN documents, body \in Contents : Resubmit(d, body)
    \/ \E d \in DOMAIN documents : DeleteDocument(d)

IndexerStep(c) ==
    \/ MarkJobStage(c)
    \/ \E mode \in Modes : PublishJob(c, mode)
    \/ FailJob(c)
    \/ DeleteEmptyDocument(c)

ExtractorStep(c) ==
    \/ CacheMemoryExtraction(c)
    \/ ReconcileMemories(c)
    \/ CompleteMemoryJob(c)
    \/ \E failure \in Failures(c) : RetryMemoryJob(c, failure)

Next ==
    \/ Submission
    \/ ClaimJob
    \/ \E c \in indexers : IndexerStep(c) \/ AbortIndexer(c)
    \/ ClaimMemoryJob
    \/ \E c \in extractors : ExtractorStep(c) \/ AbortExtractor(c)
    \/ \E j \in DOMAIN jobs : DelayElapses(j)
    \/ Restart

Spec == Init /\ [][Next]_vars

-----------------------------------------------------------------------------
(* Safety.                                                                 *)

\* The index jobs_one_active_document_revision_idx is left out of the model:
\* no sequence of calls ever needs it, because a document never has two jobs
\* to do, of whatever kind or revision.
AtMostOneActiveJob ==
    \A i, j \in DOMAIN jobs :
        IsActive(i) /\ IsActive(j) /\ jobs[i].document = jobs[j].document => i = j

\* No work is left queued or running for a deleted document or an old
\* revision, so a queue entry is always worth claiming.
ActiveJobIsCurrent ==
    \A j \in DOMAIN jobs :
        IsActive(j) => /\ Live(jobs[j].document)
                       /\ jobs[j].revision = documents[jobs[j].document].revision

\* The status a client polls and the job that will change it never disagree:
\* a document shows a stage exactly while a job is at that stage, and
\* "indexing" while its memories are extracted.
JobExplainsStatus(j) ==
    IF jobs[j].kind = "document"
    THEN documents[jobs[j].document].status = jobs[j].status
    ELSE /\ documents[jobs[j].document].status = "indexing"
         /\ jobs[j].status \in {"queued", "extracting"}

StatusMatchesActiveJob ==
    /\ \A j \in DOMAIN jobs : IsActive(j) => JobExplainsStatus(j)
    /\ \A d \in DOMAIN documents :
          documents[d].status \in ActiveStates =>
              \E j \in DOMAIN jobs : IsActive(j) /\ jobs[j].document = d

\* No two tasks hold the same job, and a job a task holds is not in the queue,
\* where another task could claim it too.
NoDoubleClaim ==
    /\ \A a, b \in indexers \cup extractors : a.job = b.job => a = b
    /\ \A a \in indexers \cup extractors :
          a.job \in DOMAIN jobs /\ jobs[a.job].status # "queued"

\* A job's document exists, and the job goes when the document goes.
JobsBelongToDocuments ==
    \A j \in DOMAIN jobs :
        /\ jobs[j].document \in DOMAIN documents
        /\ jobs[j].status = "deleted" => documents[jobs[j].document].status = "deleted"

\* No job, not even a finished one, is for a revision still to come: else the
\* next submission would make it look current.
NoJobAheadOfDocument ==
    \A j \in DOMAIN jobs :
        jobs[j].document \in DOMAIN documents =>
            jobs[j].revision <= documents[jobs[j].document].revision

\* What a task may take for granted of the job it claimed earlier: an indexing
\* task finds its job where it left it unless the document is gone; a memory
\* task does while its revision is current, and otherwise finds it failed.
ClaimsMatchJobs ==
    /\ \A c \in indexers \cup extractors :
          /\ c.job \in DOMAIN jobs
          /\ jobs[c.job].document = c.document
          /\ jobs[c.job].revision = c.revision
    /\ \A c \in indexers :
          /\ jobs[c.job].kind = "document"
          /\ jobs[c.job].status \in {c.stage, "deleted"}
    /\ \A c \in extractors :
          /\ jobs[c.job].kind = "memory"
          /\ jobs[c.job].status \in {"extracting", "failed", "deleted"}
          /\ Current(c) => jobs[c.job].status = "extracting"

\* The inductive invariant behind the safety properties of the queue.
TableInv ==
    /\ AtMostOneActiveJob
    /\ ActiveJobIsCurrent
    /\ StatusMatchesActiveJob
    /\ JobsBelongToDocuments
    /\ NoJobAheadOfDocument

ClaimInv == NoDoubleClaim /\ ClaimsMatchJobs

QueueInv == TableInv /\ ClaimInv

\* What "done" tells a client: the searchable chunks are those of the body
\* accepted last, and if that revision had a memory job, its memories were
\* extracted from that body too.
DoneMeansFresh ==
    \A d \in DOMAIN documents :
        documents[d].status = "done" =>
            /\ documents[d].chunks = documents[d].content
            /\ \A j \in DOMAIN jobs :
                  /\ jobs[j].document = d
                  /\ jobs[j].kind = "memory"
                  /\ jobs[j].revision = documents[d].revision
                  => documents[d].extracted = documents[d].content

\* Provider output stored before a crash or a retry is only ever used for the
\* body it was extracted from.
CachedExtractionIsFresh ==
    \A j \in DOMAIN jobs :
        IsActive(j) /\ jobs[j].cached # NoContent =>
            jobs[j].cached = documents[jobs[j].document].content

\* Only a restart may push a job past MAX_ATTEMPTS: retries stop before.
RetryBudget ==
    \A j \in DOMAIN jobs : jobs[j].attempts <= MaxAttempts + restarts

\* A job in a stage has a task that will move it on.
Tended(j) ==
    jobs[j].status \in Stages => \E c \in indexers \cup extractors : c.job = j

\* However a call made with a claim comes out - finished, stale, document gone,
\* failed, put off - it leaves the claimed job out of the stages or with its
\* task.  The errors that end a task without such a call are the aborts: those
\* do leave the job in its stage with nobody, until a restart takes it back.
NoCallForgetsItsJob ==
    [][/\ \A c \in indexers : IndexerStep(c) => Tended(c.job)'
       /\ \A c \in extractors : ExtractorStep(c) => Tended(c.job)']_vars

\* A task publishes chunks or memories only for the body that is current when
\* it does: what it read when it claimed may be out of date by then.
PublishesCurrentContent ==
    [][\A d \in DOMAIN documents :
          /\ documents'[d].chunks # documents[d].chunks =>
                 documents'[d].chunks = documents'[d].content
          /\ documents'[d].extracted # documents[d].extracted =>
                 documents'[d].extracted = documents'[d].content]_vars

\* A finished or failed document moves again only under a new revision (or is
\* deleted): neither a late task nor a restart takes it back into the pipeline.
SettledUntilResubmitted ==
    [][\A d \in DOMAIN documents :
          documents[d].status \in {"done", "failed"} =>
              \/ documents'[d].status \in {documents[d].status, "deleted"}
              \/ documents'[d].revision = documents[d].revision + 1]_vars

-----------------------------------------------------------------------------
(* The lifecycle DocumentState::transition declares.                       *)

DeclaredEdges ==
    ({"unknown", "failed"} \X {"queued"})
    \cup {<<"queued", "extracting">>, <<"extracting", "chunking">>,
          <<"chunking", "embedding">>, <<"embedding", "indexing">>,
          <<"indexing", "done">>}
    \cup (ActiveStates \X {"failed"})

\* "Moves to `next` when the persisted lifecycle permits that edge": every
\* status change of a document follows a declared edge.
FollowsDeclaredLifecycle ==
    [][\A d \in DOMAIN documents :
          \/ documents'[d].status \in {documents[d].status, "deleted"}
          \/ <<documents[d].status, documents'[d].status>> \in DeclaredEdges]_vars

-----------------------------------------------------------------------------
(* Liveness.                                                               *)

\* A document has at most one job of each kind per revision.
JobRows == 1 .. (2 * MaxDocuments * MaxRevision)

\* Both coordinators keep claiming, every task keeps running and every delay
\* ends; clients and restarts owe nothing.
FairSpec ==
    /\ Spec
    /\ WF_vars(ClaimJob)
    /\ WF_vars(ClaimMemoryJob)
    /\ \A j \in JobRows :
          /\ WF_vars(\E c \in indexers : c.job = j /\ IndexerStep(c))
          /\ WF_vars(\E c \in extractors : c.job = j /\ ExtractorStep(c))
          /\ WF_vars(j \in DOMAIN jobs /\ DelayElapses(j))

InProgress(d) == Live(d) /\ documents[d].status \in ActiveStates

\* Every accepted body is eventually finished, failed or deleted, whatever
\* retries, restarts and resubmissions come in between.
EverySubmissionSettles ==
    \A d \in 1 .. MaxDocuments : InProgress(d) ~> ~InProgress(d)
=============================================================================
