---------------------------- MODULE JobQueueProofs ----------------------------
(* What is proved of JobQueue, for every value of its constants.  QueueInv:     *)
(* an action touches one document; OneDocumentStep and KeptClaims say what is   *)
(* left to show about that document and the claims on it.  FullInv adds what    *)
(* the tables hold and the tasks know: most steps leave bodies, chunks and      *)
(* memories alone (Quiet), and the five that do not each get a lemma.  The      *)
(* refinement of DocumentLifecycle ends the module.                             *)
EXTENDS JobQueueRefinement, SequenceTheorems, TLAPS

-----------------------------------------------------------------------------
(* Tables are sequences: what the three ways to change one leave of it.    *)

\* Overwriting a row keeps the table's length and its other rows.
LEMMA UpdatedRow ==
    ASSUME NEW S, NEW s \in Seq(S), NEW i, NEW e, i \in DOMAIN s => e \in S
    PROVE  /\ [s EXCEPT ![i] = e] \in Seq(S)
           /\ DOMAIN [s EXCEPT ![i] = e] = DOMAIN s
<1>1. CASE i \in DOMAIN s
  BY <1>1, ExceptSeq, LenProperties
<1>2. CASE i \notin DOMAIN s
  <2>1. [s EXCEPT ![i] = e] = s
    BY <1>2, LenProperties
  <2>2. QED BY <2>1
<1>3. QED BY <1>1, <1>2

\* An insertion adds one row at the end.
LEMMA InsertedRow ==
    ASSUME NEW S, NEW s \in Seq(S), NEW e \in S
    PROVE  /\ Append(s, e) \in Seq(S)
           /\ DOMAIN Append(s, e) = 1 .. Len(s) + 1
           /\ \A i \in DOMAIN s : Append(s, e)[i] = s[i]
           /\ Append(s, e)[Len(s) + 1] = e
  BY LenProperties

\* A statement over all rows keeps the rows where they are.
LEMMA MappedRows ==
    ASSUME NEW S, NEW T, NEW s \in Seq(S), NEW f \in [DOMAIN s -> T]
    PROVE  f \in Seq(T)
  BY LenProperties
-----------------------------------------------------------------------------
(* Type correctness.                                                       *)

LEMMA InitTyped == Init => TypeOK
<1>1. \A S : <<>> \in Seq(S)
  BY EmptySeq
<1>2. QED BY <1>1 DEF Init, TypeOK

\* Changing the status of a row keeps the table well typed.
LEMMA DocumentStatusTyped ==
    ASSUME TypeOK, NEW d, NEW status \in JobStates
    PROVE  [documents EXCEPT ![d].status = status] \in Seq(Document)
<1>1. \A row \in Document : [row EXCEPT !.status = status] \in Document
  BY DEF Document
<1>2. d \in DOMAIN documents => documents[d] \in Document
  BY LenProperties DEF TypeOK
<1>3. QED BY <1>1, <1>2, UpdatedRow DEF TypeOK

LEMMA JobStatusTyped ==
    ASSUME TypeOK, NEW j, NEW status \in JobStates
    PROVE  [jobs EXCEPT ![j].status = status] \in Seq(Job)
<1>1. \A row \in Job : [row EXCEPT !.status = status] \in Job
  BY DEF Job
<1>2. j \in DOMAIN jobs => jobs[j] \in Job
  BY LenProperties DEF TypeOK
<1>3. QED BY <1>1, <1>2, UpdatedRow DEF TypeOK

LEMMA DeleteRowTyped ==
    ASSUME TypeOK, NEW d, DeleteRow(d)
    PROVE  documents' \in Seq(Document) /\ jobs' \in Seq(Job)
<1>1. documents' \in Seq(Document)
  BY DocumentStatusTyped DEF DeleteRow, JobStates
<1>2. \A j \in DOMAIN jobs : jobs[j] \in Job
  BY LenProperties DEF TypeOK
<1>3. WithoutDocument(d) \in [DOMAIN jobs -> Job]
  BY <1>2 DEF WithoutDocument, Job, JobStates
<1>4. QED BY <1>1, <1>3, MappedRows DEF DeleteRow, TypeOK

LEMMA SubmissionTyped ==
    ASSUME ConstantsAssumption, TypeOK, Submission
    PROVE  TypeOK'
<1> USE DEF TypeOK
<1>1. ASSUME NEW id \in CustomIds \cup {NoId}, NEW body \in Contents,
             InsertNew(id, body)
      PROVE  TypeOK'
  <2>1. NewDocument(id, body) \in Document
    BY DEF NewDocument, Document, Published, JobStates, ActiveStates
  <2>2. NewJob(Len(documents) + 1, "document", 1) \in Job
    BY LenProperties DEF NewJob, Job, Published, JobStates, ActiveStates
  <2>3. QED BY <1>1, <2>1, <2>2, InsertedRow DEF InsertNew
<1>2. ASSUME NEW d \in DOMAIN documents, NEW body \in Contents, Resubmit(d, body)
      PROVE  TypeOK'
  <2>1. documents[d] \in Document
    BY LenProperties
  <2>2. documents' \in Seq(Document) /\ documents'[d].revision \in Nat
    <3> DEFINE row == [documents[d] EXCEPT !.content = body, !.status = "queued",
                                           !.revision = @ + 1]
    <3>1. row \in Document
      <4>1. "queued" \in JobStates
        BY DEF JobStates, ActiveStates
      <4>2. \A old \in Document, n \in Nat :
              [old EXCEPT !.content = body, !.status = "queued",
                          !.revision = n] \in Document
        BY <4>1 DEF Document
      <4>3. documents[d].revision + 1 \in Nat
        BY <2>1 DEF Document
      <4>4. QED BY <2>1, <4>2, <4>3
    <3>2. documents' = [documents EXCEPT ![d] = row]
      BY <1>2 DEF Resubmit, UpdateFull
    <3>3. documents'[d] = row
      BY <3>2, LenProperties
    <3>4. QED BY <3>1, <3>2, <3>3, UpdatedRow DEF Document
  <2>3. FailStaleMemoryJobs(d, documents'[d].revision) \in Seq(Job)
    <3>1. \A j \in DOMAIN jobs : jobs[j] \in Job
      BY LenProperties
    <3>2. FailStaleMemoryJobs(d, documents'[d].revision) \in [DOMAIN jobs -> Job]
      BY <3>1 DEF FailStaleMemoryJobs, Job, JobStates
    <3>3. QED BY <3>2, MappedRows
  <2>4. NewJob(d, "document", documents'[d].revision) \in Job
    BY <2>2, LenProperties DEF NewJob, Job, Published, JobStates, ActiveStates
  <2>5. QED BY <1>2, <2>2, <2>3, <2>4, InsertedRow DEF Resubmit
<1>3. ASSUME NEW d \in DOMAIN documents, DeleteDocument(d)
      PROVE  TypeOK'
  BY <1>3, DeleteRowTyped DEF DeleteDocument
<1>4. QED BY <1>1, <1>2, <1>3 DEF Submission

LEMMA ClaimTyped ==
    ASSUME TypeOK, ClaimJob \/ ClaimMemoryJob
    PROVE  TypeOK'
<1>1. \A d \in DOMAIN documents : documents[d] \in Document
  BY LenProperties DEF TypeOK
<1>2. \A j \in DOMAIN jobs : jobs[j] \in Job
  BY LenProperties DEF TypeOK
<1>3. DOMAIN jobs \subseteq Nat \ {0}
  BY LenProperties DEF TypeOK
<1>4. "extracting" \in JobStates
  BY DEF JobStates, ActiveStates, Stages
<1>5. CASE ClaimJob
  <2>1. PICK j \in DOMAIN jobs :
          /\ Oldest(j, Claimable("document"))
          /\ jobs' = [jobs EXCEPT ![j].status = "extracting",
                                  ![j].attempts = jobs[j].attempts + 1]
          /\ documents' = [documents EXCEPT
                              ![jobs[j].document].status = "extracting"]
          /\ indexers' = indexers \cup
                {[job |-> j, document |-> jobs[j].document,
                  revision |-> jobs[j].revision,
                  content |-> documents[jobs[j].document].content,
                  stage |-> "extracting"]}
          /\ UNCHANGED <<extractors, restarts>>
    BY <1>5 DEF ClaimJob
  <2>2. jobs[j].document \in DOMAIN documents
    BY <2>1 DEF Oldest, Claimable, Live
  <2>3. [job |-> j, document |-> jobs[j].document, revision |-> jobs[j].revision,
         content |-> documents[jobs[j].document].content,
         stage |-> "extracting"] \in Indexer
    BY <1>1, <1>2, <1>3, <2>2 DEF Indexer, Job, Document, Stages
  <2>4. jobs' \in Seq(Job)
    <3>1. jobs[j].attempts + 1 \in Nat
      BY <1>2 DEF Job
    <3>2. [jobs[j] EXCEPT !.status = "extracting",
                          !.attempts = jobs[j].attempts + 1] \in Job
      BY <1>2, <1>4, <3>1 DEF Job
    <3>3. jobs' = [jobs EXCEPT ![j] = [jobs[j] EXCEPT !.status = "extracting",
                                         !.attempts = jobs[j].attempts + 1]]
      BY <2>1
    <3>4. QED BY <3>2, <3>3, UpdatedRow DEF TypeOK
  <2>5. QED BY <2>1, <2>3, <2>4, DocumentStatusTyped, <1>4 DEF TypeOK
<1>6. CASE ClaimMemoryJob
  <2>1. PICK j \in DOMAIN jobs :
          /\ Oldest(j, Claimable("memory"))
          /\ jobs' = [jobs EXCEPT ![j].status = "extracting",
                                  ![j].attempts = jobs[j].attempts + 1]
          /\ extractors' = extractors \cup
                {[job |-> j, document |-> jobs[j].document,
                  revision |-> jobs[j].revision,
                  content |-> documents[jobs[j].document].content,
                  attempts |-> jobs[j].attempts + 1,
                  result |-> jobs[j].cached, superseded |-> FALSE]}
          /\ UNCHANGED <<documents, indexers, restarts>>
    BY <1>6 DEF ClaimMemoryJob
  <2>2. jobs[j].document \in DOMAIN documents
    BY <2>1 DEF Oldest, Claimable, Live
  <2>3. jobs[j].attempts + 1 \in Nat
    BY <1>2 DEF Job
  <2>4. [job |-> j, document |-> jobs[j].document, revision |-> jobs[j].revision,
         content |-> documents[jobs[j].document].content,
         attempts |-> jobs[j].attempts + 1,
         result |-> jobs[j].cached, superseded |-> FALSE] \in Extractor
    BY <1>1, <1>2, <1>3, <2>2, <2>3 DEF Extractor, Job, Document
  <2>5. jobs' \in Seq(Job)
    <3>1. \A row \in Job, n \in Nat :
            [row EXCEPT !.status = "extracting", !.attempts = n] \in Job
      BY <1>4 DEF Job
    <3>2. jobs' = [jobs EXCEPT ![j] = [jobs[j] EXCEPT !.status = "extracting",
                                              !.attempts = jobs[j].attempts + 1]]
      BY <2>1, <1>2 DEF Job
    <3>3. QED BY <1>2, <2>3, <3>1, <3>2, UpdatedRow DEF TypeOK
  <2>6. QED BY <2>1, <2>4, <2>5 DEF TypeOK
<1>7. QED BY <1>5, <1>6

LEMMA IndexerTyped ==
    ASSUME TypeOK, NEW c \in indexers, IndexerStep(c) \/ AbortIndexer(c)
    PROVE  TypeOK'
<1>1. c \in Indexer /\ c.content \in Published
  BY DEF TypeOK, Indexer, Published
<1>2. {"extracting", "chunking", "embedding", "indexing", "done", "failed"}
          \subseteq JobStates
  BY DEF JobStates, ActiveStates, Stages
<1>3. CASE MarkJobStage(c)
  <2>1. Successor[c.stage] \in Stages
    BY <1>3, <1>1 DEF MarkJobStage, MayAdvance, Successor, Stages
  <2>2. \A stage \in Stages : [c EXCEPT !.stage = stage] \in Indexer
    BY <1>1 DEF Indexer
  <2>3. Successor[c.stage] \in JobStates
    BY <2>1 DEF JobStates, ActiveStates
  <2>4. QED
    BY <1>3, <2>1, <2>2, <2>3, JobStatusTyped, DocumentStatusTyped
       DEF MarkJobStage, TypeOK
<1>4. ASSUME NEW mode \in Modes, PublishJob(c, mode)
      PROVE  TypeOK'
  <2>1. FinishJob(c) \in Seq(Job)
    BY <1>2, JobStatusTyped DEF FinishJob, TypeOK
  <2>2. NewJob(c.document, "memory", c.revision) \in Job
    BY <1>1 DEF NewJob, Job, Indexer, Published, JobStates, ActiveStates
  <2>3. jobs' \in Seq(Job)
    <3>1. Append(FinishJob(c), NewJob(c.document, "memory", c.revision)) \in Seq(Job)
      BY <2>1, <2>2, InsertedRow
    <3>2. QED BY <1>4, <2>1, <3>1 DEF PublishJob, TypeOK
  <2>4. documents' \in Seq(Document)
    <3>1. \A row \in Document, status \in {"indexing", "done"} :
            [row EXCEPT !.chunks = c.content, !.status = status] \in Document
      BY <1>1, <1>2 DEF Document
    <3>2. \A d \in DOMAIN documents : documents[d] \in Document
      BY LenProperties DEF TypeOK
    <3>3. PICK status \in {"indexing", "done"} :
            Current(c) => documents' = [documents EXCEPT
                ![c.document].chunks = c.content, ![c.document].status = status]
      BY <1>4 DEF PublishJob
    <3>4. CASE Current(c)
      <4> DEFINE row == [documents[c.document] EXCEPT
                            !.chunks = c.content, !.status = status]
      <4>1. c.document \in DOMAIN documents
        BY <3>4 DEF Current, Live
      <4>2. documents' = [documents EXCEPT ![c.document] = row]
        BY <3>2, <3>3, <3>4, <4>1 DEF Document
      <4>3. row \in Document
        BY <3>1, <3>2, <4>1
      <4>4. QED BY <4>2, <4>3, UpdatedRow DEF TypeOK
    <3>5. QED BY <1>4, <3>4 DEF PublishJob, TypeOK
  <2>5. QED BY <1>4, <2>3, <2>4 DEF PublishJob, TypeOK
<1>5. CASE FailJob(c)
  BY <1>2, <1>5, JobStatusTyped, DocumentStatusTyped DEF FailJob, TypeOK
<1>6. CASE DeleteEmptyDocument(c)
  BY <1>6, DeleteRowTyped DEF DeleteEmptyDocument, TypeOK
<1>7. CASE AbortIndexer(c)
  BY <1>7 DEF AbortIndexer, TypeOK
<1>8. QED BY <1>3, <1>4, <1>5, <1>6, <1>7 DEF IndexerStep

LEMMA ExtractorTyped ==
    ASSUME TypeOK, NEW c \in extractors, ExtractorStep(c) \/ AbortExtractor(c)
    PROVE  TypeOK'
<1>1. c \in Extractor /\ c.content \in Published
  BY DEF TypeOK, Extractor, Published
<1>2. {"queued", "extracting", "done", "failed"} \subseteq JobStates
  BY DEF JobStates, ActiveStates, Stages
<1>3. /\ \A d \in DOMAIN documents : documents[d] \in Document
      /\ \A j \in DOMAIN jobs : jobs[j] \in Job
  BY LenProperties DEF TypeOK
<1>4. MarkMemoryJobStale(c) \in Seq(Job)
  BY <1>2, JobStatusTyped DEF MarkMemoryJobStale, TypeOK
<1>5. ASSUME FinishExtraction(c)
      PROVE  jobs' \in Seq(Job) /\ documents' \in Seq(Document) /\ extractors' \subseteq Extractor
  <2>1. jobs' \in Seq(Job)
    <3>1. \A row \in Job :
            [row EXCEPT !.status = "done", !.cached = NoContent] \in Job
      BY <1>2 DEF Job, Published
    <3>2. c.job \in DOMAIN jobs =>
            [jobs[c.job] EXCEPT !.status = "done", !.cached = NoContent] \in Job
      BY <1>3, <3>1
    <3>3. jobs' = [jobs EXCEPT ![c.job] =
                      [jobs[c.job] EXCEPT !.status = "done", !.cached = NoContent]]
      BY <1>3, <1>5 DEF FinishExtraction, TypeOK, Job
    <3>4. QED BY <3>2, <3>3, UpdatedRow DEF TypeOK
  <2>2. documents' \in Seq(Document)
    <3>1. \A row \in Document :
            [row EXCEPT !.status = "done", !.extracted = c.result] \in Document
      BY <1>1, <1>2 DEF Document, Extractor
    <3>2. c.document \in DOMAIN documents =>
            [documents[c.document] EXCEPT
                !.status = "done", !.extracted = c.result] \in Document
      BY <1>3, <3>1
    <3>3. documents' = [documents EXCEPT ![c.document] =
              [documents[c.document] EXCEPT
                  !.status = "done", !.extracted = c.result]]
      BY <1>3, <1>5 DEF FinishExtraction, TypeOK, Document
    <3>4. QED BY <3>2, <3>3, UpdatedRow DEF TypeOK
  <2>3. QED BY <1>5, <2>1, <2>2 DEF FinishExtraction, TypeOK
<1>6. CASE CacheMemoryExtraction(c)
  <2>1. \A body \in Contents : [c EXCEPT !.result = body] \in Extractor
    BY <1>1 DEF Extractor, Published
  <2>2. [jobs EXCEPT ![c.job].cached = c.content] \in Seq(Job)
    <3>1. \A row \in Job : [row EXCEPT !.cached = c.content] \in Job
      BY <1>1 DEF Job
    <3>2. c.job \in DOMAIN jobs => [jobs[c.job] EXCEPT !.cached = c.content] \in Job
      BY <1>3, <3>1
    <3>3. QED BY <3>2, UpdatedRow DEF TypeOK
  <2>3. [c EXCEPT !.result = c.content] \in Extractor
    BY <1>1, <2>1 DEF Extractor
  <2>4. QED BY <1>4, <1>6, <2>2, <2>3 DEF CacheMemoryExtraction, TypeOK
<1>7. CASE ReconcileMemories(c)
  <2>1. [c EXCEPT !.superseded = TRUE] \in Extractor
    BY <1>1 DEF Extractor
  <2>2. QED BY <1>5, <1>7, <2>1 DEF ReconcileMemories, TypeOK
<1>8. CASE CompleteMemoryJob(c)
  BY <1>2, <1>5, <1>8, JobStatusTyped DEF CompleteMemoryJob, TypeOK
<1>9. ASSUME NEW failure \in Failures(c), RetryMemoryJob(c, failure)
      PROVE  TypeOK'
  <2>1. \A status \in {"failed", "queued"}, delayed \in BOOLEAN :
          [jobs EXCEPT ![c.job].status = status,
                       ![c.job].delayed = delayed] \in Seq(Job)
    <3> TAKE status \in {"failed", "queued"}, delayed \in BOOLEAN
    <3>1. \A row \in Job :
            [row EXCEPT !.status = status, !.delayed = delayed] \in Job
      BY <1>2 DEF Job
    <3>2. c.job \in DOMAIN jobs =>
            [jobs[c.job] EXCEPT !.status = status, !.delayed = delayed] \in Job
      BY <1>3, <3>1
    <3>3. [jobs EXCEPT ![c.job].status = status, ![c.job].delayed = delayed]
            = [jobs EXCEPT ![c.job] =
                  [jobs[c.job] EXCEPT !.status = status, !.delayed = delayed]]
      BY <1>3 DEF TypeOK, Job
    <3>4. QED BY <3>2, <3>3, UpdatedRow DEF TypeOK
  <2>2. IsTerminal(c, failure) \in BOOLEAN
    BY DEF IsTerminal
  <2>3. PICK status \in {"failed", "queued"}, delayed \in BOOLEAN :
          \/ jobs' = [jobs EXCEPT ![c.job].status = status,
                                  ![c.job].delayed = delayed]
          \/ jobs' = MarkMemoryJobStale(c)
          \/ jobs' = jobs
    BY <1>9, <2>2 DEF RetryMemoryJob
  <2>4. jobs' \in Seq(Job)
    BY <1>4, <2>1, <2>3 DEF TypeOK
  <2>5. documents' \in Seq(Document)
    <3>1. [documents EXCEPT ![c.document].status = "failed"] \in Seq(Document)
      BY <1>2, DocumentStatusTyped
    <3>2. \/ documents' = [documents EXCEPT ![c.document].status = "failed"]
          \/ documents' = documents
      BY <1>9 DEF RetryMemoryJob
    <3>3. QED BY <3>1, <3>2 DEF TypeOK
  <2>6. QED BY <1>9, <2>4, <2>5 DEF RetryMemoryJob, TypeOK
<1>10. CASE AbortExtractor(c)
  BY <1>10 DEF AbortExtractor, TypeOK
<1>11. QED BY <1>6, <1>7, <1>8, <1>9, <1>10 DEF ExtractorStep

LEMMA DelayTyped ==
    ASSUME TypeOK, NEW j \in DOMAIN jobs, DelayElapses(j)
    PROVE  TypeOK'
<1>1. \A row \in Job : [row EXCEPT !.delayed = FALSE] \in Job
  BY DEF Job
<1>2. [jobs[j] EXCEPT !.delayed = FALSE] \in Job
  BY <1>1, LenProperties DEF TypeOK
<1>3. QED BY <1>2, UpdatedRow DEF DelayElapses, TypeOK

LEMMA RestartTyped ==
    ASSUME TypeOK, Restart
    PROVE  TypeOK'
<1>1. {"queued", "failed", "indexing"} \subseteq JobStates
  BY DEF JobStates, ActiveStates, Stages
<1>2. /\ \A d \in DOMAIN documents : documents[d] \in Document
      /\ \A j \in DOMAIN jobs : jobs[j] \in Job
  BY LenProperties DEF TypeOK
<1>3. \A row \in Job, status \in JobStates :
          /\ [row EXCEPT !.status = status] \in Job
          /\ [row EXCEPT !.status = status, !.delayed = FALSE] \in Job
  BY DEF Job
<1>4. \A row \in Document, status \in JobStates :
          [row EXCEPT !.status = status] \in Document
  BY DEF Document
<1>5. RecoveredJobs \in Seq(Job)
  <2>1. \A j \in DOMAIN jobs : Requeued(j) \in Job
    BY <1>1, <1>2, <1>3 DEF Requeued
  <2>2. RecoveredJobs \in [DOMAIN jobs -> Job]
    BY <1>1, <1>3, <2>1 DEF RecoveredJobs
  <2>3. QED BY <2>2, MappedRows DEF TypeOK
<1>6. RecoveredDocuments \in Seq(Document)
  <2>1. RecoveredDocuments \in [DOMAIN documents -> Document]
    BY <1>1, <1>2, <1>4 DEF RecoveredDocuments
  <2>2. QED BY <2>1, MappedRows DEF TypeOK
<1>7. QED BY <1>5, <1>6 DEF Restart, TypeOK

LEMMA NextTyped ==
    ASSUME ConstantsAssumption, TypeOK, [Next]_vars
    PROVE  TypeOK'
<1>1. CASE UNCHANGED vars
  BY <1>1 DEF vars, TypeOK
<1>2. CASE Next
  BY <1>2, SubmissionTyped, ClaimTyped, IndexerTyped, ExtractorTyped, DelayTyped,
     RestartTyped DEF Next
<1>3. QED BY <1>1, <1>2

\* Every table row and every claim keeps its type, for every number of
\* documents, revisions, attempts and restarts.
THEOREM TypeCorrect == Spec => []TypeOK
<1>1. ConstantsAssumption
  BY ConstantsAssumption
<1>2. QED BY <1>1, InitTyped, NextTyped, PTL DEF Spec

-----------------------------------------------------------------------------
IInv == TypeOK /\ QueueInv

\* A job row still stands for the same work.
SameJob(j) == /\ jobs'[j].document = jobs[j].document
              /\ jobs'[j].kind = jobs[j].kind
              /\ jobs'[j].revision = jobs[j].revision

\* The part of TableInv that speaks of document d and its jobs.
JobsOf(d) == {j \in DOMAIN jobs : jobs[j].document = d}

TableInvAt(d) ==
    /\ \A i, j \in JobsOf(d) : IsActive(i) /\ IsActive(j) => i = j
    /\ \A j \in JobsOf(d) :
          /\ IsActive(j) => /\ documents[d].status # "deleted"
                            /\ jobs[j].revision = documents[d].revision
                            /\ JobExplainsStatus(j)
          /\ jobs[j].status = "deleted" => documents[d].status = "deleted"
          /\ jobs[j].revision <= documents[d].revision
    /\ documents[d].status \in ActiveStates => \E j \in JobsOf(d) : IsActive(j)

LEMMA TableInvByDocument ==
    TableInv <=> /\ \A d \in DOMAIN documents : TableInvAt(d)
                 /\ \A j \in DOMAIN jobs : jobs[j].document \in DOMAIN documents
  BY DEF TableInv, TableInvAt, AtMostOneActiveJob, ActiveJobIsCurrent,
         StatusMatchesActiveJob, JobsBelongToDocuments, NoJobAheadOfDocument,
         JobsOf, Live

\* A step that touches one document keeps TableInv if it keeps it there.
LEMMA OneDocumentStep ==
    ASSUME TableInv, NEW d \in DOMAIN documents',
           DOMAIN documents \subseteq DOMAIN documents',
           DOMAIN jobs \subseteq DOMAIN jobs',
           \A e \in DOMAIN documents' \ {d} :
               e \in DOMAIN documents /\ documents'[e] = documents[e],
           \A j \in DOMAIN jobs : SameJob(j),
           \A j \in DOMAIN jobs : jobs[j].document # d => jobs'[j].status = jobs[j].status,
           \A j \in DOMAIN jobs' \ DOMAIN jobs : jobs'[j].document = d,
           TableInvAt(d)'
    PROVE  TableInv'
<1>1. \A e \in DOMAIN documents : TableInvAt(e)
  BY TableInvByDocument
<1>2. \A j \in DOMAIN jobs' : jobs'[j].document \in DOMAIN documents'
  BY TableInvByDocument DEF SameJob
<1>3. ASSUME NEW e \in DOMAIN documents', e # d
      PROVE  TableInvAt(e)'
  <2>1. TableInvAt(e) /\ documents'[e] = documents[e]
    BY <1>1, <1>3
  <2>2. JobsOf(e)' = JobsOf(e)
    BY <1>3 DEF JobsOf, SameJob
  <2>3. \A j \in JobsOf(e) : /\ jobs'[j].status = jobs[j].status
                             /\ jobs'[j].document = e
                             /\ jobs[j].document = e
                             /\ SameJob(j)
    BY <1>3 DEF JobsOf, SameJob
  <2>4. \A j \in JobsOf(e) : IsActive(j)' <=> IsActive(j)
    BY <2>3 DEF IsActive
  <2>5. \A j \in JobsOf(e) : JobExplainsStatus(j)' <=> JobExplainsStatus(j)
    BY <2>1, <2>3 DEF JobExplainsStatus, SameJob
  <2>6. QED BY <2>1, <2>2, <2>3, <2>4, <2>5 DEF TableInvAt, SameJob
<1>4. \A e \in DOMAIN documents' : TableInvAt(e)'
  BY <1>3
<1>5. QED
  BY <1>2, <1>4 DEF TableInv, TableInvAt, AtMostOneActiveJob, ActiveJobIsCurrent,
     StatusMatchesActiveJob, JobsBelongToDocuments, NoJobAheadOfDocument,
         JobsOf, Live

-----------------------------------------------------------------------------
(* Claims.                                                                 *)

HoldsItsJob(c) == /\ c.job \in DOMAIN jobs
                  /\ jobs[c.job].document = c.document
                  /\ jobs[c.job].revision = c.revision

IndexerOK(c) == /\ HoldsItsJob(c)
                /\ jobs[c.job].kind = "document"
                /\ jobs[c.job].status \in {c.stage, "deleted"}

ExtractorOK(c) == /\ HoldsItsJob(c)
                  /\ jobs[c.job].kind = "memory"
                  /\ jobs[c.job].status \in {"extracting", "failed", "deleted"}
                  /\ Current(c) => jobs[c.job].status = "extracting"

OneHolder == \A a, b \in indexers \cup extractors : a.job = b.job => a = b

\* That a held job is not queued follows from what each claim knows of it.
LEMMA ClaimInvByClaim ==
    ASSUME TypeOK
    PROVE  ClaimInv <=> /\ \A c \in indexers : IndexerOK(c)
                        /\ \A c \in extractors : ExtractorOK(c)
                        /\ OneHolder
<1>1. \A c \in indexers : c.stage # "queued"
  BY DEF TypeOK, Indexer, Stages
<1>2. QED
  BY <1>1 DEF ClaimInv, NoDoubleClaim, ClaimsMatchJobs, IndexerOK, ExtractorOK,
     HoldsItsJob, OneHolder

LEMMA ClaimInvByClaimNext ==
    ASSUME TypeOK', \A c \in indexers' : IndexerOK(c)',
           \A c \in extractors' : ExtractorOK(c)', OneHolder'
    PROVE  ClaimInv'
<1>1. \A c \in indexers' : c.stage # "queued"
  BY DEF TypeOK, Indexer, Stages
<1>2. QED
  BY <1>1 DEF ClaimInv, NoDoubleClaim, ClaimsMatchJobs, IndexerOK, ExtractorOK,
     HoldsItsJob, OneHolder

\* What a claim a step does not use must find afterwards.
IndexerKept(c) == jobs'[c.job].status \in {jobs[c.job].status, "deleted"}

ExtractorKept(c) ==
    /\ jobs'[c.job].status \in {jobs[c.job].status, "failed", "deleted"}
    /\ Current(c)' => Current(c) /\ jobs'[c.job].status = jobs[c.job].status

\* A step that at most drops claims.
LEMMA KeptClaims ==
    ASSUME TypeOK, TypeOK', ClaimInv,
           indexers' \subseteq indexers, extractors' \subseteq extractors,
           DOMAIN jobs \subseteq DOMAIN jobs', \A j \in DOMAIN jobs : SameJob(j),
           \A c \in indexers' : IndexerKept(c),
           \A c \in extractors' : ExtractorKept(c)
    PROVE  ClaimInv'
<1>1. /\ \A c \in indexers : IndexerOK(c)
      /\ \A c \in extractors : ExtractorOK(c)
      /\ OneHolder
  BY ClaimInvByClaim
<1>2. \A c \in indexers' : IndexerOK(c)'
  BY <1>1 DEF IndexerOK, HoldsItsJob, SameJob, IndexerKept
<1>3. \A c \in extractors' : ExtractorOK(c)'
  BY <1>1 DEF ExtractorOK, HoldsItsJob, SameJob, ExtractorKept
<1>4. OneHolder'
  BY <1>1 DEF OneHolder
<1>5. QED BY <1>2, <1>3, <1>4, ClaimInvByClaimNext

\* A step that adds a claim, or puts one in the place of another.
LEMMA NewClaim ==
    ASSUME TypeOK, TypeOK', ClaimInv, NEW n,
           indexers' \subseteq indexers \cup {n}, extractors' \subseteq extractors \cup {n},
           DOMAIN jobs \subseteq DOMAIN jobs', \A j \in DOMAIN jobs : SameJob(j),
           \A c \in (indexers' \cup extractors') \ {n} : c.job # n.job,
           \A c \in indexers' \ {n} : IndexerKept(c),
           \A c \in extractors' \ {n} : ExtractorKept(c),
           n \in indexers' => IndexerOK(n)', n \in extractors' => ExtractorOK(n)'
    PROVE  ClaimInv'
<1>1. /\ \A c \in indexers : IndexerOK(c)
      /\ \A c \in extractors : ExtractorOK(c)
      /\ OneHolder
  BY ClaimInvByClaim
<1>2. \A c \in indexers' : IndexerOK(c)'
  BY <1>1 DEF IndexerOK, HoldsItsJob, SameJob, IndexerKept
<1>3. \A c \in extractors' : ExtractorOK(c)'
  BY <1>1 DEF ExtractorOK, HoldsItsJob, SameJob, ExtractorKept
<1>4. OneHolder'
  BY <1>1 DEF OneHolder
<1>5. QED BY <1>2, <1>3, <1>4, ClaimInvByClaimNext

-----------------------------------------------------------------------------
(* What an update leaves of a row.                                         *)

LEMMA Rows ==
    ASSUME TypeOK
    PROVE  /\ \A d \in DOMAIN documents : documents[d] \in Document
           /\ \A j \in DOMAIN jobs : jobs[j] \in Job
           /\ DOMAIN documents = 1 .. Len(documents) /\ Len(documents) \in Nat
           /\ DOMAIN jobs = 1 .. Len(jobs) /\ Len(jobs) \in Nat
  BY LenProperties DEF TypeOK

\* The claim in hand: its job is either still where the task left it, with the
\* document current, or gone with the document.
LEMMA IndexerClaim ==
    ASSUME IInv, NEW c \in indexers
    PROVE  /\ c.job \in DOMAIN jobs /\ c.document \in DOMAIN documents
           /\ jobs[c.job].document = c.document
           /\ jobs[c.job].revision = c.revision
           /\ jobs[c.job].kind = "document"
           /\ c.stage \in Stages
           /\ \/ /\ jobs[c.job].status = c.stage /\ IsActive(c.job) /\ Current(c)
                 /\ documents[c.document].status = c.stage
              \/ /\ jobs[c.job].status = "deleted"
                 /\ documents[c.document].status = "deleted" /\ ~Current(c)
<1>1. c.stage \in Stages /\ c.stage # "deleted"
  BY DEF IInv, TypeOK, Indexer, Stages
<1>2. IndexerOK(c)
  BY ClaimInvByClaim DEF IInv, QueueInv
<1>3. /\ \A d \in DOMAIN documents : TableInvAt(d)
      /\ \A j \in DOMAIN jobs : jobs[j].document \in DOMAIN documents
  BY TableInvByDocument DEF IInv, QueueInv
<1>4. c.job \in JobsOf(c.document) /\ TableInvAt(c.document)
  BY <1>2, <1>3 DEF IndexerOK, HoldsItsJob, JobsOf
<1>5. CASE jobs[c.job].status = c.stage
  <2>1. IsActive(c.job)
    BY <1>1, <1>5 DEF IsActive, ActiveStates
  <2>2. QED
    BY <1>1, <1>2, <1>3, <1>4, <1>5, <2>1
       DEF TableInvAt, IndexerOK, HoldsItsJob, JobExplainsStatus, Current, Live
<1>6. CASE jobs[c.job].status = "deleted"
  BY <1>1, <1>2, <1>3, <1>4, <1>6
     DEF TableInvAt, IndexerOK, HoldsItsJob, Current, Live
<1>7. QED BY <1>2, <1>5, <1>6 DEF IndexerOK

\* Likewise for a memory task, whose job may also have failed meanwhile.
LEMMA ExtractorClaim ==
    ASSUME IInv, NEW c \in extractors
    PROVE  /\ c.job \in DOMAIN jobs /\ c.document \in DOMAIN documents
           /\ jobs[c.job].document = c.document
           /\ jobs[c.job].revision = c.revision
           /\ jobs[c.job].kind = "memory"
           /\ \/ /\ jobs[c.job].status = "extracting" /\ IsActive(c.job) /\ Current(c)
                 /\ documents[c.document].status = "indexing"
              \/ /\ jobs[c.job].status \in {"failed", "deleted"}
                 /\ ~IsActive(c.job) /\ ~Current(c)
<1>1. ExtractorOK(c)
  BY ClaimInvByClaim DEF IInv, QueueInv
<1>2. /\ \A d \in DOMAIN documents : TableInvAt(d)
      /\ \A j \in DOMAIN jobs : jobs[j].document \in DOMAIN documents
  BY TableInvByDocument DEF IInv, QueueInv
<1>3. c.job \in JobsOf(c.document) /\ TableInvAt(c.document)
  BY <1>1, <1>2 DEF ExtractorOK, HoldsItsJob, JobsOf
<1>4. CASE jobs[c.job].status = "extracting"
  <2>1. IsActive(c.job)
    BY <1>4 DEF IsActive, ActiveStates, Stages
  <2>2. QED
    BY <1>1, <1>2, <1>3, <1>4, <2>1
       DEF TableInvAt, ExtractorOK, HoldsItsJob, JobExplainsStatus, Current, Live
<1>5. CASE jobs[c.job].status # "extracting"
  <2>1. jobs[c.job].status \in {"failed", "deleted"} /\ ~Current(c)
    BY <1>1, <1>5 DEF ExtractorOK
  <2>2. ~IsActive(c.job)
    BY <2>1 DEF IsActive, ActiveStates, Stages
  <2>3. QED BY <1>1, <1>2, <2>1, <2>2 DEF ExtractorOK, HoldsItsJob
<1>6. QED BY <1>4, <1>5

-----------------------------------------------------------------------------
(* Steps that move one active job and the document it is for.              *)

LEMMA StatusStep ==
    ASSUME IInv, NEW j \in DOMAIN jobs, NEW d, d = jobs[j].document, IsActive(j),
           DOMAIN documents' = DOMAIN documents, DOMAIN jobs' = DOMAIN jobs,
           \A i \in DOMAIN jobs : SameJob(i),
           \A i \in DOMAIN jobs \ {j} : jobs'[i].status = jobs[i].status,
           \A e \in DOMAIN documents \ {d} : documents'[e] = documents[e],
           documents'[d].revision = documents[d].revision,
           \/ /\ IsActive(j)' /\ JobExplainsStatus(j)'
              /\ documents'[d].status # "deleted"
           \/ /\ jobs'[j].status \in {"done", "failed"}
              /\ documents'[d].status \in {"done", "failed"}
    PROVE  TableInv'
<1>1. /\ d \in DOMAIN documents /\ j \in JobsOf(d)
      /\ TableInvAt(d) /\ TableInv
  BY TableInvByDocument DEF IInv, QueueInv, JobsOf
<1>2. documents[d].status # "deleted" /\ jobs[j].revision = documents[d].revision
  BY <1>1 DEF TableInvAt
<1>3. JobsOf(d)' = JobsOf(d)
  BY DEF JobsOf, SameJob
<1>4. \A i \in JobsOf(d) \ {j} : ~IsActive(i)
  BY <1>1 DEF TableInvAt
<1>5. \A i \in JobsOf(d) \ {j} : ~IsActive(i)' /\ jobs'[i].status = jobs[i].status
  BY <1>4 DEF IsActive, JobsOf
<1>6. \A i \in JobsOf(d) : jobs[i].status # "deleted"
  BY <1>1, <1>2 DEF TableInvAt
<1>r. \A i \in JobsOf(d) : jobs'[i].revision <= documents'[d].revision
  BY <1>1 DEF TableInvAt, JobsOf, SameJob
<1>7. TableInvAt(d)'
  <2>1. CASE /\ IsActive(j)' /\ JobExplainsStatus(j)'
             /\ documents'[d].status # "deleted"
    <3>1. jobs'[j].status # "deleted"
      BY <2>1 DEF IsActive, ActiveStates, Stages
    <3>2. QED
      BY <1>1, <1>2, <1>3, <1>5, <1>6, <1>r, <2>1, <3>1 DEF TableInvAt, SameJob
  <2>2. CASE /\ jobs'[j].status \in {"done", "failed"}
             /\ documents'[d].status \in {"done", "failed"}
    <3>1. ~IsActive(j)' /\ documents'[d].status \notin ActiveStates
      BY <2>2 DEF IsActive, ActiveStates, Stages
    <3>2. QED
      BY <1>1, <1>3, <1>5, <1>6, <1>r, <2>2, <3>1 DEF TableInvAt
  <2>3. QED BY <2>1, <2>2
<1>8. QED BY <1>1, <1>7, OneDocumentStep DEF JobsOf

\* Rewriting one job row, its document, kind and revision apart.
LEMMA JobRow ==
    ASSUME TypeOK, NEW j \in DOMAIN jobs, NEW row,
           row.document = jobs[j].document, row.kind = jobs[j].kind,
           row.revision = jobs[j].revision, jobs' = [jobs EXCEPT ![j] = row]
    PROVE  /\ DOMAIN jobs' = DOMAIN jobs /\ jobs'[j] = row
           /\ \A i \in DOMAIN jobs : SameJob(i)
           /\ \A i \in DOMAIN jobs \ {j} : jobs'[i] = jobs[i]
  BY Rows DEF SameJob

LEMMA JobStatusRow ==
    ASSUME TypeOK, NEW j \in DOMAIN jobs, NEW status,
           jobs' = [jobs EXCEPT ![j].status = status]
    PROVE  /\ DOMAIN jobs' = DOMAIN jobs /\ jobs'[j].status = status
           /\ \A i \in DOMAIN jobs : SameJob(i)
           /\ \A i \in DOMAIN jobs \ {j} : jobs'[i] = jobs[i]
  BY Rows DEF SameJob, Job

LEMMA DocumentStatusRow ==
    ASSUME TypeOK, NEW d \in DOMAIN documents, NEW status,
           documents' = [documents EXCEPT ![d].status = status]
    PROVE  /\ DOMAIN documents' = DOMAIN documents
           /\ documents'[d].status = status
           /\ documents'[d].revision = documents[d].revision
           /\ \A e \in DOMAIN documents \ {d} : documents'[e] = documents[e]
  BY Rows DEF Document

LEMMA ClaimJobInv ==
    ASSUME IInv, TypeOK', ClaimJob
    PROVE  QueueInv'
<1> USE DEF IInv
<1>1. PICK j \in DOMAIN jobs :
        /\ Oldest(j, Claimable("document"))
        /\ jobs' = [jobs EXCEPT ![j].status = "extracting",
                                ![j].attempts = jobs[j].attempts + 1]
        /\ documents' = [documents EXCEPT ![jobs[j].document].status = "extracting"]
        /\ indexers' = indexers \cup
              {[job |-> j, document |-> jobs[j].document,
                revision |-> jobs[j].revision,
                content |-> documents[jobs[j].document].content,
                stage |-> "extracting"]}
        /\ UNCHANGED <<extractors, restarts>>
  BY DEF ClaimJob
<1> DEFINE d == jobs[j].document
<1>n. PICK n : n = [job |-> j, document |-> d, revision |-> jobs[j].revision,
                    content |-> documents[d].content, stage |-> "extracting"]
  OBVIOUS
<1>2. /\ jobs[j].status = "queued" /\ jobs[j].kind = "document"
      /\ Live(d) /\ d \in DOMAIN documents
      /\ jobs[j].revision = documents[d].revision
  BY <1>1 DEF Oldest, Claimable, Live
<1>3. /\ DOMAIN jobs' = DOMAIN jobs /\ jobs'[j].status = "extracting"
      /\ \A i \in DOMAIN jobs : SameJob(i)
      /\ \A i \in DOMAIN jobs \ {j} : jobs'[i] = jobs[i]
  <2>1. jobs[j] \in Job
    BY Rows
  <2>2. jobs' = [jobs EXCEPT ![j] = [jobs[j] EXCEPT !.status = "extracting",
                                       !.attempts = jobs[j].attempts + 1]]
    BY <1>1, <2>1 DEF Job
  <2>3. QED BY <2>1, <2>2, JobRow DEF Job
<1>4. /\ DOMAIN documents' = DOMAIN documents
      /\ documents'[d].status = "extracting"
      /\ documents'[d].revision = documents[d].revision
      /\ \A e \in DOMAIN documents \ {d} : documents'[e] = documents[e]
  BY <1>1, <1>2, DocumentStatusRow
<1>5. IsActive(j) /\ IsActive(j)'
  BY <1>2, <1>3 DEF IsActive, ActiveStates, Stages
<1>6. TableInv'
  <2>1. JobExplainsStatus(j)'
    BY <1>2, <1>3, <1>4 DEF JobExplainsStatus, SameJob
  <2>2. QED BY <1>3, <1>4, <1>5, <2>1, StatusStep
<1>7. \A c \in indexers \cup extractors : c.job # j
  BY <1>2 DEF QueueInv, ClaimInv, NoDoubleClaim
<1>8. ClaimInv'
  <2>1. \A c \in indexers : IndexerKept(c)
    <3>1. \A c \in indexers : c.job \in DOMAIN jobs
      BY IndexerClaim
    <3>2. QED BY <1>3, <1>7, <3>1 DEF IndexerKept
  <2>2. \A c \in extractors : ExtractorKept(c)
    <3>1. \A c \in extractors : Current(c)' <=> Current(c)
      <4>1. documents[d].status # "deleted" /\ documents'[d].status # "deleted"
        BY <1>2, <1>4 DEF Live
      <4>2. QED BY <1>4, <4>1 DEF Current, Live
    <3>2. \A c \in extractors : c.job \in DOMAIN jobs
      BY ExtractorClaim
    <3>3. QED BY <1>3, <1>7, <3>1, <3>2 DEF ExtractorKept
  <2>3. IndexerOK(n)'
    BY <1>n, <1>2, <1>3 DEF IndexerOK, HoldsItsJob, SameJob
  <2>4. n \notin extractors
    BY <1>n, <1>7
  <2>5. QED
    <3>1. n.job = j
      BY <1>n
    <3>2. indexers' = indexers \cup {n} /\ extractors' = extractors
      BY <1>1, <1>n
    <3>3. /\ TypeOK /\ ClaimInv
          /\ indexers' \subseteq indexers \cup {n}
          /\ extractors' \subseteq extractors \cup {n}
      BY <3>2 DEF QueueInv
    <3>4. /\ \A c \in (indexers' \cup extractors') \ {n} : c.job # n.job
          /\ \A c \in indexers' \ {n} : IndexerKept(c)
          /\ \A c \in extractors' \ {n} : ExtractorKept(c)
          /\ n \in extractors' => ExtractorOK(n)'
      BY <1>7, <2>1, <2>2, <2>4, <3>1, <3>2
    <3>5. QED BY <1>3, <2>3, <3>3, <3>4, NewClaim
<1>9. QED BY <1>6, <1>8 DEF QueueInv

\* Which claims are current does not change while no document gets a new
\* revision or goes.
LEMMA CurrentUnmoved ==
    ASSUME NEW d \in DOMAIN documents, DOMAIN documents' = DOMAIN documents,
           documents[d].status # "deleted", documents'[d].status # "deleted",
           documents'[d].revision = documents[d].revision,
           \A e \in DOMAIN documents \ {d} : documents'[e] = documents[e]
    PROVE  \A c : Current(c)' <=> Current(c)
  BY DEF Current, Live

\* Claims on other jobs than the one a task works on.
LEMMA OthersKept ==
    ASSUME IInv, NEW j, \A i \in DOMAIN jobs \ {j} : jobs'[i] = jobs[i],
           \A c : Current(c)' <=> Current(c)
    PROVE  /\ \A c \in indexers : c.job # j => IndexerKept(c)
           /\ \A c \in extractors : c.job # j => ExtractorKept(c)
<1>1. \A c \in indexers \cup extractors : c.job \in DOMAIN jobs
  BY IndexerClaim, ExtractorClaim
<1>2. QED BY <1>1 DEF IndexerKept, ExtractorKept

\* No other task holds the job of claim c.
LEMMA SoleHolder ==
    ASSUME IInv, NEW c \in indexers \cup extractors
    PROVE  /\ \A b \in (indexers \cup extractors) \ {c} : b.job # c.job
           /\ ~(c \in indexers /\ c \in extractors)
<1>1. \A b \in (indexers \cup extractors) \ {c} : b.job # c.job
  BY DEF IInv, QueueInv, ClaimInv, NoDoubleClaim
<1>2. ~(c \in indexers /\ c \in extractors)
  BY IndexerClaim, ExtractorClaim
<1>3. QED BY <1>1, <1>2

\* A task that ends without a call leaves the tables alone.
LEMMA DroppedClaims ==
    ASSUME IInv, UNCHANGED <<documents, jobs>>,
           indexers' \subseteq indexers, extractors' \subseteq extractors
    PROVE  QueueInv'
  BY DEF IInv, QueueInv, TableInv, ClaimInv, AtMostOneActiveJob, ActiveJobIsCurrent,
     StatusMatchesActiveJob, JobsBelongToDocuments, NoJobAheadOfDocument, NoDoubleClaim, ClaimsMatchJobs,
     IsActive, Live, Current, JobExplainsStatus

LEMMA ClaimMemoryJobInv ==
    ASSUME IInv, TypeOK', ClaimMemoryJob
    PROVE  QueueInv'
<1> USE DEF IInv
<1>1. PICK j \in DOMAIN jobs :
        /\ Oldest(j, Claimable("memory"))
        /\ jobs' = [jobs EXCEPT ![j].status = "extracting",
                                ![j].attempts = jobs[j].attempts + 1]
        /\ extractors' = extractors \cup
              {[job |-> j, document |-> jobs[j].document,
                revision |-> jobs[j].revision,
                content |-> documents[jobs[j].document].content,
                attempts |-> jobs[j].attempts + 1,
                result |-> jobs[j].cached, superseded |-> FALSE]}
        /\ UNCHANGED <<documents, indexers, restarts>>
  BY DEF ClaimMemoryJob
<1> DEFINE d == jobs[j].document
<1>n. PICK n : n = [job |-> j, document |-> d, revision |-> jobs[j].revision,
                    content |-> documents[d].content,
                    attempts |-> jobs[j].attempts + 1,
                    result |-> jobs[j].cached, superseded |-> FALSE]
  OBVIOUS
<1>2. /\ jobs[j].status = "queued" /\ jobs[j].kind = "memory"
      /\ d \in DOMAIN documents /\ documents[d].status # "deleted"
      /\ jobs[j].revision = documents[d].revision
  BY <1>1 DEF Oldest, Claimable, Live
<1>3. /\ DOMAIN jobs' = DOMAIN jobs /\ jobs'[j].status = "extracting"
      /\ \A i \in DOMAIN jobs : SameJob(i)
      /\ \A i \in DOMAIN jobs \ {j} : jobs'[i] = jobs[i]
  <2>1. jobs[j] \in Job
    BY Rows
  <2>2. jobs' = [jobs EXCEPT ![j] = [jobs[j] EXCEPT !.status = "extracting",
                                       !.attempts = jobs[j].attempts + 1]]
    BY <1>1, <2>1 DEF Job
  <2>3. QED BY <2>1, <2>2, JobRow DEF Job
<1>4. IsActive(j) /\ IsActive(j)'
  BY <1>2, <1>3 DEF IsActive, ActiveStates, Stages
<1>5. TableInv'
  <2>1. JobExplainsStatus(j)
    BY <1>4 DEF QueueInv, TableInv, StatusMatchesActiveJob
  <2>2. JobExplainsStatus(j)'
    BY <1>1, <1>2, <1>3, <2>1 DEF JobExplainsStatus, SameJob
  <2>3. QED BY <1>1, <1>2, <1>3, <1>4, <2>2, StatusStep
<1>6. \A c \in indexers \cup extractors : c.job # j
  BY <1>2 DEF QueueInv, ClaimInv, NoDoubleClaim
<1>7. \A c : Current(c)' <=> Current(c)
  BY <1>1 DEF Current, Live
<1>8. ClaimInv'
  <2>1. ExtractorOK(n)'
    BY <1>n, <1>2, <1>3 DEF ExtractorOK, HoldsItsJob, SameJob
  <2>2. /\ TypeOK /\ ClaimInv
        /\ indexers' \subseteq indexers \cup {n}
        /\ extractors' \subseteq extractors \cup {n}
    BY <1>1, <1>n DEF QueueInv
  <2>3. /\ \A c \in indexers : IndexerKept(c)
        /\ \A c \in extractors : ExtractorKept(c)
    BY <1>3, <1>6, <1>7, OthersKept
  <2>4. /\ n \notin indexers'
        /\ \A c \in (indexers' \cup extractors') \ {n} : c.job # n.job
    BY <1>1, <1>n, <1>6
  <2>5. QED BY <1>3, <2>1, <2>2, <2>3, <2>4, NewClaim
<1>9. QED BY <1>5, <1>8 DEF QueueInv

-----------------------------------------------------------------------------
(* The steps of an indexing task.                                          *)

LEMMA MarkJobStageInv ==
    ASSUME IInv, TypeOK', NEW c \in indexers, MarkJobStage(c)
    PROVE  QueueInv'
<1> USE DEF IInv
<1>1. /\ c.job \in DOMAIN jobs /\ c.document \in DOMAIN documents
      /\ jobs[c.job].document = c.document /\ jobs[c.job].revision = c.revision
      /\ jobs[c.job].kind = "document"
      /\ Current(c) => IsActive(c.job)
  BY IndexerClaim
<1>2. CASE jobs[c.job].status = c.stage /\ Current(c)
  <2>1. PICK stage \in Stages :
          /\ jobs' = [jobs EXCEPT ![c.job].status = stage]
          /\ documents' = [documents EXCEPT ![c.document].status = stage]
          /\ indexers' = (indexers \ {c}) \cup {[c EXCEPT !.stage = stage]}
          /\ extractors' = extractors
    <3>1. Successor[c.stage] \in Stages
      BY DEF MarkJobStage, MayAdvance, Successor, Stages
    <3>2. QED BY <1>2, <3>1 DEF MarkJobStage
  <2>2. PICK n : n = [c EXCEPT !.stage = stage]
    OBVIOUS
  <2>3. /\ n.job = c.job /\ n.document = c.document
        /\ n.revision = c.revision /\ n.stage = stage
    BY <2>2 DEF TypeOK, Indexer
  <2>4. /\ DOMAIN jobs' = DOMAIN jobs /\ jobs'[c.job].status = stage
        /\ \A i \in DOMAIN jobs : SameJob(i)
        /\ \A i \in DOMAIN jobs \ {c.job} : jobs'[i] = jobs[i]
    BY <1>1, <2>1, JobStatusRow
  <2>5. /\ DOMAIN documents' = DOMAIN documents
        /\ documents'[c.document].status = stage
        /\ documents'[c.document].revision = documents[c.document].revision
        /\ \A e \in DOMAIN documents \ {c.document} : documents'[e] = documents[e]
    BY <1>1, <2>1, DocumentStatusRow
  <2>6. stage # "deleted" /\ stage \in ActiveStates
    BY <2>1 DEF Stages, ActiveStates
  <2>7. TableInv'
    <3>1. IsActive(c.job) /\ IsActive(c.job)'
      BY <1>1, <1>2, <2>4, <2>6 DEF IsActive
    <3>2. JobExplainsStatus(c.job)'
      BY <1>1, <2>4, <2>5 DEF JobExplainsStatus, SameJob
    <3>3. QED BY <1>1, <2>4, <2>5, <2>6, <3>1, <3>2, StatusStep
  <2>8. \A b : Current(b)' <=> Current(b)
    <3>1. documents[c.document].status # "deleted"
      BY <1>2 DEF Current, Live
    <3>2. QED BY <1>1, <2>5, <2>6, <3>1, CurrentUnmoved
  <2>9. ClaimInv'
    <3>1. IndexerOK(n)'
      BY <1>1, <2>3, <2>4 DEF IndexerOK, HoldsItsJob, SameJob
    <3>2. /\ TypeOK /\ ClaimInv
          /\ indexers' \subseteq indexers \cup {n}
          /\ extractors' \subseteq extractors \cup {n}
      BY <2>1, <2>2 DEF QueueInv
    <3>3. /\ \A b \in (indexers' \cup extractors') \ {n} :
                b \in (indexers \cup extractors) \ {c} /\ b.job # n.job
          /\ n \notin extractors'
      BY <2>1, <2>2, <2>3, SoleHolder
    <3>4. /\ \A b \in indexers' \ {n} : IndexerKept(b)
          /\ \A b \in extractors' \ {n} : ExtractorKept(b)
      BY <2>1, <2>2, <2>3, <2>4, <2>8, <3>3, OthersKept
    <3>5. QED BY <2>4, <3>1, <3>2, <3>3, <3>4, NewClaim
  <2>10. QED BY <2>7, <2>9 DEF QueueInv
<1>3. CASE ~(jobs[c.job].status = c.stage /\ Current(c))
  BY <1>3, DroppedClaims DEF MarkJobStage
<1>4. QED BY <1>2, <1>3

\* A task that finishes or fails its active job lets go of its claim.
LEMMA SettledJob ==
    ASSUME IInv, TypeOK', NEW c \in indexers \cup extractors,
           IsActive(c.job), Current(c),
           DOMAIN documents' = DOMAIN documents, DOMAIN jobs' = DOMAIN jobs,
           \A i \in DOMAIN jobs : SameJob(i),
           \A i \in DOMAIN jobs \ {c.job} : jobs'[i] = jobs[i],
           \A e \in DOMAIN documents \ {c.document} : documents'[e] = documents[e],
           documents'[c.document].revision = documents[c.document].revision,
           jobs'[c.job].status \in {"done", "failed"},
           documents'[c.document].status \in {"done", "failed"},
           indexers' = indexers \ {c}, extractors' = extractors \ {c}
    PROVE  QueueInv'
<1>1. /\ c.job \in DOMAIN jobs /\ c.document \in DOMAIN documents
      /\ jobs[c.job].document = c.document
  BY IndexerClaim, ExtractorClaim
<1>2. TableInv'
  BY <1>1, StatusStep
<1>3. \A b : Current(b)' <=> Current(b)
  <2>1. documents[c.document].status # "deleted" /\ documents'[c.document].status # "deleted"
    BY DEF Current, Live
  <2>2. QED BY <1>1, <2>1, CurrentUnmoved
<1>4. /\ \A b \in indexers' : IndexerKept(b)
      /\ \A b \in extractors' : ExtractorKept(b)
  <2>1. \A b \in indexers' \cup extractors' : b.job # c.job
    BY SoleHolder
  <2>2. QED BY <1>3, <2>1, OthersKept
<1>5. TypeOK /\ ClaimInv
  BY DEF IInv, QueueInv
<1>6. ClaimInv'
  BY <1>4, <1>5, KeptClaims
<1>7. QED BY <1>2, <1>6 DEF QueueInv

LEMMA PublishJobInv ==
    ASSUME IInv, TypeOK', NEW c \in indexers, NEW mode \in Modes, PublishJob(c, mode)
    PROVE  QueueInv'
<1> USE DEF IInv
<1>1. /\ c.job \in DOMAIN jobs /\ c.document \in DOMAIN documents
      /\ jobs[c.job].document = c.document /\ jobs[c.job].revision = c.revision
      /\ jobs[c.job].kind = "document" /\ c.stage \in Stages
      /\ Current(c) => IsActive(c.job) /\ jobs[c.job].status = c.stage
  BY IndexerClaim
<1>2. c \notin extractors
  BY SoleHolder
<1>3. CASE ~Current(c)
  BY <1>3, DroppedClaims DEF PublishJob
<1>4. CASE Current(c)
  <2> DEFINE d == c.document
  <2>1. FinishJob(c) = [jobs EXCEPT ![c.job].status = "done"]
    BY <1>1, <1>4 DEF FinishJob
  <2>2. /\ DOMAIN documents' = DOMAIN documents
        /\ documents'[d].status = IF mode = "memories" THEN "indexing" ELSE "done"
        /\ documents'[d].revision = documents[d].revision
        /\ \A e \in DOMAIN documents \ {d} : documents'[e] = documents[e]
    <3> DEFINE status == IF mode = "memories" THEN "indexing" ELSE "done"
               row == [documents[d] EXCEPT !.chunks = c.content, !.status = status]
    <3>1. documents[d] \in Document
      BY <1>1, Rows
    <3>2. documents' = [documents EXCEPT ![d] = row]
      BY <1>1, <1>4, <3>1 DEF PublishJob, Document
    <3>3. row.status = status /\ row.revision = documents[d].revision
      BY <3>1 DEF Document
    <3> HIDE DEF row
    <3>4. QED BY <1>1, <3>2, <3>3
  <2>3. /\ indexers' = indexers \ {c} /\ extractors' = extractors \ {c}
    BY <1>2 DEF PublishJob
  <2>4. CASE mode # "memories"
    <3>1. jobs' = [jobs EXCEPT ![c.job].status = "done"]
      BY <1>4, <2>1, <2>4 DEF PublishJob
    <3>2. /\ DOMAIN jobs' = DOMAIN jobs /\ jobs'[c.job].status = "done"
          /\ \A i \in DOMAIN jobs : SameJob(i)
          /\ \A i \in DOMAIN jobs \ {c.job} : jobs'[i] = jobs[i]
      BY <1>1, <3>1, JobStatusRow
    <3>3. QED BY <1>1, <1>4, <2>2, <2>3, <2>4, <3>2, SettledJob
  <2>5. CASE mode = "memories"
    <3>n. PICK n : n = Len(jobs) + 1
      OBVIOUS
    <3>1. jobs' = Append([jobs EXCEPT ![c.job].status = "done"],
                         NewJob(d, "memory", c.revision))
      BY <1>4, <2>1, <2>5 DEF PublishJob
    <3>2. /\ DOMAIN jobs' = DOMAIN jobs \cup {n} /\ n \notin DOMAIN jobs
          /\ jobs'[n] = NewJob(d, "memory", c.revision)
          /\ jobs'[c.job].status = "done"
          /\ \A i \in DOMAIN jobs : SameJob(i)
          /\ \A i \in DOMAIN jobs \ {c.job} : jobs'[i] = jobs[i]
      <4> DEFINE T == [jobs EXCEPT ![c.job].status = "done"]
      <4>1. T \in Seq(Job) /\ DOMAIN T = DOMAIN jobs /\ Len(T) = Len(jobs)
        <5>1. T \in Seq(Job)
          BY JobStatusTyped DEF JobStates
        <5>2. DOMAIN T = DOMAIN jobs
          OBVIOUS
        <5>3. QED BY <5>1, <5>2, Rows, LenProperties
      <4>2. NewJob(d, "memory", c.revision) \in Job
        BY <1>1, <1>4, Rows DEF NewJob, Job, Published, JobStates, ActiveStates
      <4>3. /\ DOMAIN jobs' = 1 .. Len(jobs) + 1
            /\ \A i \in DOMAIN jobs : jobs'[i] = T[i]
            /\ jobs'[n] = NewJob(d, "memory", c.revision)
        BY <3>n, <3>1, <4>1, <4>2, InsertedRow
      <4>4. /\ T[c.job].status = "done"
            /\ T[c.job].document = jobs[c.job].document
            /\ T[c.job].kind = jobs[c.job].kind
            /\ T[c.job].revision = jobs[c.job].revision
            /\ \A i \in DOMAIN jobs \ {c.job} : T[i] = jobs[i]
        BY <1>1, Rows DEF Job
      <4> HIDE DEF T
      <4>5. DOMAIN jobs' = DOMAIN jobs \cup {n} /\ n \notin DOMAIN jobs
        BY <3>n, <4>3, Rows
      <4>6. QED BY <1>1, <4>3, <4>4, <4>5 DEF SameJob
    <3>3. /\ jobs'[n].document = d /\ jobs'[n].kind = "memory"
          /\ jobs'[n].status = "queued" /\ jobs'[n].revision = c.revision
      BY <3>2 DEF NewJob
    <3>4. TableInv'
      <4>1. TableInv /\ TableInvAt(d) /\ documents[d].revision = c.revision
            /\ documents[d].status # "deleted"
        BY <1>1, <1>4, TableInvByDocument DEF QueueInv, Current, Live
      <4>2. JobsOf(d)' = JobsOf(d) \cup {n}
        BY <3>2, <3>3 DEF JobsOf, SameJob
      <4>3. \A i \in JobsOf(d) : ~IsActive(i)' /\ jobs'[i].status # "deleted"
        <5>1. \A i \in JobsOf(d) \ {c.job} : ~IsActive(i) /\ jobs[i].status # "deleted"
          BY <1>1, <1>4, <4>1 DEF TableInvAt, JobsOf
        <5>2. QED BY <3>2, <5>1 DEF IsActive, ActiveStates, Stages, JobsOf
      <4>4. IsActive(n)' /\ JobExplainsStatus(n)'
        BY <2>2, <2>5, <3>3 DEF IsActive, ActiveStates, JobExplainsStatus
      <4>5. TableInvAt(d)'
        <5>1. c.revision <= documents'[d].revision
          BY <1>1, <2>2, <4>1, Rows DEF Document
        <5>2. \A i \in JobsOf(d) : jobs'[i].revision <= documents'[d].revision
          BY <2>2, <3>2, <4>1 DEF TableInvAt, JobsOf, SameJob
        <5>3. QED
          BY <2>2, <2>5, <3>3, <4>1, <4>2, <4>3, <4>4, <5>1, <5>2 DEF TableInvAt
      <4>6. QED BY <1>1, <2>2, <3>2, <3>3, <4>1, <4>5, OneDocumentStep
    <3>5. \A b : Current(b)' <=> Current(b)
      <4>1. documents[d].status # "deleted" /\ documents'[d].status # "deleted"
        BY <1>4, <2>2 DEF Current, Live
      <4>2. QED BY <1>1, <2>2, <4>1, CurrentUnmoved
    <3>6. /\ \A b \in indexers' : IndexerKept(b)
          /\ \A b \in extractors' : ExtractorKept(b)
      <4>1. \A b \in indexers' \cup extractors' : b.job # c.job
        BY <2>3, SoleHolder
      <4>2. QED BY <2>3, <3>2, <3>5, <4>1, OthersKept
    <3>7. ClaimInv'
      BY <2>3, <3>2, <3>6, KeptClaims DEF QueueInv
    <3>8. QED BY <3>4, <3>7 DEF QueueInv
  <2>6. QED BY <2>4, <2>5
<1>5. QED BY <1>3, <1>4

LEMMA FailJobInv ==
    ASSUME IInv, TypeOK', NEW c \in indexers, FailJob(c)
    PROVE  QueueInv'
<1> USE DEF IInv
<1>1. /\ c.job \in DOMAIN jobs /\ c.document \in DOMAIN documents
      /\ c.stage \in Stages
      /\ \/ jobs[c.job].status = c.stage /\ IsActive(c.job) /\ Current(c)
         \/ jobs[c.job].status = "deleted" /\ ~Current(c)
  BY IndexerClaim
<1>2. c.stage # "deleted" /\ c \notin extractors
  BY <1>1, SoleHolder DEF Stages
<1>3. CASE ~Current(c)
  BY <1>1, <1>3, DroppedClaims DEF FailJob
<1>4. CASE Current(c)
  <2>1. /\ jobs' = [jobs EXCEPT ![c.job].status = "failed"]
        /\ documents' = [documents EXCEPT ![c.document].status = "failed"]
        /\ indexers' = indexers \ {c} /\ extractors' = extractors \ {c}
    BY <1>1, <1>2, <1>4 DEF FailJob
  <2>2. /\ DOMAIN jobs' = DOMAIN jobs /\ jobs'[c.job].status = "failed"
        /\ \A i \in DOMAIN jobs : SameJob(i)
        /\ \A i \in DOMAIN jobs \ {c.job} : jobs'[i] = jobs[i]
    BY <1>1, <2>1, JobStatusRow
  <2>3. /\ DOMAIN documents' = DOMAIN documents
        /\ documents'[c.document].status = "failed"
        /\ documents'[c.document].revision = documents[c.document].revision
        /\ \A e \in DOMAIN documents \ {c.document} : documents'[e] = documents[e]
    BY <1>1, <2>1, DocumentStatusRow
  <2>4. QED BY <1>1, <1>2, <1>4, <2>1, <2>2, <2>3, SettledJob
<1>5. QED BY <1>3, <1>4

-----------------------------------------------------------------------------
(* Submissions and deletions.                                              *)

LEMMA DeleteRowInv ==
    ASSUME IInv, TypeOK', NEW d \in DOMAIN documents, DeleteRow(d),
           indexers' \subseteq indexers, extractors' \subseteq extractors
    PROVE  QueueInv'
<1> USE DEF IInv
<1>1. /\ DOMAIN documents' = DOMAIN documents
      /\ documents'[d].status = "deleted"
      /\ documents'[d].revision = documents[d].revision
      /\ \A e \in DOMAIN documents \ {d} : documents'[e] = documents[e]
  BY DocumentStatusRow DEF DeleteRow
<1>2. /\ DOMAIN jobs' = DOMAIN jobs
      /\ \A j \in DOMAIN jobs : SameJob(j)
      /\ \A j \in DOMAIN jobs :
            jobs'[j].status = IF jobs[j].document = d THEN "deleted" ELSE jobs[j].status
  <2>1. \A j \in DOMAIN jobs : jobs[j] \in Job
    BY Rows
  <2>2. QED BY <2>1 DEF DeleteRow, WithoutDocument, SameJob, Job
<1>3. TableInv'
  <2>1. TableInvAt(d)'
    <3>1. \A j \in JobsOf(d)' : jobs'[j].status = "deleted"
      BY <1>2 DEF JobsOf, SameJob
    <3>2. \A j \in JobsOf(d)' : ~IsActive(j)'
      BY <3>1 DEF IsActive, ActiveStates, Stages
    <3>3. documents'[d].status \notin ActiveStates
      BY <1>1 DEF ActiveStates, Stages
    <3>4. \A j \in JobsOf(d)' : jobs'[j].revision <= documents'[d].revision
      <4>1. TableInvAt(d)
        BY TableInvByDocument DEF QueueInv
      <4>2. QED BY <1>1, <1>2, <4>1 DEF TableInvAt, JobsOf, SameJob
    <3>5. QED BY <1>1, <3>2, <3>3, <3>4 DEF TableInvAt
  <2>2. TableInv
    BY DEF QueueInv
  <2>3. QED BY <1>1, <1>2, <2>1, <2>2, OneDocumentStep
<1>4. ClaimInv'
  <2>1. \A c \in indexers : IndexerKept(c)
    BY <1>2, IndexerClaim DEF IndexerKept
  <2>2. \A c \in extractors : ExtractorKept(c)
    <3> TAKE c \in extractors
    <3>1. c.job \in DOMAIN jobs /\ jobs[c.job].document = c.document
      BY ExtractorClaim
    <3>2. Current(c)' => c.document # d
      BY <1>1 DEF Current, Live
    <3>3. Current(c)' => Current(c)
      BY <1>1, <3>2 DEF Current, Live
    <3>4. QED BY <1>2, <3>1, <3>2, <3>3 DEF ExtractorKept
  <2>3. QED BY <1>2, <2>1, <2>2, KeptClaims DEF QueueInv
<1>5. QED BY <1>3, <1>4 DEF QueueInv

LEMMA DeleteEmptyDocumentInv ==
    ASSUME IInv, TypeOK', NEW c \in indexers, DeleteEmptyDocument(c)
    PROVE  QueueInv'
<1>1. c.document \in DOMAIN documents
  BY IndexerClaim
<1>2. indexers' \subseteq indexers /\ extractors' \subseteq extractors
  BY DEF DeleteEmptyDocument
<1>3. CASE DeleteRow(c.document)
  BY <1>1, <1>2, <1>3, DeleteRowInv
<1>4. CASE UNCHANGED <<documents, jobs>>
  BY <1>2, <1>4, DroppedClaims
<1>5. QED BY <1>3, <1>4 DEF DeleteEmptyDocument

LEMMA InsertNewInv ==
    ASSUME IInv, TypeOK', NEW id, NEW body, InsertNew(id, body)
    PROVE  QueueInv'
<1> USE DEF IInv
<1>1. PICK d : d = Len(documents) + 1
  OBVIOUS
<1>2. PICK n : n = Len(jobs) + 1
  OBVIOUS
<1>3. /\ DOMAIN documents' = DOMAIN documents \cup {d} /\ d \notin DOMAIN documents
      /\ documents'[d] = NewDocument(id, body)
      /\ \A e \in DOMAIN documents : documents'[e] = documents[e]
  BY <1>1, Rows, LenProperties DEF InsertNew, TypeOK
<1>4. /\ DOMAIN jobs' = DOMAIN jobs \cup {n} /\ n \notin DOMAIN jobs
      /\ jobs'[n] = NewJob(d, "document", 1)
      /\ \A j \in DOMAIN jobs : jobs'[j] = jobs[j]
  BY <1>1, <1>2, Rows, LenProperties DEF InsertNew, TypeOK
<1>5. \A j \in DOMAIN jobs : jobs[j].document \in DOMAIN documents
  BY TableInvByDocument DEF QueueInv
<1>6. TableInv'
  <2>1. JobsOf(d)' = {n}
    BY <1>3, <1>4, <1>5 DEF JobsOf, NewJob
  <2>2. /\ jobs'[n].kind = "document" /\ jobs'[n].status = "queued"
        /\ jobs'[n].revision = 1 /\ jobs'[n].document = d
        /\ documents'[d].status = "queued" /\ documents'[d].revision = 1
    BY <1>3, <1>4 DEF NewJob, NewDocument
  <2>3. IsActive(n)' /\ JobExplainsStatus(n)'
    BY <2>2 DEF IsActive, ActiveStates, JobExplainsStatus
  <2>4. TableInvAt(d)'
    BY <2>1, <2>2, <2>3 DEF TableInvAt
  <2>5. QED
    BY <1>3, <1>4, <2>2, <2>4, OneDocumentStep DEF SameJob, QueueInv
<1>7. ClaimInv'
  <2>1. indexers' = indexers /\ extractors' = extractors
    BY DEF InsertNew
  <2>2. \A c \in indexers \cup extractors : c.document \in DOMAIN documents
    BY IndexerClaim, ExtractorClaim
  <2>3. \A c \in extractors : Current(c)' => Current(c)
    BY <1>3, <2>2 DEF Current, Live
  <2>4. \A c \in indexers \cup extractors : jobs'[c.job] = jobs[c.job]
    BY <1>4, IndexerClaim, ExtractorClaim
  <2>5. QED
    BY <1>4, <2>1, <2>3, <2>4, KeptClaims
       DEF QueueInv, SameJob, IndexerKept, ExtractorKept
<1>8. QED BY <1>6, <1>7 DEF QueueInv

LEMMA ResubmitInv ==
    ASSUME IInv, TypeOK', NEW d \in DOMAIN documents, NEW body, Resubmit(d, body)
    PROVE  QueueInv'
<1> USE DEF IInv
<1>1. PICK n : n = Len(jobs) + 1
  OBVIOUS
<1>2. PICK r : r = documents[d].revision + 1
  OBVIOUS
<1>3. documents[d].revision \in Nat /\ r # documents[d].revision
  BY <1>2, Rows DEF Document
<1>4. /\ DOMAIN documents' = DOMAIN documents
      /\ documents'[d].status = "queued" /\ documents'[d].revision = r
      /\ \A e \in DOMAIN documents \ {d} : documents'[e] = documents[e]
  <2> DEFINE row == [documents[d] EXCEPT !.content = body, !.status = "queued",
                                         !.revision = @ + 1]
  <2>1. documents' = [documents EXCEPT ![d] = row]
    BY DEF Resubmit, UpdateFull
  <2>2. row.status = "queued" /\ row.revision = r
    BY <1>2, Rows DEF Document
  <2> HIDE DEF row
  <2>3. QED BY <2>1, <2>2
<1>5. \A j \in DOMAIN jobs : jobs[j].document = d /\ IsActive(j) =>
          jobs[j].kind = "memory" /\ jobs[j].revision # r
  <2>1. \A j \in DOMAIN jobs : jobs[j].document = d /\ IsActive(j) =>
            jobs[j].revision = documents[d].revision
    BY DEF QueueInv, TableInv, ActiveJobIsCurrent
  <2>2. ~HasActiveDocumentJob(d, documents[d].revision)
    BY DEF Resubmit
  <2>3. \A j \in DOMAIN jobs : jobs[j].kind \in {"document", "memory"}
    BY Rows DEF Job
  <2>4. QED BY <1>3, <2>1, <2>2, <2>3 DEF HasActiveDocumentJob
<1>6. /\ DOMAIN jobs' = DOMAIN jobs \cup {n} /\ n \notin DOMAIN jobs
      /\ jobs'[n] = NewJob(d, "document", r)
      /\ \A j \in DOMAIN jobs : jobs'[j] = FailStaleMemoryJobs(d, r)[j]
  <2>1. FailStaleMemoryJobs(d, r) \in Seq(Job)
    <3>1. FailStaleMemoryJobs(d, r) \in [DOMAIN jobs -> Job]
      BY Rows DEF FailStaleMemoryJobs, Job, JobStates
    <3>2. QED BY <3>1, MappedRows DEF TypeOK
  <2>2. DOMAIN FailStaleMemoryJobs(d, r) = DOMAIN jobs
    BY DEF FailStaleMemoryJobs
  <2>3. Len(FailStaleMemoryJobs(d, r)) = Len(jobs)
    BY <2>1, <2>2, Rows, LenProperties
  <2>4. NewJob(d, "document", r) \in Job
    BY <1>2, <1>3, Rows DEF NewJob, Job, Published, JobStates, ActiveStates
  <2>5. jobs' = Append(FailStaleMemoryJobs(d, r), NewJob(d, "document", r))
    BY <1>4 DEF Resubmit
  <2>6. /\ DOMAIN jobs' = 1 .. Len(jobs) + 1
        /\ \A j \in DOMAIN jobs : jobs'[j] = FailStaleMemoryJobs(d, r)[j]
        /\ jobs'[n] = NewJob(d, "document", r)
    BY <1>1, <2>1, <2>2, <2>3, <2>4, <2>5, InsertedRow
  <2>7. QED BY <1>1, <2>6, Rows
<1>7. /\ \A j \in DOMAIN jobs : SameJob(j)
      /\ \A j \in DOMAIN jobs : jobs'[j].status =
            IF jobs[j].document = d /\ IsActive(j) THEN "failed" ELSE jobs[j].status
  BY <1>5, <1>6, Rows DEF FailStaleMemoryJobs, SameJob, Job
<1>8. documents[d].status # "deleted"
  BY DEF Resubmit, Live
<1>9. TableInv'
  <2>1. TableInv /\ TableInvAt(d)
    BY TableInvByDocument DEF QueueInv
  <2>2. /\ jobs'[n].kind = "document" /\ jobs'[n].status = "queued"
        /\ jobs'[n].revision = r /\ jobs'[n].document = d
    BY <1>6 DEF NewJob
  <2>3. JobsOf(d)' = JobsOf(d) \cup {n}
    BY <1>6, <1>7, <2>2 DEF JobsOf, SameJob
  <2>4. \A j \in JobsOf(d) : ~IsActive(j)' /\ jobs'[j].status # "deleted"
    <3>1. \A j \in JobsOf(d) : jobs[j].status # "deleted"
      BY <1>8, <2>1 DEF TableInvAt
    <3>2. QED BY <1>7, <3>1 DEF IsActive, ActiveStates, Stages, JobsOf
  <2>5. IsActive(n)' /\ JobExplainsStatus(n)'
    BY <1>4, <2>2 DEF IsActive, ActiveStates, JobExplainsStatus
  <2>6. TableInvAt(d)'
    <3>1. \A j \in JobsOf(d) : jobs'[j].revision <= r
      <4>1. \A j \in JobsOf(d) : jobs[j].revision \in Nat
        BY Rows DEF JobsOf, Job
      <4>2. QED
        BY <1>2, <1>3, <1>7, <2>1, <4>1 DEF TableInvAt, JobsOf, SameJob
    <3>2. r <= r
      BY <1>2, <1>3
    <3>3. QED BY <1>4, <2>2, <2>3, <2>4, <2>5, <3>1, <3>2 DEF TableInvAt
  <2>7. QED BY <1>4, <1>6, <1>7, <2>1, <2>2, <2>6, OneDocumentStep
<1>10. ClaimInv'
  <2>1. indexers' = indexers /\ extractors' = extractors
    BY DEF Resubmit
  <2>2. \A c \in indexers : IndexerKept(c)
    <3> TAKE c \in indexers
    <3>1. c.job \in DOMAIN jobs /\ jobs[c.job].kind = "document"
      BY IndexerClaim
    <3>2. ~(jobs[c.job].document = d /\ IsActive(c.job))
      BY <1>5, <3>1
    <3>3. QED BY <1>7, <3>1, <3>2 DEF IndexerKept
  <2>3. \A c \in extractors : ExtractorKept(c)
    <3> TAKE c \in extractors
    <3>1. /\ c.job \in DOMAIN jobs /\ c.document \in DOMAIN documents
          /\ jobs[c.job].document = c.document /\ jobs[c.job].revision = c.revision
          /\ IsActive(c.job) \/ ~Current(c)
      BY ExtractorClaim
    <3>2. CASE c.document # d
      <4>1. Current(c)' <=> Current(c)
        BY <1>4, <3>1, <3>2 DEF Current, Live
      <4>2. QED BY <1>7, <3>1, <3>2, <4>1 DEF ExtractorKept
    <3>3. CASE c.document = d
      <4>1. c.revision # r
        <5>1. jobs[c.job].revision <= documents[d].revision
          BY <3>1, <3>3 DEF QueueInv, TableInv, NoJobAheadOfDocument
        <5>2. jobs[c.job].revision \in Nat
          BY <3>1, Rows DEF Job
        <5>3. QED BY <1>2, <1>3, <3>1, <5>1, <5>2
      <4>2. ~Current(c)'
        BY <1>4, <3>3, <4>1 DEF Current, Live
      <4>3. QED BY <1>7, <3>1, <4>2 DEF ExtractorKept
    <3>4. QED BY <3>2, <3>3
  <2>4. QED BY <1>6, <1>7, <2>1, <2>2, <2>3, KeptClaims DEF QueueInv
<1>11. QED BY <1>9, <1>10 DEF QueueInv

-----------------------------------------------------------------------------
(* The steps of a memory task.                                             *)

\* Marking a job stale changes nothing: the submission that made it stale has
\* already failed it.
LEMMA StaleJobIsSettled ==
    ASSUME IInv, NEW c \in extractors, ~IsActive(c.job)
    PROVE  MarkMemoryJobStale(c) = jobs
  BY DEF MarkMemoryJobStale

LEMMA FinishExtractionInv ==
    ASSUME IInv, TypeOK', NEW c \in extractors, Current(c), FinishExtraction(c),
           indexers' = indexers
    PROVE  QueueInv'
<1>1. /\ c.job \in DOMAIN jobs /\ c.document \in DOMAIN documents
      /\ IsActive(c.job)
  BY ExtractorClaim
<1>2. documents[c.document] \in Document /\ jobs[c.job] \in Job
  BY <1>1, Rows DEF IInv
<1>3. /\ DOMAIN jobs' = DOMAIN jobs /\ jobs'[c.job].status = "done"
      /\ \A i \in DOMAIN jobs : SameJob(i)
      /\ \A i \in DOMAIN jobs \ {c.job} : jobs'[i] = jobs[i]
  <2>1. jobs' = [jobs EXCEPT ![c.job] =
                    [jobs[c.job] EXCEPT !.status = "done", !.cached = NoContent]]
    BY <1>2 DEF FinishExtraction, Job
  <2>2. QED BY <1>1, <1>2, <2>1, JobRow DEF IInv, Job
<1>4. /\ DOMAIN documents' = DOMAIN documents
      /\ documents'[c.document].status = "done"
      /\ documents'[c.document].revision = documents[c.document].revision
      /\ \A e \in DOMAIN documents \ {c.document} : documents'[e] = documents[e]
  <2> DEFINE row == [documents[c.document] EXCEPT !.status = "done",
                                                  !.extracted = c.result]
  <2>1. documents' = [documents EXCEPT ![c.document] = row]
    BY <1>2 DEF FinishExtraction, Document
  <2>2. row.status = "done" /\ row.revision = documents[c.document].revision
    BY <1>2 DEF Document
  <2> HIDE DEF row
  <2>3. QED BY <1>1, <2>1, <2>2
<1>5. indexers' = indexers \ {c} /\ extractors' = extractors \ {c}
  BY SoleHolder DEF FinishExtraction
<1>6. QED BY <1>1, <1>3, <1>4, <1>5, SettledJob

LEMMA CacheMemoryExtractionInv ==
    ASSUME IInv, TypeOK', NEW c \in extractors, CacheMemoryExtraction(c)
    PROVE  QueueInv'
<1> USE DEF IInv
<1>1. /\ c.job \in DOMAIN jobs /\ jobs[c.job].document = c.document
      /\ jobs[c.job].revision = c.revision /\ jobs[c.job].kind = "memory"
      /\ \/ jobs[c.job].status = "extracting" /\ IsActive(c.job) /\ Current(c)
         \/ ~IsActive(c.job) /\ ~Current(c)
  BY ExtractorClaim
<1>2. CASE jobs[c.job].status = "extracting" /\ Current(c)
  <2>1. PICK n : n = [c EXCEPT !.result = c.content]
    OBVIOUS
  <2>2. /\ n.job = c.job /\ n.document = c.document /\ n.revision = c.revision
    BY <2>1 DEF TypeOK, Extractor
  <2>3. /\ jobs' = [jobs EXCEPT ![c.job].cached = c.content]
        /\ extractors' = (extractors \ {c}) \cup {n}
        /\ documents' = documents /\ indexers' = indexers
    BY <1>2, <2>1 DEF CacheMemoryExtraction
  <2>4. /\ DOMAIN jobs' = DOMAIN jobs /\ jobs'[c.job].status = jobs[c.job].status
        /\ \A i \in DOMAIN jobs : SameJob(i)
        /\ \A i \in DOMAIN jobs \ {c.job} : jobs'[i] = jobs[i]
    <3>1. jobs[c.job] \in Job
      BY <1>1, Rows
    <3>2. QED BY <1>1, <2>3, <3>1, JobRow DEF Job
  <2>5. /\ \A j \in DOMAIN jobs : jobs'[j].status = jobs[j].status /\ SameJob(j)
        /\ \A j : Current(j)' <=> Current(j)
    BY <2>3, <2>4 DEF Current, Live
  <2>6. TableInv'
    <3>1. TableInv
      BY DEF QueueInv
    <3>2. QED
      BY <2>3, <2>4, <2>5, <3>1
         DEF TableInv, AtMostOneActiveJob, ActiveJobIsCurrent, StatusMatchesActiveJob,
             JobsBelongToDocuments, NoJobAheadOfDocument, IsActive, Live,
             JobExplainsStatus, SameJob
  <2>7. ClaimInv'
    <3>1. ExtractorOK(n)'
      BY <1>1, <1>2, <2>2, <2>4 DEF ExtractorOK, HoldsItsJob, SameJob
    <3>2. /\ TypeOK /\ ClaimInv
          /\ indexers' \subseteq indexers \cup {n}
          /\ extractors' \subseteq extractors \cup {n}
      BY <2>3 DEF QueueInv
    <3>3. /\ \A b \in (indexers' \cup extractors') \ {n} :
                b \in (indexers \cup extractors) \ {c} /\ b.job # n.job
          /\ n \notin indexers'
      BY <2>2, <2>3, SoleHolder
    <3>4. /\ \A b \in indexers' \ {n} : IndexerKept(b)
          /\ \A b \in extractors' \ {n} : ExtractorKept(b)
      BY <2>2, <2>3, <2>4, <2>5, <3>3, OthersKept
    <3>5. QED BY <2>4, <3>1, <3>2, <3>3, <3>4, NewClaim
  <2>8. QED BY <2>6, <2>7 DEF QueueInv
<1>3. CASE ~(jobs[c.job].status = "extracting" /\ Current(c))
  <2>1. jobs' = jobs
    BY <1>1, <1>3, StaleJobIsSettled DEF CacheMemoryExtraction
  <2>2. QED BY <1>3, <2>1, DroppedClaims DEF CacheMemoryExtraction
<1>4. QED BY <1>2, <1>3

LEMMA ReconcileMemoriesInv ==
    ASSUME IInv, TypeOK', NEW c \in extractors, ReconcileMemories(c)
    PROVE  QueueInv'
<1> USE DEF IInv
<1>1. CASE Current(c) /\ jobs[c.job].status = "extracting"
  BY <1>1, FinishExtractionInv DEF ReconcileMemories
<1>2. CASE ~(Current(c) /\ jobs[c.job].status = "extracting")
  <2>1. PICK n : n = [c EXCEPT !.superseded = TRUE]
    OBVIOUS
  <2>2. /\ n.job = c.job /\ n.document = c.document /\ n.revision = c.revision
    BY <2>1 DEF TypeOK, Extractor
  <2>3. /\ jobs' = jobs /\ documents' = documents /\ indexers' = indexers
        /\ extractors' = (extractors \ {c}) \cup {n}
    BY <1>2, <2>1 DEF ReconcileMemories
  <2>4. TableInv'
    BY <2>3 DEF QueueInv, TableInv, AtMostOneActiveJob, ActiveJobIsCurrent,
       StatusMatchesActiveJob, JobsBelongToDocuments, NoJobAheadOfDocument, IsActive,
       Live, JobExplainsStatus
  <2>5. ExtractorOK(n)'
    <3>1. ExtractorOK(c)
      BY ClaimInvByClaim DEF QueueInv
    <3>2. QED BY <2>2, <2>3, <3>1 DEF ExtractorOK, HoldsItsJob, Current, Live
  <2>6. \A c2 : Current(c2)' <=> Current(c2)
    BY <2>3 DEF Current, Live
  <2>7. /\ \A b \in (indexers' \cup extractors') \ {n} : b.job # n.job
        /\ n \notin indexers'
    BY <2>2, <2>3, SoleHolder
  <2>8. /\ \A b \in indexers' \ {n} : IndexerKept(b)
        /\ \A b \in extractors' \ {n} : ExtractorKept(b)
    BY <2>3, <2>6 DEF IndexerKept, ExtractorKept
  <2>9. /\ TypeOK /\ ClaimInv
        /\ indexers' \subseteq indexers \cup {n}
        /\ extractors' \subseteq extractors \cup {n}
        /\ DOMAIN jobs \subseteq DOMAIN jobs' /\ \A j \in DOMAIN jobs : SameJob(j)
    BY <2>3 DEF QueueInv, SameJob
  <2>10. ClaimInv'
    BY <2>5, <2>7, <2>8, <2>9, NewClaim
  <2>11. QED BY <2>4, <2>10 DEF QueueInv
<1>3. QED BY <1>1, <1>2

LEMMA CompleteMemoryJobInv ==
    ASSUME IInv, TypeOK', NEW c \in extractors, CompleteMemoryJob(c)
    PROVE  QueueInv'
<1>1. /\ c.job \in DOMAIN jobs
      /\ \/ jobs[c.job].status = "extracting" /\ Current(c)
         \/ jobs[c.job].status \in {"failed", "deleted"} /\ ~Current(c)
  BY ExtractorClaim
<1>2. CASE Current(c) /\ jobs[c.job].status = "extracting"
  BY <1>2, FinishExtractionInv DEF CompleteMemoryJob
<1>3. CASE ~(Current(c) /\ jobs[c.job].status = "extracting")
  <2>1. jobs' = jobs
    <3>1. CASE jobs[c.job].status = "deleted"
      BY <1>3, <3>1 DEF CompleteMemoryJob
    <3>2. CASE jobs[c.job].status = "failed"
      <4>1. jobs[c.job] \in Job
        BY <1>1, Rows DEF IInv
      <4>2. [jobs[c.job] EXCEPT !.status = "failed"] = jobs[c.job]
        BY <3>2, <4>1 DEF Job
      <4>3. [jobs EXCEPT ![c.job].status = "failed"] = jobs
        BY <4>2, Rows DEF IInv, TypeOK
      <4>4. QED BY <1>3, <4>3 DEF CompleteMemoryJob
    <3>3. QED BY <1>1, <1>3, <3>1, <3>2
  <2>2. QED BY <1>3, <2>1, DroppedClaims DEF CompleteMemoryJob
<1>4. QED BY <1>2, <1>3

LEMMA RetryMemoryJobInv ==
    ASSUME IInv, TypeOK', NEW c \in extractors, NEW failure, RetryMemoryJob(c, failure)
    PROVE  QueueInv'
<1> USE DEF IInv
<1>1. /\ c.job \in DOMAIN jobs /\ c.document \in DOMAIN documents
      /\ jobs[c.job].document = c.document
      /\ jobs[c.job].kind = "memory"
      /\ \/ /\ jobs[c.job].status = "extracting" /\ IsActive(c.job) /\ Current(c)
            /\ documents[c.document].status = "indexing"
         \/ ~IsActive(c.job) /\ ~Current(c)
  BY ExtractorClaim
<1>2. indexers' = indexers /\ extractors' = extractors \ {c}
  BY DEF RetryMemoryJob
<1>3. CASE ~Current(c)
  <2>1. jobs' = jobs /\ documents' = documents
    BY <1>1, <1>3, StaleJobIsSettled DEF RetryMemoryJob
  <2>2. QED BY <1>2, <2>1, DroppedClaims
<1>4. CASE Current(c)
  <2> DEFINE terminal == IsTerminal(c, failure)
  <2>1. /\ jobs' = [jobs EXCEPT
              ![c.job].status = IF terminal THEN "failed" ELSE "queued",
              ![c.job].delayed = ~terminal]
        /\ documents' = IF terminal
                        THEN [documents EXCEPT ![c.document].status = "failed"]
                        ELSE documents
    BY <1>1, <1>4 DEF RetryMemoryJob
  <2> HIDE DEF terminal
  <2>2. /\ DOMAIN jobs' = DOMAIN jobs
        /\ jobs'[c.job].status = IF terminal THEN "failed" ELSE "queued"
        /\ \A i \in DOMAIN jobs : SameJob(i)
        /\ \A i \in DOMAIN jobs \ {c.job} : jobs'[i] = jobs[i]
    <3> DEFINE status == IF terminal THEN "failed" ELSE "queued"
               row == [jobs[c.job] EXCEPT !.status = status, !.delayed = ~terminal]
    <3>1. jobs[c.job] \in Job
      BY <1>1, Rows
    <3>2. jobs' = [jobs EXCEPT ![c.job] = row]
      BY <1>1, <2>1, <3>1 DEF Job
    <3>3. /\ row.status = status /\ row.document = jobs[c.job].document
          /\ row.kind = jobs[c.job].kind /\ row.revision = jobs[c.job].revision
      BY <3>1 DEF Job
    <3> HIDE DEF row
    <3>4. QED BY <1>1, <3>2, <3>3, JobRow
  <2>3. CASE terminal
    <3>1. documents' = [documents EXCEPT ![c.document].status = "failed"]
      BY <2>1, <2>3
    <3>2. /\ DOMAIN documents' = DOMAIN documents
          /\ documents'[c.document].status = "failed"
          /\ documents'[c.document].revision = documents[c.document].revision
          /\ \A e \in DOMAIN documents \ {c.document} : documents'[e] = documents[e]
      BY <1>1, <3>1, DocumentStatusRow
    <3>3. indexers' = indexers \ {c}
      BY <1>2, SoleHolder
    <3>4. QED BY <1>1, <1>2, <1>4, <2>2, <2>3, <3>2, <3>3, SettledJob
  <2>4. CASE ~terminal
    <3>1. documents' = documents
      BY <2>1, <2>4
    <3>2. IsActive(c.job)'
      BY <2>2, <2>4 DEF IsActive, ActiveStates
    <3>3. JobExplainsStatus(c.job)' /\ documents'[c.document].status # "deleted"
      BY <1>1, <1>4, <2>2, <2>4, <3>1 DEF JobExplainsStatus, SameJob
    <3>4. TableInv'
      BY <1>1, <1>4, <2>2, <3>1, <3>2, <3>3, StatusStep
    <3>5. \A b : Current(b)' <=> Current(b)
      BY <3>1 DEF Current, Live
    <3>6. /\ \A b \in indexers' : IndexerKept(b)
          /\ \A b \in extractors' : ExtractorKept(b)
      <4>1. \A b \in indexers' \cup extractors' : b.job # c.job
        BY <1>2, SoleHolder
      <4>2. QED BY <1>2, <2>2, <3>5, <4>1, OthersKept
    <3>7. ClaimInv'
      BY <1>2, <2>2, <3>6, KeptClaims DEF QueueInv
    <3>8. QED BY <3>4, <3>7 DEF QueueInv
  <2>5. QED BY <2>3, <2>4
<1>5. QED BY <1>3, <1>4

-----------------------------------------------------------------------------
(* Time and restarts.                                                      *)

LEMMA DelayElapsesInv ==
    ASSUME IInv, TypeOK', NEW j \in DOMAIN jobs, DelayElapses(j)
    PROVE  QueueInv'
<1>1. /\ jobs' = [jobs EXCEPT ![j] = [jobs[j] EXCEPT !.delayed = FALSE]]
      /\ UNCHANGED <<documents, indexers, extractors>>
  BY DEF DelayElapses
<1>2. jobs[j] \in Job
  BY Rows DEF IInv
<1>3. /\ DOMAIN jobs' = DOMAIN jobs
      /\ \A i \in DOMAIN jobs : SameJob(i) /\ jobs'[i].status = jobs[i].status
  <2> DEFINE row == [jobs[j] EXCEPT !.delayed = FALSE]
  <2>1. /\ row.status = jobs[j].status /\ row.document = jobs[j].document
        /\ row.kind = jobs[j].kind /\ row.revision = jobs[j].revision
    BY <1>2 DEF Job
  <2> HIDE DEF row
  <2>2. /\ DOMAIN jobs' = DOMAIN jobs /\ jobs'[j] = row
        /\ \A i \in DOMAIN jobs : SameJob(i)
        /\ \A i \in DOMAIN jobs \ {j} : jobs'[i] = jobs[i]
    BY <1>1, <2>1, JobRow DEF IInv, row
  <2>3. QED BY <2>1, <2>2
<1>4. TableInv'
  BY <1>1, <1>3
     DEF IInv, QueueInv, TableInv, AtMostOneActiveJob, ActiveJobIsCurrent,
         StatusMatchesActiveJob, JobsBelongToDocuments, NoJobAheadOfDocument,
         IsActive, Live, JobExplainsStatus, SameJob
<1>5. ClaimInv'
  <2>1. \A c : Current(c)' <=> Current(c)
    BY <1>1 DEF Current, Live
  <2>2. \A c \in indexers \cup extractors : c.job \in DOMAIN jobs
    BY IndexerClaim, ExtractorClaim
  <2>3. /\ \A c \in indexers : IndexerKept(c)
        /\ \A c \in extractors : ExtractorKept(c)
    BY <1>3, <2>1, <2>2 DEF IndexerKept, ExtractorKept
  <2>4. QED BY <1>1, <1>3, <2>3, KeptClaims DEF IInv, QueueInv
<1>6. QED BY <1>4, <1>5 DEF QueueInv

\* No job is an orphan when the process starts, so recovery takes every job in
\* a stage back to the queue and touches no other.
LEMMA RestartInv ==
    ASSUME IInv, TypeOK', Restart
    PROVE  QueueInv'
<1>1. /\ \A d \in DOMAIN documents : documents[d] \in Document
      /\ \A j \in DOMAIN jobs : jobs[j] \in Job
  BY Rows DEF IInv
<1>2. /\ \A d \in DOMAIN documents : TableInvAt(d)
      /\ \A j \in DOMAIN jobs : jobs[j].document \in DOMAIN documents
  BY TableInvByDocument DEF IInv, QueueInv
<1>3. \A j \in DOMAIN jobs : RecoveredJobs[j] = Requeued(j)
  <2> TAKE j \in DOMAIN jobs
  <2>1. /\ Requeued(j).document = jobs[j].document
        /\ Requeued(j).revision = jobs[j].revision
        /\ Requeued(j).status = "queued" => IsActive(j)
    BY <1>1 DEF Requeued, Job, IsActive, ActiveStates
  <2>2. IsActive(j) => /\ Live(jobs[j].document)
                       /\ jobs[j].revision = documents[jobs[j].document].revision
    BY DEF IInv, QueueInv, TableInv, ActiveJobIsCurrent
  <2>3. ~IsOrphan(Requeued(j))
    BY <2>1, <2>2 DEF IsOrphan
  <2>4. QED BY <2>3 DEF RecoveredJobs
<1>4. /\ DOMAIN jobs' = DOMAIN jobs
      /\ \A j \in DOMAIN jobs : SameJob(j)
      /\ \A j \in DOMAIN jobs : jobs'[j].status =
            IF jobs[j].status \in Stages THEN "queued" ELSE jobs[j].status
  <2>1. jobs' = RecoveredJobs
    BY DEF Restart
  <2>2. DOMAIN jobs' = DOMAIN jobs
    BY <2>1 DEF RecoveredJobs
  <2>3. QED BY <1>1, <1>3, <2>1, <2>2 DEF Requeued, SameJob, Job
<1>5. \A j \in DOMAIN jobs : /\ IsActive(j)' <=> IsActive(j)
                             /\ IsActive(j) => jobs'[j].status = "queued"
  BY <1>4 DEF IsActive, ActiveStates
<1>6. DOMAIN documents' = DOMAIN documents
  BY DEF Restart, RecoveredDocuments
<1>7. ASSUME NEW d \in DOMAIN documents
      PROVE  TableInvAt(d)'
  <2>1. JobsOf(d)' = JobsOf(d)
    BY <1>4 DEF JobsOf, SameJob
  <2>2. documents'[d] = RecoveredDocuments[d]
    BY DEF Restart
  <2>3. /\ documents'[d].revision = documents[d].revision
        /\ documents'[d].status \in ActiveStates <=> documents[d].status \in ActiveStates
        /\ documents'[d].status = "deleted" <=> documents[d].status = "deleted"
    BY <1>1, <2>2 DEF RecoveredDocuments, Document, ActiveStates, Stages
  <2>4. \A kind : HasQueued(d, kind) <=>
            \E j \in JobsOf(d) : /\ jobs[j].revision = documents[d].revision
                                 /\ jobs[j].kind = kind /\ jobs'[j].status = "queued"
    <3>1. \A j \in DOMAIN jobs :
            /\ RecoveredJobs[j].document = jobs[j].document
            /\ RecoveredJobs[j].revision = jobs[j].revision
            /\ RecoveredJobs[j].kind = jobs[j].kind
            /\ RecoveredJobs[j].status = jobs'[j].status
      BY <1>4 DEF Restart, SameJob
    <3>2. QED BY <3>1 DEF HasQueued, JobsOf
  <2>5. ASSUME NEW j \in JobsOf(d), IsActive(j)
        PROVE  JobExplainsStatus(j)'
    <3>1. /\ jobs[j].revision = documents[d].revision
          /\ JobExplainsStatus(j) /\ jobs[j].document = d
          /\ jobs'[j].status = "queued" /\ jobs'[j].document = d
          /\ jobs'[j].kind = jobs[j].kind
      BY <1>2, <1>4, <1>5, <2>5 DEF TableInvAt, JobsOf, SameJob
    <3>2. jobs[j].kind \in {"document", "memory"}
      BY <1>1 DEF JobsOf, Job
    <3>3. CASE jobs[j].kind = "document"
      <4>1. HasQueued(d, "document")
        BY <2>4, <2>5, <3>1, <3>3
      <4>2. documents[d].status \in ActiveStates
        BY <2>5, <3>1, <3>3 DEF JobExplainsStatus, IsActive
      <4>3. documents'[d].status = "queued"
        BY <1>1, <2>2, <4>1, <4>2 DEF RecoveredDocuments, Document, ActiveStates
      <4>4. QED BY <3>1, <3>3, <4>3 DEF JobExplainsStatus
    <3>4. CASE jobs[j].kind = "memory"
      <4>1. documents[d].status = "indexing"
        BY <3>1, <3>4 DEF JobExplainsStatus
      <4>2. ~HasQueued(d, "document")
        <5>1. \A i \in JobsOf(d) : jobs'[i].status = "queued" => i = j
          <6>1. \A i \in JobsOf(d) : jobs'[i].status = "queued" => IsActive(i)
            BY <1>5 DEF IsActive, ActiveStates, JobsOf
          <6>2. QED BY <1>2, <2>5, <6>1 DEF TableInvAt
        <5>2. QED BY <2>4, <3>4, <5>1
      <4>3. HasQueued(d, "memory")
        BY <2>4, <2>5, <3>1, <3>4
      <4>4. documents'[d].status = "indexing"
        BY <1>1, <2>2, <4>1, <4>2, <4>3 DEF RecoveredDocuments, Document, Stages
      <4>5. QED BY <3>1, <3>4, <4>4 DEF JobExplainsStatus
    <3>5. QED BY <3>2, <3>3, <3>4
  <2>6. \A j \in JobsOf(d) :
          /\ IsActive(j)' <=> IsActive(j)
          /\ jobs'[j].revision = jobs[j].revision
          /\ jobs'[j].status = "deleted" <=> jobs[j].status = "deleted"
    BY <1>4, <1>5 DEF JobsOf, SameJob, Stages
  <2>7. QED BY <1>2, <2>1, <2>3, <2>5, <2>6 DEF TableInvAt
<1>8. TableInv'
  <2>1. \A j \in DOMAIN jobs' : jobs'[j].document \in DOMAIN documents'
    BY <1>2, <1>4, <1>6 DEF SameJob
  <2>2. QED
    BY <1>6, <1>7, <2>1
       DEF TableInv, TableInvAt, AtMostOneActiveJob, ActiveJobIsCurrent,
           StatusMatchesActiveJob, JobsBelongToDocuments, NoJobAheadOfDocument,
           JobsOf, Live
<1>9. ClaimInv'
  BY DEF Restart, ClaimInv, NoDoubleClaim, ClaimsMatchJobs
<1>10. QED BY <1>8, <1>9 DEF QueueInv

-----------------------------------------------------------------------------
(* The theorem.                                                            *)

LEMMA InitQueueInv == Init => QueueInv
  BY DEF Init, QueueInv, TableInv, ClaimInv, AtMostOneActiveJob, ActiveJobIsCurrent,
     StatusMatchesActiveJob, JobsBelongToDocuments, NoJobAheadOfDocument,
     NoDoubleClaim, ClaimsMatchJobs

LEMMA NextQueueInv ==
    ASSUME ConstantsAssumption, IInv, [Next]_vars
    PROVE  IInv'
<1>1. TypeOK'
  BY NextTyped DEF IInv
<1>2. CASE UNCHANGED vars
  BY <1>2, DroppedClaims DEF vars, QueueInv, IInv, TypeOK
<1>3. CASE Submission
  <2>1. ASSUME NEW id \in CustomIds \cup {NoId}, NEW body \in Contents,
               InsertNew(id, body)
        PROVE  QueueInv'
    BY <1>1, <2>1, InsertNewInv
  <2>2. ASSUME NEW d \in DOMAIN documents, NEW body \in Contents, Resubmit(d, body)
        PROVE  QueueInv'
    BY <1>1, <2>2, ResubmitInv
  <2>3. ASSUME NEW d \in DOMAIN documents, DeleteDocument(d)
        PROVE  QueueInv'
    BY <1>1, <2>3, DeleteRowInv DEF DeleteDocument
  <2>4. QED BY <1>1, <1>3, <2>1, <2>2, <2>3 DEF Submission, IInv
<1>4. CASE ClaimJob \/ ClaimMemoryJob
  BY <1>1, <1>4, ClaimJobInv, ClaimMemoryJobInv DEF IInv
<1>5. ASSUME NEW c \in indexers, IndexerStep(c) \/ AbortIndexer(c)
      PROVE  QueueInv'
  <2>1. CASE AbortIndexer(c)
    BY <2>1, DroppedClaims DEF AbortIndexer
  <2>2. ASSUME NEW mode \in Modes, PublishJob(c, mode)
        PROVE  QueueInv'
    BY <1>1, <2>2, PublishJobInv
  <2>3. QED
    BY <1>1, <1>5, <2>1, <2>2, MarkJobStageInv, FailJobInv, DeleteEmptyDocumentInv
       DEF IndexerStep
<1>6. ASSUME NEW c \in extractors, ExtractorStep(c) \/ AbortExtractor(c)
      PROVE  QueueInv'
  <2>1. CASE AbortExtractor(c)
    BY <2>1, DroppedClaims DEF AbortExtractor
  <2>2. ASSUME NEW failure \in Failures(c), RetryMemoryJob(c, failure)
        PROVE  QueueInv'
    BY <1>1, <2>2, RetryMemoryJobInv
  <2>3. QED
    BY <1>1, <1>6, <2>1, <2>2, CacheMemoryExtractionInv, ReconcileMemoriesInv,
       CompleteMemoryJobInv DEF ExtractorStep
<1>7. ASSUME NEW j \in DOMAIN jobs, DelayElapses(j)
      PROVE  QueueInv'
  BY <1>1, <1>7, DelayElapsesInv
<1>8. CASE Restart
  BY <1>1, <1>8, RestartInv DEF IInv
<1>9. QED
  BY <1>1, <1>2, <1>3, <1>4, <1>5, <1>6, <1>7, <1>8 DEF Next, IInv

\* The tables and the claims agree in every reachable state: the conjuncts of
\* QueueInv, among them AtMostOneActiveJob, ActiveJobIsCurrent,
\* StatusMatchesActiveJob and NoDoubleClaim, hold for any number of documents,
\* revisions, attempts and restarts.
THEOREM QueueConsistent == Spec => []QueueInv
<1>1. ConstantsAssumption
  BY ConstantsAssumption
<1>2. Init => IInv
  BY InitTyped, InitQueueInv DEF IInv
<1>3. IInv /\ [Next]_vars => IInv'
  BY <1>1, NextQueueInv
<1>4. IInv => QueueInv
  BY DEF IInv
<1>5. QED BY <1>2, <1>3, <1>4, PTL DEF Spec

\* A document never has two jobs to do (the index
\* jobs_one_active_document_revision_idx is never violated).
THEOREM OneActiveJob == Spec => []AtMostOneActiveJob
<1>1. QueueInv => AtMostOneActiveJob
  BY DEF QueueInv, TableInv
<1>2. QED BY <1>1, QueueConsistent, PTL

\* Everything in the queue is for the current revision of a live document.
THEOREM QueueIsCurrent == Spec => []ActiveJobIsCurrent
<1>1. QueueInv => ActiveJobIsCurrent
  BY DEF QueueInv, TableInv
<1>2. QED BY <1>1, QueueConsistent, PTL

\* A document's status is the one its job accounts for.
THEOREM StatusExplained == Spec => []StatusMatchesActiveJob
<1>1. QueueInv => StatusMatchesActiveJob
  BY DEF QueueInv, TableInv
<1>2. QED BY <1>1, QueueConsistent, PTL

\* No two tasks ever work on one job.
THEOREM ClaimsAreExclusive == Spec => []NoDoubleClaim
<1>1. QueueInv => NoDoubleClaim
  BY DEF QueueInv, ClaimInv
<1>2. QED BY <1>1, QueueConsistent, PTL

-----------------------------------------------------------------------------
(* Attempts, and what the calls of a task leave behind.                    *)

\* A queued job has an attempt left.
TaskInvAt(j) ==
    /\ jobs[j].attempts <= MaxAttempts + restarts
    /\ jobs[j].status = "queued" => jobs[j].attempts < MaxAttempts + restarts

\* A memory task counts the attempt its job's row counts.
TaskInv ==
    /\ \A j \in DOMAIN jobs : TaskInvAt(j)
    /\ \A c \in extractors : c.attempts = jobs[c.job].attempts

\* A step of one job j (or of none): other jobs keep their attempts, are given
\* up or are new.
LEMMA OneJobStep ==
    ASSUME ConstantsAssumption, IInv, TaskInv, NEW j, restarts' = restarts,
           DOMAIN jobs \subseteq DOMAIN jobs',
           \A i \in DOMAIN jobs \ {j} :
               /\ jobs'[i].attempts = jobs[i].attempts
               /\ jobs'[i].status \in {jobs[i].status, "failed", "deleted"},
           \A i \in DOMAIN jobs' \ DOMAIN jobs :
               i # j => jobs'[i].attempts = 0 /\ jobs'[i].status = "queued",
           j \in DOMAIN jobs' => TaskInvAt(j)',
           \A b \in extractors' : \/ b \in extractors /\ b.job # j
                                  \/ b.job = j /\ b.attempts = jobs'[j].attempts
    PROVE  TaskInv'
<1>1. MaxAttempts \in Nat \ {0} /\ restarts \in Nat
  BY DEF ConstantsAssumption, IInv, TypeOK
<1>2. ASSUME NEW i \in DOMAIN jobs, i # j PROVE TaskInvAt(i)'
  <2>1. TaskInvAt(i) /\ jobs'[i].attempts = jobs[i].attempts
        /\ jobs'[i].status \in {jobs[i].status, "failed", "deleted"}
    BY <1>2 DEF TaskInv
  <2>2. jobs'[i].status = "queued" => jobs[i].status = "queued"
    BY <2>1
  <2>3. QED BY <2>1, <2>2 DEF TaskInvAt
<1>3. ASSUME NEW i \in DOMAIN jobs' \ DOMAIN jobs, i # j PROVE TaskInvAt(i)'
  <2>1. jobs'[i].attempts = 0
    BY <1>3
  <2>2. QED BY <1>1, <2>1 DEF TaskInvAt
<1>4. ASSUME NEW b \in extractors' PROVE b.attempts = jobs'[b.job].attempts
  <2>1. b \in extractors => b.job \in DOMAIN jobs
    BY ExtractorClaim
  <2>2. QED BY <1>4, <2>1 DEF TaskInv
<1>5. QED BY <1>2, <1>3, <1>4 DEF TaskInv

\* What a row is once its status is set.
LEMMA StatusSet ==
    ASSUME IInv, NEW j \in DOMAIN jobs, NEW status,
           jobs' = [jobs EXCEPT ![j].status = status]
    PROVE  /\ DOMAIN jobs' = DOMAIN jobs
           /\ jobs'[j].status = status /\ jobs'[j].attempts = jobs[j].attempts
           /\ \A i \in DOMAIN jobs \ {j} : jobs'[i] = jobs[i]
  BY Rows DEF IInv, Job

\* A task ends after its job has left the stages, or its job was settled
\* before.
LEMMA TaskEnds ==
    ASSUME ConstantsAssumption, IInv, TaskInv, restarts' = restarts,
           NEW c \in indexers \cup extractors,
           DOMAIN jobs \subseteq DOMAIN jobs',
           \A i \in DOMAIN jobs \ {c.job} : jobs'[i] = jobs[i],
           \A i \in DOMAIN jobs' \ DOMAIN jobs :
               jobs'[i].attempts = 0 /\ jobs'[i].status = "queued",
           jobs'[c.job].attempts = jobs[c.job].attempts,
           jobs'[c.job].status \notin Stages,
           jobs'[c.job].status = "queued" => jobs[c.job].attempts < MaxAttempts + restarts,
           indexers' = indexers \ {c}, extractors' = extractors \ {c}
    PROVE  TaskInv' /\ Tended(c.job)'
<1>1. c.job \in DOMAIN jobs
  BY IndexerClaim, ExtractorClaim
<1>2. TaskInvAt(c.job)'
  BY <1>1 DEF TaskInv, TaskInvAt
<1>3. \A b \in extractors' : b \in extractors /\ b.job # c.job
  BY SoleHolder
<1>4. Tended(c.job)'
  BY DEF Tended
<1>5. QED BY <1>1, <1>2, <1>3, <1>4, OneJobStep

LEMMA IndexerTasks ==
    ASSUME ConstantsAssumption, IInv, TaskInv, NEW c \in indexers, IndexerStep(c)
    PROVE  TaskInv' /\ Tended(c.job)'
<1>1. /\ c.job \in DOMAIN jobs /\ c.document \in DOMAIN documents
      /\ jobs[c.job].document = c.document /\ c.stage \in Stages
      /\ \/ jobs[c.job].status = c.stage /\ Current(c)
         \/ jobs[c.job].status = "deleted" /\ ~Current(c)
  BY IndexerClaim
<1>2. /\ \A b \in extractors : b.job # c.job
      /\ \A b \in indexers : b.job = c.job => b = c
      /\ extractors \ {c} = extractors
  BY SoleHolder
<1>3. "deleted" \notin Stages /\ "failed" \notin Stages /\ "done" \notin Stages
      /\ "queued" \notin Stages
  BY DEF Stages
<1>4. CASE MarkJobStage(c)
  <2>1. CASE jobs[c.job].status = c.stage /\ Current(c)
    <3>1. PICK stage : stage = Successor[c.stage]
      OBVIOUS
    <3>2. stage # "queued"
      BY <1>1, <1>4, <3>1 DEF MarkJobStage, MayAdvance, Successor, Stages
    <3>3. PICK new : new = [c EXCEPT !.stage = stage]
      OBVIOUS
    <3>4. new.job = c.job
      BY <3>3 DEF IInv, TypeOK, Indexer
    <3>5. /\ jobs' = [jobs EXCEPT ![c.job].status = stage]
          /\ indexers' = (indexers \ {c}) \cup {new}
          /\ extractors' = extractors /\ restarts' = restarts
      BY <1>4, <2>1, <3>1, <3>3 DEF MarkJobStage
    <3>6. /\ DOMAIN jobs' = DOMAIN jobs
          /\ jobs'[c.job].status = stage /\ jobs'[c.job].attempts = jobs[c.job].attempts
          /\ \A i \in DOMAIN jobs \ {c.job} : jobs'[i] = jobs[i]
      BY <1>1, <3>5, StatusSet
    <3>7. TaskInvAt(c.job)'
      BY <1>1, <3>2, <3>4, <3>5, <3>6 DEF TaskInv, TaskInvAt
    <3>8. Tended(c.job)'
      BY <3>4, <3>5 DEF Tended
    <3>9. QED BY <1>2, <3>4, <3>5, <3>6, <3>7, <3>8, OneJobStep
  <2>2. CASE ~(jobs[c.job].status = c.stage /\ Current(c))
    BY <1>1, <1>2, <1>3, <1>4, <2>2, TaskEnds DEF MarkJobStage
  <2>3. QED BY <2>1, <2>2
<1>5. ASSUME NEW mode \in Modes, PublishJob(c, mode)
      PROVE  TaskInv' /\ Tended(c.job)'
  <2>1. CASE Current(c)
    <3>1. PICK T : T = [jobs EXCEPT ![c.job].status = "done"]
      OBVIOUS
    <3>2. PICK new : new = NewJob(c.document, "memory", c.revision)
      OBVIOUS
    <3>3. jobs' = T \/ jobs' = Append(T, new)
      BY <1>1, <1>5, <2>1, <3>1, <3>2 DEF PublishJob, FinishJob
    <3>4. /\ DOMAIN T = DOMAIN jobs /\ T[c.job].status = "done"
          /\ T[c.job].attempts = jobs[c.job].attempts
          /\ \A i \in DOMAIN jobs \ {c.job} : T[i] = jobs[i]
      BY <1>1, <3>1, Rows DEF IInv, Job
    <3>5. T \in Seq(Job)
      BY <3>1, JobStatusTyped DEF JobStates, IInv
    <3>6. new \in Job /\ new.attempts = 0 /\ new.status = "queued"
      BY <1>1, <3>2, Rows, IndexerClaim DEF IInv, NewJob, Job, Published, JobStates, ActiveStates
    <3>7. /\ DOMAIN jobs \subseteq DOMAIN jobs'
          /\ \A i \in DOMAIN jobs : jobs'[i] = T[i]
          /\ \A i \in DOMAIN jobs' \ DOMAIN jobs : jobs'[i] = new
      <4>1. CASE jobs' = T
        BY <3>4, <4>1
      <4>2. CASE jobs' = Append(T, new)
        BY <3>4, <3>5, <3>6, <4>2, InsertedRow, LenProperties
      <4>3. QED BY <3>3, <4>1, <4>2
    <3>8. indexers' = indexers \ {c} /\ extractors' = extractors /\ restarts' = restarts
      BY <1>5 DEF PublishJob
    <3>9. QED BY <1>1, <1>2, <1>3, <3>4, <3>6, <3>7, <3>8, TaskEnds
  <2>2. CASE ~Current(c)
    BY <1>1, <1>2, <1>3, <1>5, <2>2, TaskEnds DEF PublishJob
  <2>3. QED BY <2>1, <2>2
<1>6. CASE FailJob(c)
  <2>1. CASE jobs[c.job].status = "deleted"
    BY <1>1, <1>2, <1>3, <1>6, <2>1, TaskEnds DEF FailJob
  <2>2. CASE jobs[c.job].status # "deleted"
    BY <1>1, <1>2, <1>3, <1>6, <2>2, StatusSet, TaskEnds DEF FailJob
  <2>3. QED BY <2>1, <2>2
<1>7. CASE DeleteEmptyDocument(c)
  <2>1. CASE Current(c) /\ documents[c.document].status \in {"extracting", "chunking"}
    <3>1. /\ DOMAIN jobs' = DOMAIN jobs
          /\ \A i \in DOMAIN jobs : /\ jobs'[i].attempts = jobs[i].attempts
                                    /\ jobs'[i].status \in {jobs[i].status, "deleted"}
          /\ jobs'[c.job].status = "deleted"
      BY <1>1, <1>7, <2>1, Rows
         DEF DeleteEmptyDocument, DeleteRow, WithoutDocument, IInv, Job
    <3>2. /\ indexers' = indexers \ {c} /\ extractors' = extractors
          /\ restarts' = restarts
      BY <1>7 DEF DeleteEmptyDocument
    <3>3. TaskInvAt(c.job)'
      BY <1>1, <1>3, <3>1, <3>2 DEF TaskInv, TaskInvAt
    <3>4. Tended(c.job)'
      BY <1>3, <3>1 DEF Tended
    <3>5. QED BY <1>2, <3>1, <3>2, <3>3, <3>4, OneJobStep
  <2>2. CASE ~(Current(c) /\ documents[c.document].status \in {"extracting", "chunking"})
    <3>1. /\ jobs' = jobs /\ indexers' = indexers \ {c} /\ extractors' = extractors
          /\ restarts' = restarts /\ documents' = documents
      BY <1>7, <2>2 DEF DeleteEmptyDocument
    <3>2. ~Current(c)
      <4>1. c.stage = "chunking" /\ (Current(c) => documents[c.document].status = c.stage)
        BY <1>7, IndexerClaim DEF DeleteEmptyDocument
      <4>2. QED BY <2>2, <4>1
    <3>3. jobs[c.job].status \notin Stages \cup {"queued"}
      BY <1>1, <1>3, <3>2
    <3>4. QED BY <1>2, <3>1, <3>3, TaskEnds
  <2>3. QED BY <2>1, <2>2
<1>8. QED BY <1>4, <1>5, <1>6, <1>7 DEF IndexerStep

LEMMA ExtractorTasks ==
    ASSUME ConstantsAssumption, IInv, TaskInv, NEW c \in extractors, ExtractorStep(c)
    PROVE  TaskInv' /\ Tended(c.job)'
<1>1. /\ c.job \in DOMAIN jobs /\ jobs[c.job] \in Job
      /\ \/ jobs[c.job].status = "extracting" /\ IsActive(c.job) /\ Current(c)
         \/ /\ jobs[c.job].status \in {"failed", "deleted"}
            /\ ~IsActive(c.job) /\ ~Current(c)
  BY ExtractorClaim, Rows DEF IInv
<1>2. /\ \A b \in (indexers \cup extractors) \ {c} : b.job # c.job
      /\ indexers \ {c} = indexers
  BY SoleHolder
<1>3. "deleted" \notin Stages /\ "failed" \notin Stages /\ "done" \notin Stages
      /\ "queued" \notin Stages
  BY DEF Stages
<1>4. c.attempts = jobs[c.job].attempts
  BY DEF TaskInv
\* The claim is kept, under new colours.
<1>5. ASSUME NEW new, new.job = c.job, new.attempts = c.attempts,
             DOMAIN jobs' = DOMAIN jobs,
             \A i \in DOMAIN jobs \ {c.job} : jobs'[i] = jobs[i],
             jobs'[c.job].status = jobs[c.job].status,
             jobs'[c.job].attempts = jobs[c.job].attempts,
             indexers' = indexers, extractors' = (extractors \ {c}) \cup {new},
             restarts' = restarts
      PROVE  TaskInv' /\ Tended(c.job)'
  <2>1. TaskInvAt(c.job)'
    BY <1>1, <1>5 DEF TaskInv, TaskInvAt
  <2>2. Tended(c.job)'
    BY <1>5 DEF Tended
  <2>3. QED BY <1>2, <1>4, <1>5, <2>1, <2>2, OneJobStep
\* The job was settled before, and the task ends.
<1>6. ASSUME jobs' = jobs, jobs[c.job].status \in {"failed", "deleted"},
             indexers' = indexers, extractors' = extractors \ {c}, restarts' = restarts
      PROVE  TaskInv' /\ Tended(c.job)'
  BY <1>1, <1>2, <1>3, <1>6, TaskEnds
<1>7. CASE CacheMemoryExtraction(c)
  <2>1. CASE jobs[c.job].status = "extracting" /\ Current(c)
    <3>1. PICK new : new = [c EXCEPT !.result = c.content]
      OBVIOUS
    <3>2. new.job = c.job /\ new.attempts = c.attempts
      BY <3>1 DEF IInv, TypeOK, Extractor
    <3>3. PICK row : row = [jobs[c.job] EXCEPT !.cached = c.content]
      OBVIOUS
    <3>4. row.status = jobs[c.job].status /\ row.attempts = jobs[c.job].attempts
      BY <1>1, <3>3 DEF Job
    <3>5. /\ jobs' = [jobs EXCEPT ![c.job] = row]
          /\ indexers' = indexers /\ extractors' = (extractors \ {c}) \cup {new}
          /\ restarts' = restarts
      BY <1>7, <2>1, <3>1, <3>3 DEF CacheMemoryExtraction
    <3>6. QED BY <1>1, <1>5, <3>2, <3>4, <3>5
  <2>2. CASE ~(jobs[c.job].status = "extracting" /\ Current(c))
    <3>1. jobs' = jobs
      BY <1>1, <1>7, <2>2, StaleJobIsSettled DEF CacheMemoryExtraction
    <3>2. QED BY <1>1, <1>6, <1>7, <2>2, <3>1 DEF CacheMemoryExtraction
  <2>3. QED BY <2>1, <2>2
<1>8. ASSUME FinishExtraction(c), indexers' = indexers, restarts' = restarts
      PROVE  TaskInv' /\ Tended(c.job)'
  <2>1. PICK row : row = [jobs[c.job] EXCEPT !.status = "done", !.cached = NoContent]
    OBVIOUS
  <2>2. row.status = "done" /\ row.attempts = jobs[c.job].attempts
    BY <1>1, <2>1 DEF Job
  <2>3. jobs' = [jobs EXCEPT ![c.job] = row] /\ extractors' = extractors \ {c}
    BY <1>1, <1>8, <2>1 DEF FinishExtraction
  <2>4. QED BY <1>1, <1>2, <1>3, <1>8, <2>2, <2>3, TaskEnds
<1>9. CASE ReconcileMemories(c)
  <2>1. CASE Current(c) /\ jobs[c.job].status = "extracting"
    BY <1>8, <1>9, <2>1 DEF ReconcileMemories
  <2>2. CASE ~(Current(c) /\ jobs[c.job].status = "extracting")
    <3>1. PICK new : new = [c EXCEPT !.superseded = TRUE]
      OBVIOUS
    <3>2. new.job = c.job /\ new.attempts = c.attempts
      BY <3>1 DEF IInv, TypeOK, Extractor
    <3>3. QED BY <1>5, <1>9, <2>2, <3>1, <3>2 DEF ReconcileMemories
  <2>3. QED BY <2>1, <2>2
<1>10. CASE CompleteMemoryJob(c)
  <2>1. CASE Current(c) /\ jobs[c.job].status = "extracting"
    BY <1>8, <1>10, <2>1 DEF CompleteMemoryJob
  <2>2. CASE ~(Current(c) /\ jobs[c.job].status = "extracting")
    <3>1. ~Current(c) /\ jobs[c.job].status \in {"failed", "deleted"}
      BY <1>1, <2>2
    <3>2. /\ jobs' = IF jobs[c.job].status = "deleted" THEN jobs
                     ELSE [jobs EXCEPT ![c.job].status = "failed"]
          /\ indexers' = indexers /\ extractors' = extractors \ {c}
          /\ restarts' = restarts
      BY <1>10, <2>2, <3>1 DEF CompleteMemoryJob
    <3>3. CASE jobs[c.job].status = "deleted"
      BY <1>6, <3>2, <3>3
    <3>4. CASE jobs[c.job].status # "deleted"
      BY <1>1, <1>2, <1>3, <3>2, <3>4, StatusSet, TaskEnds
    <3>5. QED BY <3>3, <3>4
  <2>3. QED BY <2>1, <2>2
<1>11. ASSUME NEW failure \in Failures(c), RetryMemoryJob(c, failure)
       PROVE  TaskInv' /\ Tended(c.job)'
  <2>1. indexers' = indexers /\ extractors' = extractors \ {c} /\ restarts' = restarts
    BY <1>11 DEF RetryMemoryJob
  <2>2. CASE ~Current(c)
    <3>1. jobs' = jobs
      BY <1>1, <1>11, <2>2, StaleJobIsSettled DEF RetryMemoryJob
    <3>2. QED BY <1>1, <1>6, <2>1, <2>2, <3>1
  <2>3. CASE Current(c)
    <3>1. PICK terminal \in BOOLEAN : terminal = IsTerminal(c, failure)
      BY DEF IsTerminal
    <3>2. PICK row : row = [jobs[c.job] EXCEPT
                              !.status = IF terminal THEN "failed" ELSE "queued",
                              !.delayed = ~terminal]
      OBVIOUS
    <3>3. /\ row.status = IF terminal THEN "failed" ELSE "queued"
          /\ row.attempts = jobs[c.job].attempts
      BY <1>1, <3>2 DEF Job
    <3>4. jobs' = [jobs EXCEPT ![c.job] = row]
      BY <1>1, <1>11, <2>3, <3>1, <3>2 DEF RetryMemoryJob
    <3>5. ~terminal => jobs[c.job].attempts < MaxAttempts + restarts
      <4>1. /\ MaxAttempts \in Nat /\ restarts \in Nat
            /\ jobs[c.job].attempts \in Nat
        BY <1>1 DEF ConstantsAssumption, IInv, TypeOK, Job
      <4>2. ~terminal => ~(c.attempts >= MaxAttempts)
        BY <3>1 DEF IsTerminal
      <4>3. QED BY <1>4, <4>1, <4>2
    <3>6. QED BY <1>1, <1>2, <1>3, <2>1, <3>3, <3>4, <3>5, TaskEnds
  <2>4. QED BY <2>2, <2>3
<1>12. QED BY <1>7, <1>9, <1>10, <1>11 DEF ExtractorStep

LEMMA ClaimTasks ==
    ASSUME ConstantsAssumption, IInv, TaskInv, ClaimJob \/ ClaimMemoryJob
    PROVE  TaskInv'
\* Nobody holds a queued job.
<1>1. \A b \in indexers \cup extractors : jobs[b.job].status # "queued"
  BY DEF IInv, QueueInv, ClaimInv, NoDoubleClaim
<1>2. "extracting" # "queued"
  OBVIOUS
<1>3. CASE ClaimJob
  <2>1. PICK j \in DOMAIN jobs :
          /\ Oldest(j, Claimable("document"))
          /\ jobs' = [jobs EXCEPT ![j].status = "extracting",
                                  ![j].attempts = jobs[j].attempts + 1]
          /\ \E new : new.job = j /\ indexers' = indexers \cup {new}
    BY <1>3 DEF ClaimJob
  <2>2. PICK new : new.job = j /\ indexers' = indexers \cup {new}
    BY <2>1
  <2>3. jobs[j].status = "queued" /\ extractors' = extractors /\ restarts' = restarts
        /\ jobs[j] \in Job
    BY <1>3, <2>1, Rows DEF ClaimJob, Oldest, Claimable, IInv
  <2>4. PICK row : row = [jobs[j] EXCEPT !.status = "extracting",
                                         !.attempts = jobs[j].attempts + 1]
    OBVIOUS
  <2>5. row.status = "extracting" /\ row.attempts = jobs[j].attempts + 1
    BY <2>3, <2>4 DEF Job
  <2>6. jobs' = [jobs EXCEPT ![j] = row]
    BY <2>1, <2>4
  <2>7. TaskInvAt(j)'
    <3>1. jobs[j].attempts < MaxAttempts + restarts
      BY <2>1, <2>3 DEF TaskInv, TaskInvAt
    <3>2. MaxAttempts \in Nat /\ restarts \in Nat /\ jobs[j].attempts \in Nat
      BY <2>3 DEF ConstantsAssumption, IInv, TypeOK, Job
    <3>3. jobs'[j].status = "extracting" /\ jobs'[j].attempts = jobs[j].attempts + 1
      BY <2>5, <2>6
    <3>4. QED BY <2>3, <3>1, <3>2, <3>3 DEF TaskInvAt
  <2>8. QED BY <1>1, <2>1, <2>2, <2>3, <2>6, <2>7, OneJobStep
<1>4. CASE ClaimMemoryJob
  <2>1. PICK j \in DOMAIN jobs :
          /\ Oldest(j, Claimable("memory"))
          /\ jobs' = [jobs EXCEPT ![j].status = "extracting",
                                  ![j].attempts = jobs[j].attempts + 1]
          /\ \E new : /\ new.job = j /\ new.attempts = jobs[j].attempts + 1
                      /\ extractors' = extractors \cup {new}
    BY <1>4 DEF ClaimMemoryJob
  <2>2. PICK new : /\ new.job = j /\ new.attempts = jobs[j].attempts + 1
                   /\ extractors' = extractors \cup {new}
    BY <2>1
  <2>3. jobs[j].status = "queued" /\ indexers' = indexers /\ restarts' = restarts
        /\ jobs[j] \in Job
    BY <1>4, <2>1, Rows DEF ClaimMemoryJob, Oldest, Claimable, IInv
  <2>4. PICK row : row = [jobs[j] EXCEPT !.status = "extracting",
                                         !.attempts = jobs[j].attempts + 1]
    OBVIOUS
  <2>5. row.status = "extracting" /\ row.attempts = jobs[j].attempts + 1
    BY <2>3, <2>4 DEF Job
  <2>6. jobs' = [jobs EXCEPT ![j] = row]
    BY <2>1, <2>4
  <2>7. TaskInvAt(j)'
    <3>1. jobs[j].attempts < MaxAttempts + restarts
      BY <2>1, <2>3 DEF TaskInv, TaskInvAt
    <3>2. /\ MaxAttempts \in Nat /\ restarts \in Nat /\ jobs[j].attempts \in Nat
      BY <2>3 DEF ConstantsAssumption, IInv, TypeOK, Job
    <3>3. jobs'[j].status = "extracting" /\ jobs'[j].attempts = jobs[j].attempts + 1
      BY <2>5, <2>6
    <3>4. QED BY <2>3, <3>1, <3>2, <3>3 DEF TaskInvAt
  <2>8. QED BY <1>1, <2>1, <2>2, <2>3, <2>5, <2>6, <2>7, OneJobStep
<1>5. QED BY <1>3, <1>4

LEMMA SubmissionTasks ==
    ASSUME ConstantsAssumption, IInv, TaskInv, Submission PROVE TaskInv'
<1>1. /\ 0 \notin DOMAIN jobs /\ DOMAIN jobs = 1 .. Len(jobs)
      /\ \A b \in indexers \cup extractors : b.job # 0
  BY Rows, IndexerClaim, ExtractorClaim DEF IInv
\* None of the jobs that are there moves, but for those given up.
<1>2. ASSUME DOMAIN jobs \subseteq DOMAIN jobs', 0 \notin DOMAIN jobs',
             \A i \in DOMAIN jobs : /\ jobs'[i].attempts = jobs[i].attempts
                                    /\ jobs'[i].status \in {jobs[i].status, "failed", "deleted"},
             \A i \in DOMAIN jobs' \ DOMAIN jobs :
                 jobs'[i].attempts = 0 /\ jobs'[i].status = "queued",
             UNCHANGED <<indexers, extractors, restarts>>
      PROVE  TaskInv'
  BY <1>1, <1>2, OneJobStep
<1>3. ASSUME NEW id \in CustomIds \cup {NoId}, NEW body \in Contents, InsertNew(id, body)
      PROVE  TaskInv'
  <2>1. PICK new : new = NewJob(Len(documents) + 1, "document", 1)
    OBVIOUS
  <2>2. jobs' = Append(jobs, new) /\ new.attempts = 0 /\ new.status = "queued"
    BY <1>3, <2>1 DEF InsertNew, NewJob
  <2>3. /\ DOMAIN jobs' = 1 .. Len(jobs) + 1
        /\ \A i \in DOMAIN jobs : jobs'[i] = jobs[i]
        /\ jobs'[Len(jobs) + 1] = new
    BY <2>2, Rows, LenProperties DEF IInv, TypeOK
  <2>4. \A i \in DOMAIN jobs' \ DOMAIN jobs : i = Len(jobs) + 1
    BY <1>1, <2>3, Rows DEF IInv
  <2>5. Len(jobs) \in Nat
    BY Rows DEF IInv
  <2>6. QED BY <1>1, <1>2, <1>3, <2>2, <2>3, <2>4, <2>5 DEF InsertNew
<1>4. ASSUME NEW d \in DOMAIN documents, NEW body \in Contents, Resubmit(d, body)
      PROVE  TaskInv'
  <2>1. PICK r : r = documents'[d].revision
    OBVIOUS
  <2>2. PICK T : T = FailStaleMemoryJobs(d, r)
    OBVIOUS
  <2>3. PICK new : new = NewJob(d, "document", r)
    OBVIOUS
  <2>4. jobs' = Append(T, new) /\ new.attempts = 0 /\ new.status = "queued"
    BY <1>4, <2>1, <2>2, <2>3 DEF Resubmit, NewJob
  <2>5. /\ DOMAIN T = DOMAIN jobs
        /\ \A i \in DOMAIN jobs : /\ T[i].attempts = jobs[i].attempts
                                  /\ T[i].status \in {jobs[i].status, "failed"}
    BY <2>2, Rows DEF FailStaleMemoryJobs, IInv, Job
  <2>6. T \in Seq(Job)
    <3>1. T \in [DOMAIN jobs -> Job]
      BY <2>2, Rows DEF FailStaleMemoryJobs, Job, JobStates, IInv
    <3>2. QED BY <3>1, MappedRows DEF TypeOK, IInv
  <2>7. Len(T) = Len(jobs) /\ Len(jobs) \in Nat
    BY <2>5, <2>6, Rows, LenProperties DEF IInv
  <2>8. /\ DOMAIN jobs' = 1 .. Len(jobs) + 1
        /\ \A i \in DOMAIN jobs : jobs'[i] = T[i]
        /\ jobs'[Len(jobs) + 1] = new
    BY <2>4, <2>5, <2>6, <2>7, LenProperties
  <2>9. \A i \in DOMAIN jobs' \ DOMAIN jobs : i = Len(jobs) + 1
    BY <1>1, <2>7, <2>8
  <2>10. QED BY <1>1, <1>2, <1>4, <2>4, <2>5, <2>7, <2>8, <2>9 DEF Resubmit
<1>5. ASSUME NEW d \in DOMAIN documents, DeleteDocument(d)
      PROVE  TaskInv'
  <2>1. /\ DOMAIN jobs' = DOMAIN jobs
        /\ \A i \in DOMAIN jobs : /\ jobs'[i].attempts = jobs[i].attempts
                                  /\ jobs'[i].status \in {jobs[i].status, "deleted"}
    BY <1>5, Rows DEF DeleteDocument, DeleteRow, WithoutDocument, IInv, Job
  <2>2. QED BY <1>1, <1>2, <1>5, <2>1 DEF DeleteDocument
<1>6. QED BY <1>3, <1>4, <1>5 DEF Submission

\* A restart gives each job that was running one more attempt, and nobody works.
LEMMA RestartTasks ==
    ASSUME ConstantsAssumption, IInv, TaskInv, Restart PROVE TaskInv'
<1>1. MaxAttempts \in Nat /\ restarts \in Nat /\ restarts' = restarts + 1
      /\ \A j \in DOMAIN jobs : jobs[j] \in Job /\ jobs[j].attempts \in Nat
  BY Rows DEF ConstantsAssumption, IInv, TypeOK, Job, Restart
<1>2. DOMAIN jobs' = DOMAIN jobs /\ extractors' = {}
  BY DEF Restart, RecoveredJobs
<1>3. ASSUME NEW j \in DOMAIN jobs PROVE TaskInvAt(j)'
  <2>1. /\ Requeued(j).attempts = jobs[j].attempts /\ Requeued(j) \in Job
        /\ Requeued(j).status = IF jobs[j].status \in Stages THEN "queued"
                                ELSE jobs[j].status
    BY <1>1 DEF Requeued, Job, JobStates, ActiveStates
  <2>2. jobs'[j].attempts = jobs[j].attempts
        /\ jobs'[j].status \in {Requeued(j).status, "failed"}
    BY <2>1 DEF Restart, RecoveredJobs, Job
  <2>3. jobs'[j].status \notin Stages
    BY <2>1, <2>2 DEF Stages
  <2>4. jobs[j].attempts <= MaxAttempts + restarts
    BY DEF TaskInv, TaskInvAt
  <2>5. QED BY <1>1, <2>2, <2>3, <2>4 DEF TaskInvAt
<1>4. QED BY <1>2, <1>3 DEF TaskInv

LEMMA DelayTasks ==
    ASSUME ConstantsAssumption, IInv, TaskInv, NEW j \in DOMAIN jobs, DelayElapses(j)
    PROVE  TaskInv'
<1>1. PICK row : row = [jobs[j] EXCEPT !.delayed = FALSE]
  OBVIOUS
<1>2. row.status = jobs[j].status /\ row.attempts = jobs[j].attempts
  BY <1>1, Rows DEF Job, IInv
<1>3. jobs' = [jobs EXCEPT ![j] = row] /\ UNCHANGED <<indexers, extractors, restarts>>
      /\ jobs[j].status = "queued"
  BY <1>1 DEF DelayElapses
<1>4. TaskInvAt(j)'
  BY <1>2, <1>3 DEF TaskInv, TaskInvAt
<1>5. \A b \in indexers \cup extractors : b.job # j
  BY <1>3 DEF IInv, QueueInv, ClaimInv, NoDoubleClaim
<1>6. QED BY <1>2, <1>3, <1>4, <1>5, OneJobStep

LEMMA NextTasks ==
    ASSUME ConstantsAssumption, IInv, TaskInv, [Next]_vars PROVE TaskInv'
<1>1. CASE UNCHANGED vars
  BY <1>1 DEF vars, TaskInv, TaskInvAt
<1>2. CASE Submission
  BY <1>2, SubmissionTasks
<1>3. CASE ClaimJob \/ ClaimMemoryJob
  BY <1>3, ClaimTasks
<1>4. ASSUME NEW c \in indexers, AbortIndexer(c)
      PROVE  TaskInv'
  BY <1>4 DEF AbortIndexer, TaskInv, TaskInvAt
<1>5. ASSUME NEW c \in extractors, AbortExtractor(c)
      PROVE  TaskInv'
  BY <1>5 DEF AbortExtractor, TaskInv, TaskInvAt
<1>6. ASSUME NEW j \in DOMAIN jobs, DelayElapses(j)
      PROVE  TaskInv'
  BY <1>6, DelayTasks
<1>7. QED
  BY <1>1, <1>2, <1>3, <1>4, <1>5, <1>6, IndexerTasks, ExtractorTasks, RestartTasks DEF Next

\* The attempts of a job and the tasks that hold it are what they should be.
THEOREM TasksAccounted == Spec => [](IInv /\ TaskInv)
<1>1. ConstantsAssumption
  BY ConstantsAssumption
<1>2. Init => IInv /\ TaskInv
  BY InitTyped, InitQueueInv DEF IInv, Init, TaskInv
<1>3. IInv /\ TaskInv /\ [Next]_vars => IInv' /\ TaskInv'
  BY <1>1, NextQueueInv, NextTasks
<1>4. QED BY <1>2, <1>3, PTL DEF Spec

\* retry_memory_job stops at MAX_ATTEMPTS; only the recovery of a crashed
\* process gives a job more.
THEOREM AttemptsAreBounded == Spec => []RetryBudget
<1>1. TaskInv => RetryBudget
  BY DEF TaskInv, TaskInvAt, RetryBudget
<1>2. QED BY <1>1, TasksAccounted, PTL

\* No call a task makes with its claim leaves the job in a stage without a task,
\* whatever happened to the job, its document and its revision since the claim.
THEOREM CallsSettleTheirJobs == Spec => NoCallForgetsItsJob
<1>1. ConstantsAssumption
  BY ConstantsAssumption
<1>2. IInv /\ TaskInv /\ [Next]_vars =>
          [/\ \A c \in indexers : IndexerStep(c) => Tended(c.job)'
           /\ \A c \in extractors : ExtractorStep(c) => Tended(c.job)']_vars
  BY <1>1, IndexerTasks, ExtractorTasks
<1>3. QED BY <1>2, TasksAccounted, PTL DEF Spec, NoCallForgetsItsJob
-----------------------------------------------------------------------------
(* Freshness and refinement.  No content of a row changes, only its status. *)
SameBody(d) ==
    /\ documents'[d].content = documents[d].content
    /\ documents'[d].revision = documents[d].revision
    /\ documents'[d].chunks = documents[d].chunks
    /\ documents'[d].extracted = documents[d].extracted

\* A client does not see the step.
Calm(d) ==
    /\ \/ documents'[d].status = documents[d].status
       \/ {documents[d].status, documents'[d].status} \subseteq ActiveStates
    /\ \A j \in JobsOf(d) : jobs[j].kind = "document" => (IsActive(j)' <=> IsActive(j))

\* It failed, or was deleted.
Moved(d) ==
    \/ documents[d].status \in ActiveStates /\ documents'[d].status = "failed"
    \/ documents[d].status # "deleted" /\ documents'[d].status = "deleted"

SameWork(j) ==
    /\ SameJob(j)
    /\ jobs'[j].cached = jobs[j].cached
    /\ IsActive(j)' => IsActive(j)

Quiet ==
    /\ DOMAIN documents' = DOMAIN documents /\ DOMAIN jobs' = DOMAIN jobs
    /\ \A d \in DOMAIN documents : SameBody(d)
    /\ \A j \in DOMAIN jobs : SameWork(j)
    /\ \/ \A d \in DOMAIN documents : Calm(d)
       \/ \E m \in DOMAIN documents :
             Moved(m) /\ \A d \in DOMAIN documents \ {m} : Calm(d)

\* What tasks know: a claim's body is that of its revision, and a result was
\* made from it.
Knows(c) ==
    documents[c.document].revision = c.revision => documents[c.document].content = c.content

ClaimsKnow ==
    /\ \A c \in indexers \cup extractors : Knows(c)
    /\ \A c \in extractors : c.result \in {NoContent, c.content}

\* The part of freshness that speaks of document d and its jobs: memories are
\* only looked for in a body that is searchable, and only once it is.
FreshAt(d) ==
    /\ documents[d].status = "done" => documents[d].chunks = documents[d].content
    /\ \A j \in JobsOf(d) :
          /\ IsActive(j) => jobs[j].cached \in {NoContent, documents[d].content}
          /\ jobs[j].kind = "memory" =>
                /\ IsActive(j) => documents[d].chunks = documents[d].content
                /\ documents[d].status = "done" /\ jobs[j].revision = documents[d].revision
                      => documents[d].extracted = documents[d].content
                /\ \A i \in JobsOf(d) : jobs[i].kind = "document" /\ IsActive(i) =>
                                            jobs[i].revision # jobs[j].revision

Fresh ==
    /\ \A d \in DOMAIN documents : FreshAt(d)
    /\ ClaimsKnow

FullInv == IInv /\ Fresh

\* What a client sees of a row.
Seen(d) == [body |-> documents[d].content, phase |-> Phase(d),
            searchable |-> documents[d].chunks, remembered |-> documents[d].extracted]

PublishesNow ==
    \A d \in DOMAIN documents :
        /\ documents'[d].chunks # documents[d].chunks =>
               documents'[d].chunks = documents'[d].content
        /\ documents'[d].extracted # documents[d].extracted =>
               documents'[d].extracted = documents'[d].content

SettlesNow ==
    \A d \in DOMAIN documents :
        documents[d].status \in {"done", "failed"} =>
            \/ documents'[d].status \in {documents[d].status, "deleted"}
            \/ documents'[d].revision = documents[d].revision + 1

\* What every step has to show beside QueueInv'.
Sound == Fresh' /\ (Lifecycle!Next \/ View' = View) /\ PublishesNow /\ SettlesNow

-----------------------------------------------------------------------------
(* Rows.                                                                   *)

LEMMA DocumentRow ==
    ASSUME TypeOK, NEW d \in DOMAIN documents, NEW status,
           documents' = [documents EXCEPT ![d].status = status]
    PROVE  /\ DOMAIN documents' = DOMAIN documents
           /\ documents'[d].status = status
           /\ \A e \in DOMAIN documents : SameBody(e)
           /\ \A e \in DOMAIN documents \ {d} : documents'[e] = documents[e]
<1>1. documents[d] \in Document
  BY Rows
<1>2. SameBody(d) /\ documents'[d].status = status
  BY <1>1 DEF Document, SameBody
<1>3. \A e \in DOMAIN documents \ {d} : documents'[e] = documents[e]
  OBVIOUS
<1>4. QED BY <1>2, <1>3 DEF SameBody

LEMMA JobStatusOnly ==
    ASSUME TypeOK, NEW j \in DOMAIN jobs, NEW status,
           jobs' = [jobs EXCEPT ![j].status = status]
    PROVE  /\ DOMAIN jobs' = DOMAIN jobs /\ jobs'[j].status = status
           /\ \A i \in DOMAIN jobs : SameJob(i) /\ jobs'[i].cached = jobs[i].cached
           /\ \A i \in DOMAIN jobs \ {j} : jobs'[i] = jobs[i]
<1>1. jobs[j] \in Job
  BY Rows
<1>2. SameJob(j) /\ jobs'[j].cached = jobs[j].cached /\ jobs'[j].status = status
  BY <1>1 DEF Job, SameJob
<1>3. \A i \in DOMAIN jobs \ {j} : jobs'[i] = jobs[i]
  OBVIOUS
<1>4. QED BY <1>2, <1>3 DEF SameJob

\* A step that leaves both tables alone is quiet.
LEMMA UnchangedIsQuiet == ASSUME UNCHANGED <<documents, jobs>> PROVE Quiet
  BY DEF Quiet, SameBody, SameWork, SameJob, Calm, IsActive

\* A step of one job j that is active, and of its document.
LEMMA OneJobIsQuiet ==
    ASSUME NEW j \in DOMAIN jobs, NEW d \in DOMAIN documents, jobs[j].document = d,
           DOMAIN documents' = DOMAIN documents, DOMAIN jobs' = DOMAIN jobs,
           \A e \in DOMAIN documents : SameBody(e),
           \A e \in DOMAIN documents \ {d} : documents'[e] = documents[e],
           \A i \in DOMAIN jobs : SameJob(i) /\ jobs'[i].cached = jobs[i].cached,
           \A i \in DOMAIN jobs \ {j} : jobs'[i] = jobs[i],
           IsActive(j), documents[d].status \in ActiveStates,
           \/ IsActive(j)' /\ documents'[d].status \in ActiveStates
           \/ documents'[d].status = "failed"
    PROVE  Quiet
<1>1. \A i \in DOMAIN jobs \ {j} : IsActive(i)' <=> IsActive(i)
  BY DEF IsActive
<1>2. \A i \in DOMAIN jobs : SameWork(i)
  BY <1>1 DEF SameWork
<1>3. \A e \in DOMAIN documents \ {d} : Calm(e)
  BY <1>1 DEF Calm, JobsOf
<1>4. CASE IsActive(j)' /\ documents'[d].status \in ActiveStates
  BY <1>1, <1>2, <1>3, <1>4 DEF Quiet, Calm, JobsOf
<1>5. CASE documents'[d].status = "failed"
  BY <1>2, <1>3, <1>5 DEF Quiet, Moved
<1>6. QED BY <1>4, <1>5

-----------------------------------------------------------------------------
(* Quiet steps.                                                            *)

LEMMA ClaimJobQuiet == ASSUME IInv, ClaimJob PROVE Quiet
<1>1. PICK j \in DOMAIN jobs :
        /\ Oldest(j, Claimable("document"))
        /\ jobs' = [jobs EXCEPT ![j].status = "extracting",
                                ![j].attempts = jobs[j].attempts + 1]
        /\ documents' = [documents EXCEPT ![jobs[j].document].status = "extracting"]
  BY DEF ClaimJob
<1>2. /\ jobs[j].status = "queued" /\ jobs[j].kind = "document"
      /\ jobs[j].document \in DOMAIN documents
  BY <1>1 DEF Oldest, Claimable, Live
<1>3. IsActive(j)
  BY <1>2 DEF IsActive, ActiveStates
<1>4. documents[jobs[j].document].status = "queued"
  BY <1>2, <1>3 DEF IInv, QueueInv, TableInv, StatusMatchesActiveJob, JobExplainsStatus
<1>5. /\ "queued" \in ActiveStates /\ "extracting" \in ActiveStates
  BY DEF ActiveStates, Stages
<1>6. PICK d \in DOMAIN documents : d = jobs[j].document
  BY <1>2
<1>7. /\ DOMAIN documents' = DOMAIN documents
      /\ documents'[d].status = "extracting"
      /\ \A e \in DOMAIN documents : SameBody(e)
      /\ \A e \in DOMAIN documents \ {d} : documents'[e] = documents[e]
  <2>1. documents' = [documents EXCEPT ![d].status = "extracting"]
    BY <1>1, <1>6
  <2>2. QED BY <2>1, DocumentRow DEF IInv
<1>8. /\ DOMAIN jobs' = DOMAIN jobs /\ jobs'[j].status = "extracting"
      /\ \A i \in DOMAIN jobs : SameJob(i) /\ jobs'[i].cached = jobs[i].cached
      /\ \A i \in DOMAIN jobs \ {j} : jobs'[i] = jobs[i]
  <2>1. jobs[j] \in Job
    BY Rows DEF IInv
  <2>2. PICK row : row = [jobs[j] EXCEPT !.status = "extracting",
                                         !.attempts = jobs[j].attempts + 1]
    OBVIOUS
  <2>3. /\ row.status = "extracting" /\ row.cached = jobs[j].cached
        /\ row.document = jobs[j].document /\ row.kind = jobs[j].kind
        /\ row.revision = jobs[j].revision
    BY <2>1, <2>2 DEF Job
  <2>4. jobs' = [jobs EXCEPT ![j] = row]
    BY <1>1, <2>2
  <2>5. QED BY <2>3, <2>4 DEF SameJob
<1>9. IsActive(j)'
  BY <1>5, <1>8 DEF IsActive
<1>10. documents[d].status \in ActiveStates /\ documents'[d].status \in ActiveStates
  BY <1>4, <1>5, <1>6, <1>7
<1>11. QED
  BY <1>3, <1>6, <1>7, <1>8, <1>9, <1>10, OneJobIsQuiet

LEMMA MarkJobStageQuiet == ASSUME IInv, NEW c \in indexers, MarkJobStage(c) PROVE Quiet
<1>1. /\ c.job \in DOMAIN jobs /\ c.document \in DOMAIN documents
      /\ jobs[c.job].document = c.document
      /\ c.stage \in Stages
      /\ \/ jobs[c.job].status = c.stage /\ IsActive(c.job) /\ Current(c)
            /\ documents[c.document].status = c.stage
         \/ jobs[c.job].status = "deleted" /\ ~Current(c)
  BY IndexerClaim
<1>2. CASE jobs[c.job].status = c.stage /\ Current(c)
  <2>1. /\ jobs' = [jobs EXCEPT ![c.job].status = Successor[c.stage]]
        /\ documents' = [documents EXCEPT ![c.document].status = Successor[c.stage]]
    BY <1>2 DEF MarkJobStage
  <2>2. Successor[c.stage] \in ActiveStates
    BY <1>1 DEF MarkJobStage, MayAdvance, Successor, ActiveStates, Stages
  <2>3. PICK stage : stage = Successor[c.stage]
    OBVIOUS
  <2>4. /\ DOMAIN documents' = DOMAIN documents
        /\ documents'[c.document].status = stage
        /\ \A e \in DOMAIN documents : SameBody(e)
        /\ \A e \in DOMAIN documents \ {c.document} : documents'[e] = documents[e]
    BY <1>1, <2>1, <2>3, DocumentRow DEF IInv
  <2>5. /\ DOMAIN jobs' = DOMAIN jobs /\ jobs'[c.job].status = stage
        /\ \A i \in DOMAIN jobs : SameJob(i) /\ jobs'[i].cached = jobs[i].cached
        /\ \A i \in DOMAIN jobs \ {c.job} : jobs'[i] = jobs[i]
    BY <1>1, <2>1, <2>3, JobStatusOnly DEF IInv
  <2>6. IsActive(c.job)' /\ documents'[c.document].status \in ActiveStates
    BY <2>2, <2>3, <2>4, <2>5 DEF IsActive
  <2>7. documents[c.document].status \in ActiveStates /\ IsActive(c.job)
    BY <1>1, <1>2 DEF ActiveStates
  <2>8. QED
    BY <1>1, <2>4, <2>5, <2>6, <2>7, OneJobIsQuiet
<1>3. CASE ~(jobs[c.job].status = c.stage /\ Current(c))
  BY <1>3, UnchangedIsQuiet DEF MarkJobStage
<1>4. QED BY <1>2, <1>3

LEMMA FailJobQuiet == ASSUME IInv, NEW c \in indexers, FailJob(c) PROVE Quiet
<1>1. /\ c.job \in DOMAIN jobs /\ c.document \in DOMAIN documents
      /\ jobs[c.job].document = c.document
      /\ c.stage \in Stages
      /\ \/ jobs[c.job].status = c.stage /\ IsActive(c.job) /\ Current(c)
            /\ documents[c.document].status = c.stage
         \/ jobs[c.job].status = "deleted" /\ ~Current(c)
  BY IndexerClaim
<1>2. CASE Current(c)
  <2>1. /\ jobs' = [jobs EXCEPT ![c.job].status = "failed"]
        /\ documents' = [documents EXCEPT ![c.document].status = "failed"]
    BY <1>1, <1>2 DEF FailJob, Stages
  <2>2. documents[c.document].status \in ActiveStates /\ IsActive(c.job)
    BY <1>1, <1>2 DEF ActiveStates
  <2>3. /\ DOMAIN documents' = DOMAIN documents
        /\ documents'[c.document].status = "failed"
        /\ \A e \in DOMAIN documents : SameBody(e)
        /\ \A e \in DOMAIN documents \ {c.document} : documents'[e] = documents[e]
    BY <1>1, <2>1, DocumentRow DEF IInv
  <2>4. /\ DOMAIN jobs' = DOMAIN jobs
        /\ \A i \in DOMAIN jobs : SameJob(i) /\ jobs'[i].cached = jobs[i].cached
        /\ \A i \in DOMAIN jobs \ {c.job} : jobs'[i] = jobs[i]
    BY <1>1, <2>1, JobStatusOnly DEF IInv
  <2>5. QED BY <1>1, <2>2, <2>3, <2>4, OneJobIsQuiet
<1>3. CASE ~Current(c)
  BY <1>1, <1>3, UnchangedIsQuiet DEF FailJob
<1>4. QED BY <1>2, <1>3

LEMMA DeleteRowQuiet ==
    ASSUME IInv, NEW d \in DOMAIN documents, documents[d].status # "deleted", DeleteRow(d)
    PROVE  Quiet
<1>1. /\ DOMAIN documents' = DOMAIN documents /\ documents'[d].status = "deleted"
      /\ \A e \in DOMAIN documents : SameBody(e)
      /\ \A e \in DOMAIN documents \ {d} : documents'[e] = documents[e]
  BY DocumentRow DEF IInv, DeleteRow
<1>2. DOMAIN jobs' = DOMAIN jobs
  BY DEF DeleteRow, WithoutDocument
<1>3. ASSUME NEW j \in DOMAIN jobs
      PROVE  /\ SameJob(j) /\ jobs'[j].cached = jobs[j].cached
             /\ jobs[j].document # d => jobs'[j] = jobs[j]
             /\ jobs[j].document = d => jobs'[j].status = "deleted"
  BY <1>3, Rows DEF DeleteRow, WithoutDocument, SameJob, Job, IInv
<1>4. \A j \in DOMAIN jobs : /\ IsActive(j)' => IsActive(j)
                             /\ jobs[j].document # d => (IsActive(j)' <=> IsActive(j))
  BY <1>3 DEF IsActive, ActiveStates, Stages
<1>5. \A e \in DOMAIN documents \ {d} : Calm(e)
  BY <1>1, <1>4 DEF Calm, JobsOf
<1>6. QED BY <1>1, <1>2, <1>3, <1>4, <1>5 DEF Quiet, Moved, SameWork

LEMMA ClaimMemoryJobQuiet == ASSUME IInv, ClaimMemoryJob PROVE Quiet
<1>1. PICK j \in DOMAIN jobs :
        /\ Oldest(j, Claimable("memory"))
        /\ jobs' = [jobs EXCEPT ![j].status = "extracting",
                                ![j].attempts = jobs[j].attempts + 1]
  BY DEF ClaimMemoryJob
<1>2. jobs[j].status = "queued" /\ jobs[j].kind = "memory" /\ jobs[j] \in Job
  BY <1>1, Rows DEF Oldest, Claimable, IInv
<1>3. PICK row : row = [jobs[j] EXCEPT !.status = "extracting",
                                       !.attempts = jobs[j].attempts + 1]
  OBVIOUS
<1>4. /\ row.document = jobs[j].document /\ row.kind = jobs[j].kind
      /\ row.revision = jobs[j].revision /\ row.cached = jobs[j].cached
      /\ row.status = "extracting"
  BY <1>2, <1>3 DEF Job
<1>5. jobs' = [jobs EXCEPT ![j] = row]
  BY <1>1, <1>3
<1>6. \A i \in DOMAIN jobs : /\ SameJob(i) /\ jobs'[i].cached = jobs[i].cached
                             /\ IsActive(i)' <=> IsActive(i)
  BY <1>2, <1>4, <1>5 DEF SameJob, IsActive, ActiveStates, Stages
<1>7. documents' = documents /\ DOMAIN jobs' = DOMAIN jobs
  BY <1>5 DEF ClaimMemoryJob
<1>8. QED BY <1>6, <1>7 DEF Quiet, SameWork, SameBody, Calm, JobsOf

\* A memory task that gives a job up, or back to the queue.
LEMMA MemoryJobQuiet ==
    ASSUME IInv, NEW c \in extractors, NEW status,
           DOMAIN jobs' = DOMAIN jobs,
           \A i \in DOMAIN jobs : SameJob(i) /\ jobs'[i].cached = jobs[i].cached,
           \A i \in DOMAIN jobs \ {c.job} : jobs'[i] = jobs[i],
           jobs'[c.job].status = status,
           \/ documents' = documents /\ (IsActive(c.job)' => IsActive(c.job))
           \/ /\ documents' = [documents EXCEPT ![c.document].status = "failed"]
              /\ IsActive(c.job)
    PROVE  Quiet
<1>1. /\ c.job \in DOMAIN jobs /\ c.document \in DOMAIN documents
      /\ jobs[c.job].document = c.document /\ jobs[c.job].kind = "memory"
      /\ IsActive(c.job) => documents[c.document].status = "indexing"
  BY ExtractorClaim
<1>2. \A i \in DOMAIN jobs \ {c.job} : IsActive(i)' <=> IsActive(i)
  BY DEF IsActive
<1>3. CASE documents' = documents /\ (IsActive(c.job)' => IsActive(c.job))
  BY <1>1, <1>2, <1>3 DEF Quiet, SameWork, SameBody, Calm, JobsOf
<1>4. CASE /\ documents' = [documents EXCEPT ![c.document].status = "failed"]
           /\ IsActive(c.job)
  <2>1. documents[c.document].status \in ActiveStates
    BY <1>1, <1>4 DEF ActiveStates, Stages
  <2>2. /\ DOMAIN documents' = DOMAIN documents
        /\ documents'[c.document].status = "failed"
        /\ \A e \in DOMAIN documents : SameBody(e)
        /\ \A e \in DOMAIN documents \ {c.document} : documents'[e] = documents[e]
    BY <1>1, <1>4, DocumentRow DEF IInv
  <2>3. QED
    BY <1>1, <1>4, <2>1, <2>2, OneJobIsQuiet
<1>5. QED BY <1>3, <1>4

LEMMA RetryMemoryJobQuiet ==
    ASSUME IInv, NEW c \in extractors, NEW failure \in Failures(c),
           RetryMemoryJob(c, failure)
    PROVE  Quiet
<1>1. /\ c.job \in DOMAIN jobs /\ c.document \in DOMAIN documents
      /\ \/ jobs[c.job].status = "extracting" /\ IsActive(c.job) /\ Current(c)
         \/ ~IsActive(c.job) /\ ~Current(c)
      /\ jobs[c.job] \in Job
  BY ExtractorClaim, Rows DEF IInv
<1>2. CASE ~Current(c)
  BY <1>1, <1>2, UnchangedIsQuiet DEF RetryMemoryJob, MarkMemoryJobStale
<1>3. CASE Current(c)
  <2> DEFINE terminal == IsTerminal(c, failure)
             status == IF terminal THEN "failed" ELSE "queued"
  <2>1. /\ jobs' = [jobs EXCEPT ![c.job].status = status, ![c.job].delayed = ~terminal]
        /\ documents' = IF terminal
                        THEN [documents EXCEPT ![c.document].status = "failed"]
                        ELSE documents
        /\ jobs[c.job].status = "extracting" /\ IsActive(c.job)
    BY <1>1, <1>3 DEF RetryMemoryJob
  <2>2. PICK row : row = [jobs[c.job] EXCEPT !.status = status, !.delayed = ~terminal]
    OBVIOUS
  <2>3. /\ row.document = jobs[c.job].document /\ row.kind = jobs[c.job].kind
        /\ row.revision = jobs[c.job].revision /\ row.cached = jobs[c.job].cached
        /\ row.status = status
    BY <1>1, <2>2 DEF Job
  <2>4. jobs' = [jobs EXCEPT ![c.job] = row]
    BY <2>1, <2>2
  <2>5. /\ DOMAIN jobs' = DOMAIN jobs /\ jobs'[c.job].status = status
        /\ \A i \in DOMAIN jobs : SameJob(i) /\ jobs'[i].cached = jobs[i].cached
        /\ \A i \in DOMAIN jobs \ {c.job} : jobs'[i] = jobs[i]
    BY <1>1, <2>3, <2>4 DEF SameJob
  <2>6. QED BY <2>1, <2>5, MemoryJobQuiet
<1>4. QED BY <1>2, <1>3

LEMMA CompleteStaleQuiet ==
    ASSUME IInv, NEW c \in extractors, CompleteMemoryJob(c),
           ~(Current(c) /\ jobs[c.job].status = "extracting")
    PROVE  Quiet
<1>1. /\ c.job \in DOMAIN jobs /\ ~Current(c) /\ ~IsActive(c.job)
  BY ExtractorClaim
<1>2. documents' = documents
      /\ jobs' = IF jobs[c.job].status = "deleted" THEN jobs
                 ELSE [jobs EXCEPT ![c.job].status = "failed"]
  BY <1>1 DEF CompleteMemoryJob
<1>3. CASE jobs[c.job].status = "deleted"
  BY <1>2, <1>3, UnchangedIsQuiet
<1>4. CASE jobs[c.job].status # "deleted"
  <2>1. /\ DOMAIN jobs' = DOMAIN jobs /\ jobs'[c.job].status = "failed"
        /\ \A i \in DOMAIN jobs : SameJob(i) /\ jobs'[i].cached = jobs[i].cached
        /\ \A i \in DOMAIN jobs \ {c.job} : jobs'[i] = jobs[i]
    BY <1>1, <1>2, <1>4, JobStatusOnly DEF IInv
  <2>2. ~IsActive(c.job)'
    BY <2>1 DEF IsActive, ActiveStates, Stages
  <2>3. QED BY <1>1, <1>2, <2>1, <2>2, MemoryJobQuiet
<1>5. QED BY <1>3, <1>4

LEMMA DelayElapsesQuiet ==
    ASSUME IInv, NEW j \in DOMAIN jobs, DelayElapses(j) PROVE Quiet
<1>1. PICK row : row = [jobs[j] EXCEPT !.delayed = FALSE]
  OBVIOUS
<1>2. /\ row.document = jobs[j].document /\ row.kind = jobs[j].kind
      /\ row.revision = jobs[j].revision /\ row.cached = jobs[j].cached
      /\ row.status = jobs[j].status
  BY <1>1, Rows DEF Job, IInv
<1>3. jobs' = [jobs EXCEPT ![j] = row] /\ documents' = documents
  BY <1>1 DEF DelayElapses
<1>4. \A i \in DOMAIN jobs : /\ SameJob(i) /\ jobs'[i].cached = jobs[i].cached
                             /\ IsActive(i)' <=> IsActive(i)
  BY <1>2, <1>3 DEF SameJob, IsActive
<1>5. DOMAIN jobs' = DOMAIN jobs
  BY <1>3
<1>6. QED BY <1>3, <1>4, <1>5 DEF Quiet, SameWork, SameBody, Calm, JobsOf

LEMMA RestartQuiet == ASSUME IInv, Restart PROVE Quiet
<1>1. /\ \A d \in DOMAIN documents : documents[d] \in Document
      /\ \A j \in DOMAIN jobs : jobs[j] \in Job
  BY Rows DEF IInv
<1>2. ASSUME NEW j \in DOMAIN jobs
      PROVE  /\ SameJob(j) /\ jobs'[j].cached = jobs[j].cached
             /\ IsActive(j)' <=> IsActive(j)
  <2>1. /\ Requeued(j).document = jobs[j].document /\ Requeued(j).kind = jobs[j].kind
        /\ Requeued(j).revision = jobs[j].revision /\ Requeued(j).cached = jobs[j].cached
        /\ Requeued(j).status = IF jobs[j].status \in Stages THEN "queued"
                                ELSE jobs[j].status
    BY <1>1 DEF Requeued, Job
  <2>2. Requeued(j).status = "queued" => IsActive(j)
    BY <2>1 DEF IsActive, ActiveStates
  <2>3. IsActive(j) => /\ Live(jobs[j].document)
                       /\ jobs[j].revision = documents[jobs[j].document].revision
    BY DEF IInv, QueueInv, TableInv, ActiveJobIsCurrent
  <2>4. ~IsOrphan(Requeued(j))
    BY <2>1, <2>2, <2>3 DEF IsOrphan
  <2>5. jobs'[j] = Requeued(j)
    BY <2>4 DEF Restart, RecoveredJobs
  <2>6. QED BY <2>1, <2>5 DEF SameJob, IsActive, ActiveStates
<1>3. ASSUME NEW d \in DOMAIN documents
      PROVE  /\ SameBody(d)
             /\ \/ documents'[d].status = documents[d].status
                \/ {documents[d].status, documents'[d].status} \subseteq ActiveStates
  <2>1. documents'[d] = RecoveredDocuments[d] /\ documents[d] \in Document
    BY <1>1 DEF Restart
  <2>2. \/ documents'[d] = documents[d]
        \/ /\ documents[d].status \in Stages
           /\ \/ documents'[d] = [documents[d] EXCEPT !.status = "queued"]
              \/ documents'[d] = [documents[d] EXCEPT !.status = "indexing"]
    BY <2>1 DEF RecoveredDocuments
  <2>3. QED BY <2>1, <2>2 DEF Document, SameBody, ActiveStates, Stages
<1>4. DOMAIN documents' = DOMAIN documents /\ DOMAIN jobs' = DOMAIN jobs
  BY DEF Restart, RecoveredDocuments, RecoveredJobs
<1>5. QED BY <1>2, <1>3, <1>4 DEF Quiet, SameWork, Calm, JobsOf

-----------------------------------------------------------------------------
(* What the steps of one document leave of the others.                     *)

\* A document whose rows are not touched stays fresh and looks the same.
LEMMA Untouched ==
    ASSUME NEW e \in DOMAIN documents, documents'[e] = documents[e],
           JobsOf(e)' = JobsOf(e), \A j \in JobsOf(e) : jobs'[j] = jobs[j]
    PROVE  (FreshAt(e) => FreshAt(e)') /\ Seen(e)' = Seen(e)
<1>1. \A j \in JobsOf(e) : IsActive(j)' <=> IsActive(j)
  BY DEF IsActive
<1>2. FreshAt(e) => FreshAt(e)'
  BY <1>1 DEF FreshAt
<1>3. HasActiveDocumentJob(e, documents[e].revision)'
      <=> HasActiveDocumentJob(e, documents[e].revision)
  BY <1>1 DEF HasActiveDocumentJob, JobsOf
<1>4. Phase(e)' = Phase(e)
  BY <1>3 DEF Phase
<1>5. QED BY <1>2, <1>4 DEF Seen

\* One entry of the view changes.
LEMMA OneEntry ==
    ASSUME NEW d \in DOMAIN documents, DOMAIN documents' = DOMAIN documents,
           \A e \in DOMAIN documents \ {d} : Seen(e)' = Seen(e)
    PROVE  View' = [View EXCEPT ![d] = Seen(d)']
<1>1. View = [e \in DOMAIN documents |-> Seen(e)]
  BY DEF View, Seen
<1>2. View' = [e \in DOMAIN documents |-> Seen(e)']
  BY DEF View, Seen
<1>3. QED BY <1>1, <1>2

\* None does.
LEMMA NoEntry ==
    ASSUME DOMAIN documents' = DOMAIN documents,
           \A e \in DOMAIN documents : Seen(e)' = Seen(e)
    PROVE  View' = View
<1>1. View = [e \in DOMAIN documents |-> Seen(e)]
  BY DEF View, Seen
<1>2. View' = [e \in DOMAIN documents |-> Seen(e)']
  BY DEF View, Seen
<1>3. QED BY <1>1, <1>2

\* The claims that were there, and those of this step.
LEMMA ClaimsStayKnowing ==
    ASSUME ClaimsKnow,
           \A c \in indexers \cup extractors : Knows(c)',
           \A c \in indexers' :
               \/ \E b \in indexers : /\ c.document = b.document
                                       /\ c.revision = b.revision
                                       /\ c.content = b.content
               \/ Knows(c)',
           \A c \in extractors' :
               \/ \E b \in extractors : /\ c.document = b.document
                                         /\ c.revision = b.revision
                                         /\ c.content = b.content
                                         /\ c.result \in {b.result, b.content}
               \/ c.result \in {NoContent, c.content} /\ Knows(c)'
    PROVE  ClaimsKnow'
<1>1. ASSUME NEW c \in indexers' PROVE Knows(c)'
  BY <1>1 DEF Knows
<1>2. ASSUME NEW c \in extractors' PROVE Knows(c)' /\ c.result \in {NoContent, c.content}
  BY <1>2 DEF Knows, ClaimsKnow
<1>3. QED BY <1>1, <1>2 DEF ClaimsKnow

\* While no body changes, tasks know what they knew.
LEMMA BodiesKept ==
    ASSUME IInv, ClaimsKnow,
           \A d \in DOMAIN documents : /\ documents'[d].content = documents[d].content
                                        /\ documents'[d].revision = documents[d].revision
    PROVE  \A c \in indexers \cup extractors : Knows(c)'
<1>1. \A c \in indexers \cup extractors : c.document \in DOMAIN documents
  BY IndexerClaim, ExtractorClaim
<1>2. QED BY <1>1 DEF Knows, ClaimsKnow

-----------------------------------------------------------------------------
(* A quiet step.                                                           *)

LEMMA QuietJobs ==
    ASSUME Quiet, NEW d \in DOMAIN documents
    PROVE  /\ JobsOf(d)' = JobsOf(d)
           /\ \A j \in JobsOf(d) : SameWork(j) /\ j \in DOMAIN jobs
  BY DEF Quiet, SameWork, SameJob, JobsOf

LEMMA QuietFresh ==
    ASSUME Quiet, NEW d \in DOMAIN documents, FreshAt(d) PROVE FreshAt(d)'
<1>1. /\ JobsOf(d)' = JobsOf(d)
      /\ \A j \in JobsOf(d) : SameWork(j)
      /\ SameBody(d)
  BY QuietJobs DEF Quiet
<1>2. documents'[d].status = "done" => documents[d].status = "done"
  BY DEF Quiet, Calm, Moved, ActiveStates, Stages
<1>3. QED
  BY <1>1, <1>2 DEF FreshAt, SameWork, SameJob, SameBody

LEMMA CalmSeen ==
    ASSUME Quiet, NEW d \in DOMAIN documents, Calm(d) PROVE Seen(d)' = Seen(d)
<1>1. /\ JobsOf(d)' = JobsOf(d) /\ SameBody(d)
      /\ \A j \in JobsOf(d) : SameJob(j)
  BY QuietJobs DEF Quiet, SameWork
<1>2. HasActiveDocumentJob(d, documents[d].revision)'
      <=> HasActiveDocumentJob(d, documents[d].revision)
  BY <1>1 DEF HasActiveDocumentJob, JobsOf, SameJob, SameBody, Calm
<1>3. Phase(d)' = Phase(d)
  BY <1>2 DEF Phase, Calm, ActiveStates, Stages
<1>4. QED BY <1>1, <1>3 DEF Seen, SameBody

\* A settled document has no job: its status alone decides what a client sees.
LEMMA SettledPhase ==
    ASSUME IInv, NEW d \in DOMAIN documents
    PROVE  /\ documents[d].status = "deleted" <=> Phase(d) = "gone"
           /\ documents[d].status = "failed" <=> Phase(d) = "failed"
           /\ documents[d].status = "done" <=> Phase(d) = "ready"
           /\ HasActiveDocumentJob(d, documents[d].revision) =>
                  documents[d].status \in ActiveStates
<1>1. HasActiveDocumentJob(d, documents[d].revision) => documents[d].status \in ActiveStates
  BY DEF IInv, QueueInv, TableInv, StatusMatchesActiveJob, JobExplainsStatus,
         HasActiveDocumentJob, IsActive
<1>2. QED BY <1>1 DEF Phase, ActiveStates, Stages

LEMMA SettledPhaseNext ==
    ASSUME IInv', NEW d \in DOMAIN documents'
    PROVE  /\ documents'[d].status = "deleted" <=> Phase(d)' = "gone"
           /\ documents'[d].status = "failed" <=> Phase(d)' = "failed"
           /\ documents'[d].status = "done" <=> Phase(d)' = "ready"
<1>1. HasActiveDocumentJob(d, documents[d].revision)' =>
          documents'[d].status \in ActiveStates
  BY DEF IInv, QueueInv, TableInv, StatusMatchesActiveJob, JobExplainsStatus,
         HasActiveDocumentJob, IsActive
<1>2. QED BY <1>1 DEF Phase, ActiveStates, Stages

\* An active document is being prepared, or its memories are looked for.
LEMMA ActivePhase ==
    ASSUME NEW d \in DOMAIN documents, documents[d].status \in ActiveStates
    PROVE  /\ Phase(d) \in {"preparing", "remembering"}
           /\ HasActiveDocumentJob(d, documents[d].revision) => Phase(d) = "preparing"
           /\ ~HasActiveDocumentJob(d, documents[d].revision) => Phase(d) = "remembering"
  BY DEF Phase, ActiveStates, Stages

LEMMA QuietSeen ==
    ASSUME IInv, IInv', Quiet PROVE Lifecycle!Next \/ View' = View
<1>1. CASE \A d \in DOMAIN documents : Calm(d)
  BY <1>1, CalmSeen, NoEntry DEF Quiet
<1>2. ASSUME NEW m \in DOMAIN documents, Moved(m),
             \A d \in DOMAIN documents \ {m} : Calm(d)
      PROVE  Lifecycle!Next
  <2>1. View' = [View EXCEPT ![m] = Seen(m)']
    BY <1>2, CalmSeen, OneEntry DEF Quiet
  <2>2. m \in DOMAIN View /\ View[m] = Seen(m)
    BY DEF View, Seen
  <2>3. SameBody(m)
    BY DEF Quiet
  <2>4. CASE documents[m].status \in ActiveStates /\ documents'[m].status = "failed"
    <3>1. Phase(m)' = "failed" /\ Phase(m) \in {"preparing", "remembering"}
      BY <2>4, ActivePhase, SettledPhaseNext DEF Quiet
    <3>2. Seen(m)' = [Seen(m) EXCEPT !.phase = "failed"]
      BY <2>3, <3>1 DEF Seen, SameBody
    <3>3. View[m].phase = Phase(m)
      BY <2>2 DEF Seen
    <3>4. Lifecycle!Fail(m)
      BY <2>1, <2>2, <3>1, <3>2, <3>3 DEF Lifecycle!Fail
    <3>5. QED BY <2>2, <3>4 DEF Lifecycle!Next
  <2>5. CASE documents[m].status # "deleted" /\ documents'[m].status = "deleted"
    <3>1. Phase(m)' = "gone" /\ Phase(m) # "gone"
      BY <2>5, SettledPhase, SettledPhaseNext DEF Quiet
    <3>2. Seen(m)' = [Seen(m) EXCEPT !.phase = "gone"]
      BY <2>3, <3>1 DEF Seen, SameBody
    <3>3. View[m].phase = Phase(m)
      BY <2>2 DEF Seen
    <3>4. Lifecycle!Remove(m)
      BY <2>1, <2>2, <3>1, <3>2, <3>3 DEF Lifecycle!Remove
    <3>5. QED BY <2>2, <3>4 DEF Lifecycle!Next
  <2>6. QED BY <1>2, <2>4, <2>5 DEF Moved
<1>3. QED BY <1>1, <1>2 DEF Quiet

LEMMA QuietIsSound == ASSUME FullInv, IInv', Quiet, ClaimsKnow' PROVE Sound
<1>1. Fresh'
  BY QuietFresh DEF FullInv, Fresh, Quiet
<1>2. PublishesNow
  BY DEF PublishesNow, Quiet, SameBody
<1>3. SettlesNow
  BY DEF SettlesNow, Quiet, Calm, Moved, ActiveStates, Stages
<1>4. QED BY <1>1, <1>2, <1>3, QuietSeen DEF Sound, FullInv

\* ... after which tasks know no more than before.
LEMMA QuietStep ==
    ASSUME FullInv, IInv', Quiet,
           \A c \in indexers' : \/ \E b \in indexers : /\ c.document = b.document
                                                       /\ c.revision = b.revision
                                                       /\ c.content = b.content
                                \/ Knows(c),
           \A c \in extractors' : \/ \E b \in extractors : /\ c.document = b.document
                                                           /\ c.revision = b.revision
                                                           /\ c.content = b.content
                                                           /\ c.result = b.result
                                  \/ c.result \in {NoContent, c.content} /\ Knows(c),
           \A c \in indexers' \cup extractors' : c.document \in DOMAIN documents
    PROVE  Sound
<1>1. \A c \in indexers \cup extractors : Knows(c)'
  BY BodiesKept DEF FullInv, Fresh, Quiet, SameBody
<1>2. \A c \in indexers' \cup extractors' : Knows(c) => Knows(c)'
  BY DEF Knows, Quiet, SameBody
<1>3. ClaimsKnow'
  BY <1>1, <1>2, ClaimsStayKnowing DEF FullInv, Fresh
<1>4. QED BY <1>3, QuietIsSound

LEMMA QuietDrop ==
    ASSUME FullInv, IInv', Quiet, indexers' \subseteq indexers, extractors' \subseteq extractors
    PROVE  Sound
<1>1. \A c \in indexers \cup extractors : c.document \in DOMAIN documents
  BY IndexerClaim, ExtractorClaim DEF FullInv
<1>2. QED BY <1>1, QuietStep

LEMMA ClaimJobSound == ASSUME FullInv, IInv', ClaimJob PROVE Sound
<1>1. PICK j \in DOMAIN jobs :
        /\ Oldest(j, Claimable("document"))
        /\ indexers' = indexers \cup
             {[job |-> j, document |-> jobs[j].document, revision |-> jobs[j].revision,
               content |-> documents[jobs[j].document].content, stage |-> "extracting"]}
        /\ extractors' = extractors
  BY DEF ClaimJob
<1>2. jobs[j].document \in DOMAIN documents
  BY <1>1 DEF Oldest, Claimable, Live
<1>3. PICK new : new = [job |-> j, document |-> jobs[j].document,
                        revision |-> jobs[j].revision,
                        content |-> documents[jobs[j].document].content,
                        stage |-> "extracting"]
  OBVIOUS
<1>4. Knows(new) /\ new.document \in DOMAIN documents
  BY <1>2, <1>3 DEF Knows
<1>5. \A c \in indexers \cup extractors : c.document \in DOMAIN documents
  BY IndexerClaim, ExtractorClaim DEF FullInv
<1>6. indexers' = indexers \cup {new} /\ extractors' = extractors
  BY <1>1, <1>3
<1>7. Quiet
  BY ClaimJobQuiet DEF FullInv
<1>8. QED BY <1>4, <1>5, <1>6, <1>7, QuietStep

LEMMA ClaimMemoryJobSound == ASSUME FullInv, IInv', ClaimMemoryJob PROVE Sound
<1>1. PICK j \in DOMAIN jobs :
        /\ Oldest(j, Claimable("memory"))
        /\ extractors' = extractors \cup
             {[job |-> j, document |-> jobs[j].document, revision |-> jobs[j].revision,
               content |-> documents[jobs[j].document].content,
               attempts |-> jobs[j].attempts + 1,
               result |-> jobs[j].cached, superseded |-> FALSE]}
        /\ indexers' = indexers
  BY DEF ClaimMemoryJob
<1>2. jobs[j].document \in DOMAIN documents /\ jobs[j].status = "queued"
  BY <1>1 DEF Oldest, Claimable, Live
<1>3. PICK new : new = [job |-> j, document |-> jobs[j].document,
                        revision |-> jobs[j].revision,
                        content |-> documents[jobs[j].document].content,
                        attempts |-> jobs[j].attempts + 1,
                        result |-> jobs[j].cached, superseded |-> FALSE]
  OBVIOUS
<1>4. Knows(new) /\ new.document \in DOMAIN documents
  BY <1>2, <1>3 DEF Knows
<1>5. new.result \in {NoContent, new.content}
  <2>1. IsActive(j) /\ j \in JobsOf(jobs[j].document)
    BY <1>2 DEF IsActive, ActiveStates, JobsOf
  <2>2. jobs[j].cached \in {NoContent, documents[jobs[j].document].content}
    BY <1>2, <2>1 DEF FullInv, Fresh, FreshAt
  <2>3. QED BY <1>3, <2>2
<1>6. \A c \in indexers \cup extractors : c.document \in DOMAIN documents
  BY IndexerClaim, ExtractorClaim DEF FullInv
<1>7. extractors' = extractors \cup {new} /\ indexers' = indexers
  BY <1>1, <1>3
<1>8. Quiet
  BY ClaimMemoryJobQuiet DEF FullInv
<1>9. QED BY <1>4, <1>5, <1>6, <1>7, <1>8, QuietStep

LEMMA MarkJobStageSound ==
    ASSUME FullInv, IInv', NEW c \in indexers, MarkJobStage(c) PROVE Sound
<1>1. Quiet
  BY MarkJobStageQuiet DEF FullInv
<1>2. PICK new : new = [c EXCEPT !.stage = Successor[c.stage]]
  OBVIOUS
<1>3. /\ new.document = c.document /\ new.revision = c.revision
      /\ new.content = c.content
  BY <1>2 DEF FullInv, IInv, TypeOK, Indexer
<1>4. indexers' \subseteq indexers \cup {new} /\ extractors' = extractors
  BY <1>2 DEF MarkJobStage
<1>5. \A b \in indexers \cup extractors : b.document \in DOMAIN documents
  BY IndexerClaim, ExtractorClaim DEF FullInv
<1>6. QED BY <1>1, <1>3, <1>4, <1>5, QuietStep

\* Reconciliation has met a newer revision: the task knows it from now on.
LEMMA SupersededSound ==
    ASSUME FullInv, IInv', NEW c \in extractors, UNCHANGED <<documents, jobs, indexers>>,
           extractors' = (extractors \ {c}) \cup {[c EXCEPT !.superseded = TRUE]}
    PROVE  Sound
<1>1. PICK new : new = [c EXCEPT !.superseded = TRUE]
  OBVIOUS
<1>2. /\ new.document = c.document /\ new.revision = c.revision
      /\ new.content = c.content /\ new.result = c.result
  BY <1>1 DEF FullInv, IInv, TypeOK, Extractor
<1>3. extractors' \subseteq extractors \cup {new}
  BY <1>1
<1>4. \A b \in indexers \cup extractors : b.document \in DOMAIN documents
  BY IndexerClaim, ExtractorClaim DEF FullInv
<1>5. QED BY <1>2, <1>3, <1>4, UnchangedIsQuiet, QuietStep

-----------------------------------------------------------------------------
(* The five steps a client sees more of.                                   *)

LEMMA InsertNewSound ==
    ASSUME FullInv, IInv', NEW id \in CustomIds \cup {NoId}, NEW body \in Contents,
           InsertNew(id, body)
    PROVE  Sound
<1> USE DEF FullInv
<1>1. PICK d : d = Len(documents) + 1
  OBVIOUS
<1>2. PICK n : n = Len(jobs) + 1
  OBVIOUS
<1>3. /\ DOMAIN documents' = DOMAIN documents \cup {d} /\ d \notin DOMAIN documents
      /\ documents'[d] = NewDocument(id, body)
      /\ \A e \in DOMAIN documents : documents'[e] = documents[e]
  BY <1>1, Rows, LenProperties DEF InsertNew, IInv, TypeOK
<1>4. /\ DOMAIN jobs' = DOMAIN jobs \cup {n} /\ n \notin DOMAIN jobs
      /\ jobs'[n] = NewJob(d, "document", 1)
      /\ \A j \in DOMAIN jobs : jobs'[j] = jobs[j]
  BY <1>1, <1>2, Rows, LenProperties DEF InsertNew, IInv, TypeOK
<1>5. \A j \in DOMAIN jobs : jobs[j].document \in DOMAIN documents
  BY TableInvByDocument DEF IInv, QueueInv
<1>6. jobs'[n].document = d /\ jobs'[n].kind = "document" /\ jobs'[n].cached = NoContent
      /\ jobs'[n].status = "queued" /\ jobs'[n].revision = 1
  BY <1>4 DEF NewJob
<1>7. /\ documents'[d].content = body /\ documents'[d].status = "queued"
      /\ documents'[d].revision = 1 /\ documents'[d].chunks = NoContent
      /\ documents'[d].extracted = NoContent
  BY <1>3 DEF NewDocument
<1>8. JobsOf(d)' = {n}
  BY <1>3, <1>4, <1>5, <1>6 DEF JobsOf
<1>9. ASSUME NEW e \in DOMAIN documents
      PROVE  /\ JobsOf(e)' = JobsOf(e)
             /\ \A j \in JobsOf(e) : jobs'[j] = jobs[j]
             /\ documents'[e] = documents[e]
  BY <1>3, <1>4, <1>6, <1>9 DEF JobsOf
<1>10. Fresh'
  <2>1. \A e \in DOMAIN documents : FreshAt(e)'
    BY <1>9, Untouched DEF Fresh
  <2>2. FreshAt(d)'
    BY <1>6, <1>7, <1>8 DEF FreshAt
  <2>3. \A c \in indexers \cup extractors : Knows(c)'
    BY <1>3, BodiesKept DEF Fresh
  <2>4. ClaimsKnow'
    BY <2>3, ClaimsStayKnowing DEF Fresh, InsertNew
  <2>5. QED BY <1>3, <2>1, <2>2, <2>4 DEF Fresh
<1>11. Lifecycle!Accept(body)
  <2> DEFINE entry == [body |-> body, phase |-> "preparing",
                       searchable |-> NoContent, remembered |-> NoContent]
             Any == {Seen(e) : e \in DOMAIN documents} \cup {entry}
  <2>1. Seen(d)' = entry
    <3>1. HasActiveDocumentJob(d, documents[d].revision)'
      BY <1>4, <1>6, <1>7 DEF HasActiveDocumentJob, IsActive, ActiveStates
    <3>2. Phase(d)' = "preparing"
      BY <1>7, <3>1 DEF Phase
    <3>3. QED BY <1>7, <3>2 DEF Seen
  <2>2. \A e \in DOMAIN documents : Seen(e)' = Seen(e)
    BY <1>9, Untouched
  <2>3. View = [e \in DOMAIN documents |-> Seen(e)]
        /\ View' = [e \in DOMAIN documents' |-> Seen(e)']
    BY DEF View, Seen
  <2>4. Len(documents) \in Nat /\ DOMAIN documents = 1 .. Len(documents)
    BY Rows DEF IInv
  <2>5. PICK S : S = Any
    OBVIOUS
  <2>6. View \in [DOMAIN documents -> S] /\ entry \in S
    BY <2>3, <2>5
  <2>7. View \in Seq(S)
    BY <2>6, MappedRows DEF IInv, TypeOK
  <2>8. Len(View) = Len(documents)
    BY <2>3, <2>4, <2>7, LenProperties
  <2>9. /\ DOMAIN Append(View, entry) = 1 .. Len(documents) + 1
        /\ \A e \in DOMAIN documents : Append(View, entry)[e] = Seen(e)
        /\ Append(View, entry)[d] = entry
        /\ Append(View, entry) \in Seq(S)
    BY <1>1, <2>3, <2>4, <2>6, <2>7, <2>8, InsertedRow
  <2>10. /\ DOMAIN View' = 1 .. Len(documents) + 1
         /\ \A e \in DOMAIN documents : View'[e] = Seen(e)
         /\ View'[d] = entry
    BY <1>1, <1>3, <2>1, <2>2, <2>3, <2>4
  <2>11. View' \in Seq(S)
    <3>1. entry \in S /\ \A e \in DOMAIN documents : Seen(e) \in S
      BY <2>5
    <3>2. \A e \in 1 .. Len(documents) + 1 : View'[e] \in S
      BY <1>1, <2>4, <2>10, <3>1
    <3>3. View' = [e \in DOMAIN View' |-> View'[e]]
      BY <2>3
    <3>4. View' \in [1 .. Len(documents) + 1 -> S]
      BY <2>10, <3>2, <3>3
    <3>5. QED BY <2>9, <3>4, MappedRows
  <2>12. Len(View') = Len(documents) + 1 /\ Len(Append(View, entry)) = Len(documents) + 1
    BY <2>4, <2>9, <2>10, <2>11, LenProperties
  <2>13. \A e \in 1 .. Len(View') : View'[e] = Append(View, entry)[e]
    BY <1>1, <2>4, <2>9, <2>10, <2>12
  <2>14. View' = Append(View, entry)
    BY <2>9, <2>11, <2>12, <2>13, SeqEqual
  <2>15. QED BY <2>14 DEF Lifecycle!Accept
<1>12. Lifecycle!Next
  BY <1>11 DEF Lifecycle!Next
<1>13. PublishesNow /\ SettlesNow
  BY <1>3 DEF PublishesNow, SettlesNow
<1>14. QED BY <1>10, <1>12, <1>13 DEF Sound

LEMMA ResubmitSound ==
    ASSUME FullInv, IInv', NEW d \in DOMAIN documents, NEW body \in Contents,
           Resubmit(d, body)
    PROVE  Sound
<1> USE DEF FullInv
<1>1. PICK n : n = Len(jobs) + 1
  OBVIOUS
<1>2. PICK r : r = documents[d].revision + 1
  OBVIOUS
<1>3. documents[d].revision \in Nat /\ r # documents[d].revision
  BY <1>2, Rows DEF Document, IInv
<1>4. /\ DOMAIN documents' = DOMAIN documents
      /\ documents'[d].status = "queued" /\ documents'[d].revision = r
      /\ documents'[d].content = body
      /\ documents'[d].chunks = documents[d].chunks
      /\ documents'[d].extracted = documents[d].extracted
      /\ \A e \in DOMAIN documents \ {d} : documents'[e] = documents[e]
  <2> DEFINE row == [documents[d] EXCEPT !.content = body, !.status = "queued",
                                         !.revision = @ + 1]
  <2>1. documents' = [documents EXCEPT ![d] = row]
    BY DEF Resubmit, UpdateFull
  <2>2. /\ row.status = "queued" /\ row.revision = r /\ row.content = body
        /\ row.chunks = documents[d].chunks /\ row.extracted = documents[d].extracted
    BY <1>2, Rows DEF Document, IInv
  <2> HIDE DEF row
  <2>3. QED BY <2>1, <2>2
<1>5. ~HasActiveDocumentJob(d, documents[d].revision)
  BY DEF Resubmit
<1>6. /\ DOMAIN jobs' = DOMAIN jobs \cup {n} /\ n \notin DOMAIN jobs
      /\ jobs'[n] = NewJob(d, "document", r)
      /\ \A j \in DOMAIN jobs : jobs'[j] = FailStaleMemoryJobs(d, r)[j]
  <2>1. FailStaleMemoryJobs(d, r) \in Seq(Job)
    <3>1. FailStaleMemoryJobs(d, r) \in [DOMAIN jobs -> Job]
      BY Rows DEF FailStaleMemoryJobs, Job, JobStates, IInv
    <3>2. QED BY <3>1, MappedRows DEF TypeOK, IInv
  <2>2. DOMAIN FailStaleMemoryJobs(d, r) = DOMAIN jobs
    BY DEF FailStaleMemoryJobs
  <2>3. Len(FailStaleMemoryJobs(d, r)) = Len(jobs)
    BY <2>1, <2>2, Rows, LenProperties DEF IInv
  <2>4. NewJob(d, "document", r) \in Job
    BY <1>2, <1>3, Rows DEF NewJob, Job, Published, JobStates, ActiveStates, IInv
  <2>5. jobs' = Append(FailStaleMemoryJobs(d, r), NewJob(d, "document", r))
    BY <1>4 DEF Resubmit
  <2>6. /\ DOMAIN jobs' = 1 .. Len(jobs) + 1
        /\ \A j \in DOMAIN jobs : jobs'[j] = FailStaleMemoryJobs(d, r)[j]
        /\ jobs'[n] = NewJob(d, "document", r)
    BY <1>1, <2>1, <2>2, <2>3, <2>4, <2>5, InsertedRow
  <2>7. QED BY <1>1, <2>6, Rows DEF IInv
<1>7. /\ jobs'[n].document = d /\ jobs'[n].kind = "document"
      /\ jobs'[n].cached = NoContent /\ jobs'[n].status = "queued"
      /\ jobs'[n].revision = r
  BY <1>6 DEF NewJob
<1>8. \A j \in DOMAIN jobs : /\ SameJob(j)
                             /\ jobs[j].document # d => jobs'[j] = jobs[j]
  BY <1>6, Rows DEF FailStaleMemoryJobs, SameJob, Job, IInv
<1>9. /\ JobsOf(d)' = JobsOf(d) \cup {n}
      /\ \A e \in DOMAIN documents \ {d} :
            JobsOf(e)' = JobsOf(e) /\ \A j \in JobsOf(e) : jobs'[j] = jobs[j]
  BY <1>6, <1>7, <1>8 DEF JobsOf, SameJob
<1>10. \A j \in JobsOf(d) : jobs'[j].revision # r
  <2>1. \A j \in JobsOf(d) : jobs[j].revision <= documents[d].revision
    BY DEF IInv, QueueInv, TableInv, NoJobAheadOfDocument, JobsOf
  <2>2. \A j \in JobsOf(d) : jobs[j].revision \in Nat
    BY Rows DEF JobsOf, Job, IInv
  <2>3. \A j \in JobsOf(d) : jobs[j].revision # r
    BY <1>2, <1>3, <2>1, <2>2
  <2>4. QED BY <1>8, <2>3 DEF JobsOf, SameJob
<1>11. \A j \in JobsOf(d) : ~IsActive(j)'
  <2>1. \A j \in DOMAIN jobs' : IsActive(j)' =>
            jobs'[j].revision = documents'[jobs'[j].document].revision
    BY DEF IInv, QueueInv, TableInv, ActiveJobIsCurrent
  <2>2. QED BY <1>4, <1>6, <1>8, <1>10, <2>1 DEF JobsOf, SameJob
<1>12. Fresh'
  <2>1. \A e \in DOMAIN documents \ {d} : FreshAt(e)'
    BY <1>4, <1>9, Untouched DEF Fresh
  <2>2. FreshAt(d)'
    BY <1>4, <1>7, <1>9, <1>10, <1>11 DEF FreshAt
  <2>3. ASSUME NEW c \in indexers \cup extractors PROVE Knows(c)'
    <3>1. /\ c.job \in DOMAIN jobs /\ c.document \in DOMAIN documents
          /\ jobs[c.job].document = c.document /\ jobs[c.job].revision = c.revision
      BY <2>3, IndexerClaim, ExtractorClaim
    <3>2. CASE c.document = d
      <4>1. c.revision # r
        BY <1>8, <1>10, <3>1, <3>2 DEF JobsOf, SameJob
      <4>2. QED BY <1>4, <3>2, <4>1 DEF Knows
    <3>3. CASE c.document # d
      BY <1>4, <2>3, <3>1, <3>3 DEF Knows, Fresh, ClaimsKnow
    <3>4. QED BY <3>2, <3>3
  <2>4. ClaimsKnow'
    BY <2>3, ClaimsStayKnowing DEF Fresh, Resubmit
  <2>5. QED BY <1>4, <2>1, <2>2, <2>4 DEF Fresh
<1>13. Lifecycle!Replace(d, body)
  <2>1. View' = [View EXCEPT ![d] = Seen(d)']
    BY <1>4, <1>9, Untouched, OneEntry
  <2>2. d \in DOMAIN View /\ View[d] = Seen(d)
    BY DEF View, Seen
  <2>3. Phase(d) \in {"remembering", "ready", "failed"}
    BY <1>5 DEF Phase, Resubmit, Live
  <2>4. Phase(d)' = "preparing"
    <3>1. HasActiveDocumentJob(d, documents[d].revision)'
      BY <1>4, <1>6, <1>7 DEF HasActiveDocumentJob, IsActive, ActiveStates
    <3>2. QED BY <1>4, <3>1 DEF Phase
  <2>5. Seen(d)' = [Seen(d) EXCEPT !.body = body, !.phase = "preparing"]
    <3>1. Seen(d)' = [body |-> body, phase |-> "preparing",
                      searchable |-> documents[d].chunks,
                      remembered |-> documents[d].extracted]
      BY <1>4, <2>4 DEF Seen
    <3>2. PICK entry : entry = Seen(d)
      OBVIOUS
    <3>3. entry = [body |-> documents[d].content, phase |-> Phase(d),
                   searchable |-> documents[d].chunks,
                   remembered |-> documents[d].extracted]
      BY <3>2 DEF Seen
    <3>4. [entry EXCEPT !.body = body, !.phase = "preparing"]
            = [body |-> body, phase |-> "preparing",
               searchable |-> documents[d].chunks,
               remembered |-> documents[d].extracted]
      <4>1. PICK mid : mid = [entry EXCEPT !.body = body]
        OBVIOUS
      <4>2. mid = [body |-> body, phase |-> Phase(d),
                   searchable |-> documents[d].chunks,
                   remembered |-> documents[d].extracted]
        BY <3>3, <4>1
      <4>3. [mid EXCEPT !.phase = "preparing"]
              = [body |-> body, phase |-> "preparing",
                 searchable |-> documents[d].chunks,
                 remembered |-> documents[d].extracted]
        BY <4>2
      <4>4. [entry EXCEPT !.body = body, !.phase = "preparing"]
              = [mid EXCEPT !.phase = "preparing"]
        BY <4>1
      <4>5. QED BY <4>3, <4>4
    <3>5. QED BY <3>1, <3>2, <3>4
  <2>6. View[d].phase = Phase(d)
    BY <2>2 DEF Seen
  <2>7. [View EXCEPT ![d].body = body, ![d].phase = "preparing"]
          = [View EXCEPT ![d] = [View[d] EXCEPT !.body = body, !.phase = "preparing"]]
    BY <2>2
  <2>8. QED BY <2>1, <2>2, <2>3, <2>5, <2>6, <2>7 DEF Lifecycle!Replace
<1>14. Lifecycle!Next
  <2>1. d \in DOMAIN View
    BY DEF View
  <2>2. QED BY <1>13, <2>1 DEF Lifecycle!Next
<1>15. PublishesNow
  BY <1>4 DEF PublishesNow
<1>16. SettlesNow
  BY <1>2, <1>4 DEF SettlesNow
<1>17. QED BY <1>12, <1>14, <1>15, <1>16 DEF Sound

\* The task's job is done and, with a provider, a memory job queued.
LEMMA PublishedRows ==
    ASSUME IInv, NEW c \in indexers, NEW mode \in Modes, PublishJob(c, mode), Current(c),
           NEW n, n = Len(jobs) + 1
    PROVE  /\ DOMAIN documents' = DOMAIN documents
           /\ documents'[c.document].status = IF mode = "memories" THEN "indexing" ELSE "done"
           /\ documents'[c.document].revision = documents[c.document].revision
           /\ documents'[c.document].content = documents[c.document].content
           /\ documents'[c.document].chunks = c.content
           /\ documents'[c.document].extracted = documents[c.document].extracted
           /\ \A e \in DOMAIN documents \ {c.document} : documents'[e] = documents[e]
           /\ DOMAIN jobs' = IF mode = "memories" THEN DOMAIN jobs \cup {n} ELSE DOMAIN jobs
           /\ n \notin DOMAIN jobs
           /\ mode = "memories" => jobs'[n] = NewJob(c.document, "memory", c.revision)
           /\ jobs'[c.job].status = "done"
           /\ \A i \in DOMAIN jobs : SameJob(i) /\ jobs'[i].cached = jobs[i].cached
           /\ \A i \in DOMAIN jobs \ {c.job} : jobs'[i] = jobs[i]
<1> USE DEF IInv
<1>1. /\ c.job \in DOMAIN jobs /\ c.document \in DOMAIN documents
      /\ jobs[c.job].revision = c.revision
      /\ c.stage \in Stages /\ jobs[c.job].status = c.stage
  BY IndexerClaim
<1>2. FinishJob(c) = [jobs EXCEPT ![c.job].status = "done"]
  BY <1>1 DEF FinishJob
<1>3. PICK T : T = [jobs EXCEPT ![c.job].status = "done"]
  OBVIOUS
<1>4. /\ DOMAIN T = DOMAIN jobs /\ T[c.job].status = "done"
      /\ \A i \in DOMAIN jobs : /\ T[i].document = jobs[i].document
                                 /\ T[i].kind = jobs[i].kind
                                 /\ T[i].revision = jobs[i].revision
                                 /\ T[i].cached = jobs[i].cached
      /\ \A i \in DOMAIN jobs \ {c.job} : T[i] = jobs[i]
  BY <1>1, <1>3, Rows DEF Job
<1>5. n \notin DOMAIN jobs
  BY Rows
<1>6. /\ DOMAIN jobs' = IF mode = "memories" THEN DOMAIN jobs \cup {n} ELSE DOMAIN jobs
      /\ mode = "memories" => jobs'[n] = NewJob(c.document, "memory", c.revision)
      /\ \A i \in DOMAIN jobs : jobs'[i] = T[i]
  <2>1. CASE mode # "memories"
    BY <1>2, <1>3, <1>4, <2>1 DEF PublishJob
  <2>2. CASE mode = "memories"
    <3>1. jobs' = Append(T, NewJob(c.document, "memory", c.revision))
      BY <1>2, <1>3, <2>2 DEF PublishJob
    <3>2. T \in Seq(Job) /\ Len(T) = Len(jobs)
      <4>1. T \in Seq(Job)
        BY <1>3, JobStatusTyped DEF JobStates
      <4>2. QED BY <1>4, <4>1, Rows, LenProperties
    <3>3. NewJob(c.document, "memory", c.revision) \in Job
      BY <1>1, Rows DEF NewJob, Job, Published, JobStates, ActiveStates
    <3>4. /\ DOMAIN jobs' = 1 .. Len(jobs) + 1
          /\ \A i \in DOMAIN jobs : jobs'[i] = T[i]
          /\ jobs'[n] = NewJob(c.document, "memory", c.revision)
      BY <1>4, <3>1, <3>2, <3>3, InsertedRow
    <3>5. DOMAIN jobs' = DOMAIN jobs \cup {n}
      BY <3>4, Rows
    <3>6. QED BY <2>2, <3>4, <3>5
  <2>3. QED BY <2>1, <2>2
<1>7. PICK status : status = IF mode = "memories" THEN "indexing" ELSE "done"
  OBVIOUS
<1>8. /\ DOMAIN documents' = DOMAIN documents
      /\ documents'[c.document].status = status
      /\ documents'[c.document].revision = documents[c.document].revision
      /\ documents'[c.document].content = documents[c.document].content
      /\ documents'[c.document].chunks = c.content
      /\ documents'[c.document].extracted = documents[c.document].extracted
      /\ \A e \in DOMAIN documents \ {c.document} : documents'[e] = documents[e]
  <2>1. documents[c.document] \in Document
    BY <1>1, Rows
  <2>2. PICK row : row = [documents[c.document] EXCEPT !.chunks = c.content, !.status = status]
    OBVIOUS
  <2>3. documents' = [documents EXCEPT ![c.document] = row]
    BY <1>1, <1>7, <2>2 DEF PublishJob
  <2>4. /\ row.status = status /\ row.revision = documents[c.document].revision
        /\ row.content = documents[c.document].content /\ row.chunks = c.content
        /\ row.extracted = documents[c.document].extracted
    BY <2>1, <2>2 DEF Document
  <2>5. QED BY <1>1, <2>3, <2>4
<1>9. QED BY <1>1, <1>4, <1>5, <1>6, <1>7, <1>8 DEF SameJob

LEMMA PublishJobSound ==
    ASSUME FullInv, IInv', NEW c \in indexers, NEW mode \in Modes, PublishJob(c, mode),
           Current(c)
    PROVE  Sound
<1> USE DEF FullInv
<1>1. PICK n : n = Len(jobs) + 1
  OBVIOUS
<1>2. PICK d \in DOMAIN documents : d = c.document
  BY IndexerClaim
<1>3. /\ c.job \in JobsOf(d) /\ jobs[c.job].kind = "document" /\ IsActive(c.job)
      /\ jobs[c.job].revision = documents[d].revision
      /\ c.revision = documents[d].revision /\ c.content = documents[d].content
      /\ documents[d].status \in Stages
  BY <1>2, IndexerClaim DEF JobsOf, Current, Live, Fresh, ClaimsKnow, Knows
<1>4. /\ DOMAIN documents' = DOMAIN documents
      /\ documents'[d].status = IF mode = "memories" THEN "indexing" ELSE "done"
      /\ documents'[d].revision = documents[d].revision
      /\ documents'[d].content = documents[d].content
      /\ documents'[d].chunks = documents[d].content
      /\ documents'[d].extracted = documents[d].extracted
      /\ \A e \in DOMAIN documents \ {d} : documents'[e] = documents[e]
  BY <1>1, <1>2, <1>3, PublishedRows
<1>5. /\ DOMAIN jobs' = IF mode = "memories" THEN DOMAIN jobs \cup {n} ELSE DOMAIN jobs
      /\ n \notin DOMAIN jobs
      /\ mode = "memories" => jobs'[n] = NewJob(d, "memory", c.revision)
      /\ jobs'[c.job].status = "done"
      /\ \A i \in DOMAIN jobs : SameJob(i) /\ jobs'[i].cached = jobs[i].cached
      /\ \A i \in DOMAIN jobs \ {c.job} : jobs'[i] = jobs[i]
  BY <1>1, <1>2, PublishedRows
<1>6. mode = "memories" => /\ jobs'[n].document = d /\ jobs'[n].kind = "memory"
                           /\ jobs'[n].cached = NoContent /\ jobs'[n].status = "queued"
                           /\ jobs'[n].revision = documents[d].revision
  BY <1>3, <1>5 DEF NewJob
<1>7. /\ JobsOf(d)' = IF mode = "memories" THEN JobsOf(d) \cup {n} ELSE JobsOf(d)
      /\ \A e \in DOMAIN documents \ {d} :
            JobsOf(e)' = JobsOf(e) /\ \A j \in JobsOf(e) : jobs'[j] = jobs[j]
  BY <1>3, <1>5, <1>6 DEF JobsOf, SameJob
<1>8. \A j \in JobsOf(d) : ~IsActive(j)'
  <2>1. \A j \in JobsOf(d) \ {c.job} : ~IsActive(j)
    BY <1>3 DEF IInv, QueueInv, TableInv, AtMostOneActiveJob, JobsOf
  <2>2. QED BY <1>5, <2>1 DEF IsActive, ActiveStates, Stages, JobsOf
<1>9. \A j \in JobsOf(d) : jobs[j].kind = "memory" => jobs[j].revision # documents[d].revision
  BY <1>3 DEF Fresh, FreshAt
<1>10. Fresh'
  <2>1. \A e \in DOMAIN documents \ {d} : FreshAt(e)'
    BY <1>4, <1>7, Untouched DEF Fresh
  <2>2. FreshAt(d)'
    <3>1. \A j \in JobsOf(d) : /\ jobs'[j].kind = "memory" =>
                                      jobs'[j].revision # documents'[d].revision
      BY <1>4, <1>5, <1>9 DEF SameJob, JobsOf
    <3>2. CASE mode # "memories"
      BY <1>4, <1>7, <1>8, <3>1, <3>2 DEF FreshAt
    <3>3. CASE mode = "memories"
      BY <1>4, <1>6, <1>7, <1>8, <3>1, <3>3 DEF FreshAt
    <3>4. QED BY <3>2, <3>3
  <2>3. \A b \in indexers \cup extractors : Knows(b)'
    BY <1>4, BodiesKept DEF Fresh
  <2>4. ClaimsKnow'
    BY <2>3, ClaimsStayKnowing DEF Fresh, PublishJob
  <2>5. QED BY <1>4, <2>1, <2>2, <2>4 DEF Fresh
<1>11. PICK phase : phase = IF mode = "memories" THEN "remembering" ELSE "ready"
  OBVIOUS
<1>12. Lifecycle!Publish(d, phase)
  <2>1. View' = [View EXCEPT ![d] = Seen(d)']
    BY <1>4, <1>7, Untouched, OneEntry
  <2>2. d \in DOMAIN View /\ View[d] = Seen(d)
    BY DEF View, Seen
  <2>3. Phase(d) = "preparing"
    <3>1. HasActiveDocumentJob(d, documents[d].revision)
      BY <1>3 DEF HasActiveDocumentJob, JobsOf
    <3>2. documents[d].status \in ActiveStates
      BY <1>3 DEF ActiveStates
    <3>3. QED BY <3>1, <3>2, ActivePhase
  <2>4. Phase(d)' = phase
    <3>1. ~HasActiveDocumentJob(d, documents[d].revision)'
      BY <1>6, <1>7, <1>8 DEF HasActiveDocumentJob, JobsOf
    <3>2. QED BY <1>4, <1>11, <3>1 DEF Phase
  <2>5. Seen(d)' = [body |-> documents[d].content, phase |-> phase,
                    searchable |-> documents[d].content,
                    remembered |-> documents[d].extracted]
    BY <1>4, <2>4 DEF Seen
  <2>6. PICK entry : entry = Seen(d)
    OBVIOUS
  <2>7. entry = [body |-> documents[d].content, phase |-> Phase(d),
                 searchable |-> documents[d].chunks,
                 remembered |-> documents[d].extracted]
    BY <2>6 DEF Seen
  <2>8. entry.phase = "preparing" /\ entry.body = documents[d].content
    BY <2>3, <2>7
  <2>9. [entry EXCEPT !.searchable = entry.body, !.phase = phase]
          = [body |-> documents[d].content, phase |-> phase,
             searchable |-> documents[d].content,
             remembered |-> documents[d].extracted]
    <3>1. PICK mid : mid = [entry EXCEPT !.searchable = documents[d].content]
      OBVIOUS
    <3>2. mid = [body |-> documents[d].content, phase |-> Phase(d),
                 searchable |-> documents[d].content,
                 remembered |-> documents[d].extracted]
      BY <2>7, <3>1
    <3>3. [mid EXCEPT !.phase = phase]
            = [body |-> documents[d].content, phase |-> phase,
               searchable |-> documents[d].content,
               remembered |-> documents[d].extracted]
      BY <3>2
    <3>4. [entry EXCEPT !.searchable = documents[d].content, !.phase = phase]
            = [mid EXCEPT !.phase = phase]
      BY <3>1
    <3>5. QED BY <2>8, <3>3, <3>4
  <2>10. View' = [View EXCEPT ![d] = [entry EXCEPT !.searchable = entry.body,
                                                   !.phase = phase]]
    BY <2>1, <2>5, <2>9
  <2>11. [View EXCEPT ![d].searchable = View[d].body, ![d].phase = phase]
           = [View EXCEPT ![d] = [View[d] EXCEPT !.searchable = View[d].body,
                                                 !.phase = phase]]
    BY <2>2
  <2>12. View[d] = entry
    BY <2>2, <2>6
  <2>13. phase \in {"remembering", "ready"}
    BY <1>11
  <2>14. QED BY <2>8, <2>10, <2>11, <2>12, <2>13 DEF Lifecycle!Publish
<1>13. Lifecycle!Next
  <2>1. d \in DOMAIN View /\ phase \in {"remembering", "ready"}
    BY <1>11 DEF View
  <2>2. QED BY <1>12, <2>1 DEF Lifecycle!Next
<1>14. PublishesNow
  BY <1>4 DEF PublishesNow
<1>15. SettlesNow
  BY <1>3, <1>4 DEF SettlesNow, Stages
<1>16. QED BY <1>10, <1>13, <1>14, <1>15 DEF Sound

\* The provider's answer is stored beside the job it is for: no client sees it.
LEMMA CacheMemoryExtractionSound ==
    ASSUME FullInv, IInv', NEW c \in extractors, CacheMemoryExtraction(c) PROVE Sound
<1> USE DEF FullInv
<1>1. PICK d \in DOMAIN documents : d = c.document
  BY ExtractorClaim
<1>2. /\ c.job \in JobsOf(d) /\ c.job \in DOMAIN jobs
      /\ \/ jobs[c.job].status = "extracting" /\ IsActive(c.job) /\ Current(c)
         \/ ~IsActive(c.job) /\ ~Current(c)
  BY <1>1, ExtractorClaim DEF JobsOf
<1>3. CASE jobs[c.job].status = "extracting" /\ Current(c)
  <2>1. c.content = documents[d].content
    BY <1>1, <1>3 DEF Current, Fresh, ClaimsKnow, Knows
  <2>2. PICK new : new = [c EXCEPT !.result = c.content]
    OBVIOUS
  <2>3. /\ new.document = c.document /\ new.revision = c.revision
        /\ new.content = c.content /\ new.result = c.content
    BY <2>2 DEF IInv, TypeOK, Extractor
  <2>4. PICK row : row = [jobs[c.job] EXCEPT !.cached = c.content]
    OBVIOUS
  <2>5. /\ row.document = jobs[c.job].document /\ row.kind = jobs[c.job].kind
        /\ row.revision = jobs[c.job].revision /\ row.status = jobs[c.job].status
        /\ row.cached = c.content
    BY <1>2, <2>4, Rows DEF Job, IInv
  <2>6. /\ jobs' = [jobs EXCEPT ![c.job] = row]
        /\ extractors' = (extractors \ {c}) \cup {new}
        /\ documents' = documents /\ indexers' = indexers
    BY <1>3, <2>2, <2>4 DEF CacheMemoryExtraction
  <2>7. /\ DOMAIN jobs' = DOMAIN jobs
        /\ \A i \in DOMAIN jobs : SameJob(i) /\ jobs'[i].status = jobs[i].status
        /\ \A i \in DOMAIN jobs \ {c.job} : jobs'[i] = jobs[i]
        /\ jobs'[c.job].cached = documents[d].content
    BY <1>2, <2>1, <2>5, <2>6 DEF SameJob
  <2>8. \A i \in DOMAIN jobs : IsActive(i)' <=> IsActive(i)
    BY <2>7 DEF IsActive
  <2>9. \A e \in DOMAIN documents :
           /\ JobsOf(e)' = JobsOf(e)
           /\ e # d => \A j \in JobsOf(e) : jobs'[j] = jobs[j]
    BY <1>2, <2>7 DEF JobsOf, SameJob
  <2>10. FreshAt(d)'
    <3>1. FreshAt(d)
      BY DEF Fresh
    <3>2. \A j \in JobsOf(d) : j \in DOMAIN jobs
      BY DEF JobsOf
    <3>3. \A j \in JobsOf(d) : \/ jobs'[j].cached = documents[d].content
                               \/ jobs'[j].cached = jobs[j].cached
      BY <2>7, <3>2
    <3>4. QED BY <2>6, <2>7, <2>8, <2>9, <3>1, <3>2, <3>3 DEF FreshAt, SameJob
  <2>11. \A e \in DOMAIN documents \ {d} : FreshAt(e)'
    BY <2>6, <2>9, Untouched DEF Fresh
  <2>12. ClaimsKnow'
    <3>1. \A b \in indexers \cup extractors : Knows(b)'
      BY <2>6, BodiesKept DEF Fresh
    <3>2. QED BY <2>3, <2>6, <3>1, ClaimsStayKnowing DEF Fresh
  <2>13. \A e \in DOMAIN documents : Seen(e)' = Seen(e)
    <3>1. ASSUME NEW e \in DOMAIN documents PROVE Phase(e)' = Phase(e)
      <4>1. HasActiveDocumentJob(e, documents[e].revision)'
            <=> HasActiveDocumentJob(e, documents[e].revision)
        BY <2>6, <2>7, <2>8 DEF HasActiveDocumentJob, SameJob
      <4>2. QED BY <2>6, <4>1 DEF Phase
    <3>2. QED BY <2>6, <3>1 DEF Seen
  <2>14. View' = View
    BY <2>6, <2>13, NoEntry
  <2>15. PublishesNow /\ SettlesNow
    BY <2>6 DEF PublishesNow, SettlesNow
  <2>16. Fresh'
    BY <2>6, <2>10, <2>11, <2>12 DEF Fresh
  <2>17. QED BY <2>14, <2>15, <2>16 DEF Sound
<1>4. CASE ~(jobs[c.job].status = "extracting" /\ Current(c))
  <2>1. jobs' = jobs /\ documents' = documents
    BY <1>2, <1>4, StaleJobIsSettled DEF CacheMemoryExtraction
  <2>2. extractors' \subseteq extractors /\ indexers' = indexers
    BY <1>4 DEF CacheMemoryExtraction
  <2>3. QED BY <2>1, <2>2, UnchangedIsQuiet, QuietDrop
<1>5. QED BY <1>3, <1>4

\* What a finished extraction leaves in the tables.
LEMMA FinishedRows ==
    ASSUME IInv, NEW c \in extractors, Current(c), FinishExtraction(c)
    PROVE  /\ DOMAIN documents' = DOMAIN documents
           /\ documents'[c.document].status = "done"
           /\ documents'[c.document].revision = documents[c.document].revision
           /\ documents'[c.document].content = documents[c.document].content
           /\ documents'[c.document].chunks = documents[c.document].chunks
           /\ documents'[c.document].extracted = c.result
           /\ \A e \in DOMAIN documents \ {c.document} : documents'[e] = documents[e]
           /\ DOMAIN jobs' = DOMAIN jobs
           /\ jobs'[c.job].status = "done" /\ jobs'[c.job].cached = NoContent
           /\ \A i \in DOMAIN jobs : SameJob(i)
           /\ \A i \in DOMAIN jobs \ {c.job} : jobs'[i] = jobs[i]
<1>1. /\ c.job \in DOMAIN jobs /\ c.document \in DOMAIN documents
      /\ documents[c.document] \in Document /\ jobs[c.job] \in Job
  BY ExtractorClaim, Rows DEF IInv
<1>2. PICK job : job = [jobs[c.job] EXCEPT !.status = "done", !.cached = NoContent]
  OBVIOUS
<1>3. /\ job.document = jobs[c.job].document /\ job.kind = jobs[c.job].kind
      /\ job.revision = jobs[c.job].revision /\ job.status = "done"
      /\ job.cached = NoContent
  BY <1>1, <1>2 DEF Job
<1>4. jobs' = [jobs EXCEPT ![c.job] = job]
  BY <1>1, <1>2 DEF FinishExtraction
<1>5. PICK row : row = [documents[c.document] EXCEPT !.status = "done", !.extracted = c.result]
  OBVIOUS
<1>6. /\ row.status = "done" /\ row.revision = documents[c.document].revision
      /\ row.content = documents[c.document].content
      /\ row.chunks = documents[c.document].chunks /\ row.extracted = c.result
  BY <1>1, <1>5 DEF Document
<1>7. documents' = [documents EXCEPT ![c.document] = row]
  BY <1>1, <1>5 DEF FinishExtraction
<1>8. /\ DOMAIN jobs' = DOMAIN jobs /\ jobs'[c.job] = job
      /\ \A i \in DOMAIN jobs : SameJob(i)
      /\ \A i \in DOMAIN jobs \ {c.job} : jobs'[i] = jobs[i]
  BY <1>1, <1>3, <1>4 DEF SameJob
<1>9. QED BY <1>1, <1>3, <1>6, <1>7, <1>8

LEMMA FinishExtractionSound ==
    ASSUME FullInv, IInv', NEW c \in extractors, Current(c), FinishExtraction(c),
           c.result # NoContent, indexers' = indexers
    PROVE  Sound
<1> USE DEF FullInv
<1>1. PICK d \in DOMAIN documents : d = c.document
  BY ExtractorClaim
<1>2. /\ c.job \in JobsOf(d) /\ c.job \in DOMAIN jobs /\ IsActive(c.job)
      /\ jobs[c.job].kind = "memory" /\ documents[d].status = "indexing"
      /\ jobs[c.job].revision = documents[d].revision
  BY <1>1, ExtractorClaim DEF JobsOf, Current
<1>3. c.content = documents[d].content /\ c.result = documents[d].content
  BY <1>1 DEF Current, Fresh, ClaimsKnow, Knows
<1>4. /\ DOMAIN documents' = DOMAIN documents
      /\ documents'[d].status = "done"
      /\ documents'[d].revision = documents[d].revision
      /\ documents'[d].content = documents[d].content
      /\ documents'[d].chunks = documents[d].chunks
      /\ documents'[d].extracted = documents[d].content
      /\ \A e \in DOMAIN documents \ {d} : documents'[e] = documents[e]
  BY <1>1, <1>3, FinishedRows
<1>5. /\ DOMAIN jobs' = DOMAIN jobs
      /\ jobs'[c.job].status = "done"
      /\ \A i \in DOMAIN jobs : SameJob(i)
      /\ \A i \in DOMAIN jobs \ {c.job} : jobs'[i] = jobs[i]
  BY FinishedRows
<1>6. /\ JobsOf(d)' = JobsOf(d)
      /\ \A e \in DOMAIN documents \ {d} :
            JobsOf(e)' = JobsOf(e) /\ \A j \in JobsOf(e) : jobs'[j] = jobs[j]
  BY <1>2, <1>5 DEF JobsOf, SameJob
<1>7. /\ \A j \in JobsOf(d) \ {c.job} : ~IsActive(j)
      /\ \A j \in JobsOf(d) : ~IsActive(j)'
  <2>1. \A j \in JobsOf(d) \ {c.job} : ~IsActive(j)
    BY <1>2 DEF IInv, QueueInv, TableInv, AtMostOneActiveJob, JobsOf
  <2>2. QED BY <1>5, <2>1 DEF IsActive, ActiveStates, Stages, JobsOf
<1>8. documents[d].chunks = documents[d].content
  BY <1>2 DEF Fresh, FreshAt
<1>9. Fresh'
  <2>1. \A e \in DOMAIN documents \ {d} : FreshAt(e)'
    BY <1>4, <1>6, Untouched DEF Fresh
  <2>2. FreshAt(d)'
    BY <1>4, <1>6, <1>7, <1>8 DEF FreshAt
  <2>3. \A b \in indexers \cup extractors : Knows(b)'
    BY <1>4, BodiesKept DEF Fresh
  <2>4. ClaimsKnow'
    BY <2>3, ClaimsStayKnowing DEF Fresh, FinishExtraction
  <2>5. QED BY <1>4, <2>1, <2>2, <2>4 DEF Fresh
<1>10. Lifecycle!Remember(d)
  <2>1. View' = [View EXCEPT ![d] = Seen(d)']
    BY <1>4, <1>6, Untouched, OneEntry
  <2>2. d \in DOMAIN View /\ View[d] = Seen(d)
    BY DEF View, Seen
  <2>3. Phase(d) = "remembering"
    <3>1. ~HasActiveDocumentJob(d, documents[d].revision)
      BY <1>2, <1>7 DEF HasActiveDocumentJob, JobsOf
    <3>2. documents[d].status \in ActiveStates
      BY <1>2 DEF ActiveStates, Stages
    <3>3. QED BY <3>1, <3>2, ActivePhase
  <2>4. Phase(d)' = "ready"
    BY <1>4, SettledPhaseNext
  <2>5. Seen(d)' = [body |-> documents[d].content, phase |-> "ready",
                    searchable |-> documents[d].chunks,
                    remembered |-> documents[d].content]
    BY <1>4, <2>4 DEF Seen
  <2>6. PICK entry : entry = Seen(d)
    OBVIOUS
  <2>7. entry = [body |-> documents[d].content, phase |-> Phase(d),
                 searchable |-> documents[d].chunks,
                 remembered |-> documents[d].extracted]
    BY <2>6 DEF Seen
  <2>8. entry.phase = "remembering" /\ entry.body = documents[d].content
    BY <2>3, <2>7
  <2>9. [entry EXCEPT !.remembered = entry.body, !.phase = "ready"]
          = [body |-> documents[d].content, phase |-> "ready",
             searchable |-> documents[d].chunks,
             remembered |-> documents[d].content]
    <3>1. PICK mid : mid = [entry EXCEPT !.remembered = documents[d].content]
      OBVIOUS
    <3>2. mid = [body |-> documents[d].content, phase |-> Phase(d),
                 searchable |-> documents[d].chunks,
                 remembered |-> documents[d].content]
      BY <2>7, <3>1
    <3>3. [mid EXCEPT !.phase = "ready"]
            = [body |-> documents[d].content, phase |-> "ready",
               searchable |-> documents[d].chunks,
               remembered |-> documents[d].content]
      BY <3>2
    <3>4. [entry EXCEPT !.remembered = documents[d].content, !.phase = "ready"]
            = [mid EXCEPT !.phase = "ready"]
      BY <3>1
    <3>5. QED BY <2>8, <3>3, <3>4
  <2>10. View' = [View EXCEPT ![d] = [entry EXCEPT !.remembered = entry.body,
                                                   !.phase = "ready"]]
    BY <2>1, <2>5, <2>9
  <2>11. [View EXCEPT ![d].remembered = View[d].body, ![d].phase = "ready"]
           = [View EXCEPT ![d] = [View[d] EXCEPT !.remembered = View[d].body,
                                                 !.phase = "ready"]]
    BY <2>2
  <2>12. View[d] = entry
    BY <2>2, <2>6
  <2>13. QED BY <2>8, <2>10, <2>11, <2>12 DEF Lifecycle!Remember
<1>11. Lifecycle!Next
  <2>1. d \in DOMAIN View
    BY DEF View
  <2>2. QED BY <1>10, <2>1 DEF Lifecycle!Next
<1>12. PublishesNow
  BY <1>4 DEF PublishesNow
<1>13. SettlesNow
  BY <1>2, <1>4 DEF SettlesNow
<1>14. QED BY <1>9, <1>11, <1>12, <1>13 DEF Sound

-----------------------------------------------------------------------------
(* Every step.                                                             *)

LEMMA SubmissionSound == ASSUME FullInv, IInv', Submission PROVE Sound
<1>1. ASSUME NEW id \in CustomIds \cup {NoId}, NEW body \in Contents, InsertNew(id, body)
      PROVE  Sound
  BY <1>1, InsertNewSound
<1>2. ASSUME NEW d \in DOMAIN documents, NEW body \in Contents, Resubmit(d, body)
      PROVE  Sound
  BY <1>2, ResubmitSound
<1>3. ASSUME NEW d \in DOMAIN documents, DeleteDocument(d)
      PROVE  Sound
  BY <1>3, DeleteRowQuiet, QuietDrop DEF DeleteDocument, Live, FullInv
<1>4. QED BY <1>1, <1>2, <1>3 DEF Submission

LEMMA IndexerSound ==
    ASSUME FullInv, IInv', NEW c \in indexers, IndexerStep(c) \/ AbortIndexer(c)
    PROVE  Sound
<1>1. CASE AbortIndexer(c)
  BY <1>1, UnchangedIsQuiet, QuietDrop DEF AbortIndexer
<1>2. CASE MarkJobStage(c)
  BY <1>2, MarkJobStageSound
<1>3. ASSUME NEW mode \in Modes, PublishJob(c, mode)
      PROVE  Sound
  <2>1. CASE Current(c)
    BY <1>3, <2>1, PublishJobSound
  <2>2. CASE ~Current(c)
    BY <1>3, <2>2, UnchangedIsQuiet, QuietDrop DEF PublishJob
  <2>3. QED BY <2>1, <2>2
<1>4. CASE FailJob(c)
  <2>1. Quiet
    BY <1>4, FailJobQuiet DEF FullInv
  <2>2. QED BY <1>4, <2>1, QuietDrop DEF FailJob
<1>5. CASE DeleteEmptyDocument(c)
  <2>1. Quiet
    <3>1. CASE Current(c) /\ documents[c.document].status \in {"extracting", "chunking"}
      <4>1. /\ c.document \in DOMAIN documents
            /\ documents[c.document].status # "deleted"
            /\ DeleteRow(c.document)
        BY <1>5, <3>1 DEF DeleteEmptyDocument, Current, Live
      <4>2. QED BY <4>1, DeleteRowQuiet DEF FullInv
    <3>2. CASE ~(Current(c) /\ documents[c.document].status \in {"extracting", "chunking"})
      BY <1>5, <3>2, UnchangedIsQuiet DEF DeleteEmptyDocument
    <3>3. QED BY <3>1, <3>2
  <2>2. QED BY <1>5, <2>1, QuietDrop DEF DeleteEmptyDocument
<1>6. QED BY <1>1, <1>2, <1>3, <1>4, <1>5 DEF IndexerStep

LEMMA ExtractorSound ==
    ASSUME FullInv, IInv', NEW c \in extractors, ExtractorStep(c) \/ AbortExtractor(c)
    PROVE  Sound
<1>1. CASE AbortExtractor(c)
  BY <1>1, UnchangedIsQuiet, QuietDrop DEF AbortExtractor
<1>2. CASE CacheMemoryExtraction(c)
  BY <1>2, CacheMemoryExtractionSound
<1>3. CASE ReconcileMemories(c)
  <2>1. CASE Current(c) /\ jobs[c.job].status = "extracting"
    BY <1>3, <2>1, FinishExtractionSound DEF ReconcileMemories
  <2>2. CASE ~(Current(c) /\ jobs[c.job].status = "extracting")
    BY <1>3, <2>2, SupersededSound DEF ReconcileMemories
  <2>3. QED BY <2>1, <2>2
<1>4. CASE CompleteMemoryJob(c)
  <2>1. CASE Current(c) /\ jobs[c.job].status = "extracting"
    BY <1>4, <2>1, FinishExtractionSound DEF CompleteMemoryJob
  <2>2. CASE ~(Current(c) /\ jobs[c.job].status = "extracting")
    <3>1. Quiet
      BY <1>4, <2>2, CompleteStaleQuiet DEF FullInv
    <3>2. extractors' \subseteq extractors /\ indexers' = indexers
      BY <1>4, <2>2 DEF CompleteMemoryJob
    <3>3. QED BY <3>1, <3>2, QuietDrop
  <2>3. QED BY <2>1, <2>2
<1>5. ASSUME NEW failure \in Failures(c), RetryMemoryJob(c, failure)
      PROVE  Sound
  <2>1. Quiet
    BY <1>5, RetryMemoryJobQuiet DEF FullInv
  <2>2. extractors' \subseteq extractors /\ indexers' = indexers
    BY <1>5 DEF RetryMemoryJob
  <2>3. QED BY <2>1, <2>2, QuietDrop
<1>6. QED BY <1>1, <1>2, <1>3, <1>4, <1>5 DEF ExtractorStep

LEMMA NextSound ==
    ASSUME ConstantsAssumption, FullInv, [Next]_vars
    PROVE  FullInv' /\ Sound
<1>1. IInv'
  BY NextQueueInv DEF FullInv
<1> SUFFICES Sound
  BY <1>1 DEF FullInv, Sound
<1>2. CASE UNCHANGED vars
  BY <1>1, <1>2, UnchangedIsQuiet, QuietDrop DEF vars
<1>3. CASE Submission
  BY <1>1, <1>3, SubmissionSound
<1>4. CASE ClaimJob \/ ClaimMemoryJob
  BY <1>1, <1>4, ClaimJobSound, ClaimMemoryJobSound
<1>5. ASSUME NEW c \in indexers, IndexerStep(c) \/ AbortIndexer(c)
      PROVE  Sound
  BY <1>1, <1>5, IndexerSound
<1>6. ASSUME NEW c \in extractors, ExtractorStep(c) \/ AbortExtractor(c)
      PROVE  Sound
  BY <1>1, <1>6, ExtractorSound
<1>7. ASSUME NEW j \in DOMAIN jobs, DelayElapses(j)
      PROVE  Sound
  <2>1. Quiet
    BY <1>7, DelayElapsesQuiet DEF FullInv
  <2>2. QED BY <1>1, <1>7, <2>1, QuietDrop DEF DelayElapses
<1>8. CASE Restart
  <2>1. Quiet
    BY <1>8, RestartQuiet DEF FullInv
  <2>2. indexers' \subseteq indexers /\ extractors' \subseteq extractors
    BY <1>8 DEF Restart
  <2>3. QED BY <1>1, <2>1, <2>2, QuietDrop
<1>9. QED BY <1>2, <1>3, <1>4, <1>5, <1>6, <1>7, <1>8 DEF Next

LEMMA InitFull == ConstantsAssumption /\ Init => FullInv
  BY InitTyped, InitQueueInv DEF Init, FullInv, IInv, Fresh, FreshAt, ClaimsKnow

\* Nothing stale is ever behind the status a client polls, behind a stored
\* answer of the provider, or in the hands of a task.
THEOREM PipelineInvariant == Spec => []FullInv
<1>1. ConstantsAssumption
  BY ConstantsAssumption
<1>2. Init => FullInv
  BY <1>1, InitFull
<1>3. FullInv /\ [Next]_vars => FullInv'
  BY <1>1, NextSound
<1>4. QED BY <1>2, <1>3, PTL DEF Spec

\* "done" means searchable, and remembered where memories were asked for: for
\* the body accepted last, however many revisions, retries and restarts there
\* have been (publish_job, reconcile_memories_for, complete_memory_job).
THEOREM DoneIsFresh == Spec => []DoneMeansFresh
<1>1. FullInv => DoneMeansFresh
  BY DEF FullInv, Fresh, FreshAt, DoneMeansFresh, JobsOf
<1>2. QED BY <1>1, PipelineInvariant, PTL

\* A stored extraction_result is only ever used for the body it was made from.
THEOREM CachedIsFresh == Spec => []CachedExtractionIsFresh
<1>1. FullInv => CachedExtractionIsFresh
  <2> SUFFICES ASSUME FullInv, NEW j \in DOMAIN jobs, IsActive(j),
                      jobs[j].cached # NoContent
               PROVE  jobs[j].cached = documents[jobs[j].document].content
    BY DEF CachedExtractionIsFresh
  <2>1. jobs[j].document \in DOMAIN documents /\ j \in JobsOf(jobs[j].document)
    BY DEF FullInv, IInv, QueueInv, TableInv, JobsBelongToDocuments, JobsOf
  <2>2. QED BY <2>1 DEF FullInv, Fresh, FreshAt
<1>2. QED BY <1>1, PipelineInvariant, PTL

\* No task publishes what it read at its claim once that is out of date: the
\* revision check inside each publishing transaction is enough.
THEOREM PublicationsAreCurrent == Spec => PublishesCurrentContent
<1>1. ConstantsAssumption
  BY ConstantsAssumption
<1>2. FullInv /\ [Next]_vars => PublishesNow
  BY <1>1, NextSound DEF Sound
<1>3. QED BY <1>2, PipelineInvariant, PTL DEF Spec, PublishesCurrentContent, PublishesNow

\* No late task and no recovery takes a settled document back into the pipeline.
THEOREM SettledStaysSettled == Spec => SettledUntilResubmitted
<1>1. ConstantsAssumption
  BY ConstantsAssumption
<1>2. FullInv /\ [Next]_vars => SettlesNow
  BY <1>1, NextSound DEF Sound
<1>3. QED BY <1>2, PipelineInvariant, PTL DEF Spec, SettledUntilResubmitted, SettlesNow

\* Whoever searches while memories are extracted, or after, finds the body
\* accepted last.
THEOREM SearchStaysCurrent == Spec => []SearchIsCurrent
<1>1. ASSUME FullInv PROVE SearchIsCurrent
  <2>1. ASSUME NEW d \in DOMAIN documents, Phase(d) \in {"remembering", "ready"}
        PROVE  documents[d].chunks = documents[d].content
    <3>1. CASE documents[d].status = "done"
      BY <1>1, <3>1 DEF FullInv, Fresh, FreshAt
    <3>2. CASE documents[d].status # "done"
      <4>1. documents[d].status \in ActiveStates
        <5>1. documents[d].status \in JobStates
          BY <1>1, Rows DEF FullInv, IInv, Document
        <5>2. documents[d].status \notin {"failed", "deleted"}
          BY <1>1, <2>1, SettledPhase DEF FullInv
        <5>3. QED BY <3>2, <5>1, <5>2 DEF JobStates
      <4>2. PICK j \in DOMAIN jobs : IsActive(j) /\ jobs[j].document = d
        BY <1>1, <4>1 DEF FullInv, IInv, QueueInv, TableInv, StatusMatchesActiveJob
      <4>3. ~HasActiveDocumentJob(d, documents[d].revision)
        BY <2>1, <4>1, ActivePhase
      <4>4. jobs[j].revision = documents[d].revision
        BY <1>1, <4>2 DEF FullInv, IInv, QueueInv, TableInv, ActiveJobIsCurrent
      <4>5. jobs[j].kind = "memory"
        <5>1. jobs[j].kind \in {"document", "memory"}
          BY <1>1, <4>2, Rows DEF FullInv, IInv, Job
        <5>2. QED BY <4>2, <4>3, <4>4, <5>1 DEF HasActiveDocumentJob
      <4>6. QED BY <1>1, <4>2, <4>5 DEF FullInv, Fresh, FreshAt, JobsOf
    <3>3. QED BY <3>1, <3>2
  <2>2. /\ DOMAIN View = DOMAIN documents
        /\ \A d \in DOMAIN documents : /\ View[d].phase = Phase(d)
                                        /\ View[d].searchable = documents[d].chunks
                                        /\ View[d].body = documents[d].content
    BY DEF View
  <2>3. QED BY <2>1, <2>2 DEF SearchIsCurrent, Lifecycle!SearchIsCurrent
<1>2. FullInv => SearchIsCurrent
  BY <1>1
<1>3. QED BY <1>2, PipelineInvariant, PTL

\* The pipeline implements the lifecycle: seen by a client, every step of a
\* coordinator, of a task or of the recovery is a step of a document's life or
\* none at all.
THEOREM LifecycleImplemented == Spec => ImplementsLifecycle
<1>1. ConstantsAssumption
  BY ConstantsAssumption
<1>2. Init => Lifecycle!Init
  <2>1. ASSUME documents = <<>> PROVE View = <<>>
    BY <2>1 DEF View
  <2>2. QED BY <2>1 DEF Init, Lifecycle!Init
<1>3. FullInv /\ [Next]_vars => [Lifecycle!Next]_View
  BY <1>1, NextSound DEF Sound
<1>4. QED
  BY <1>2, <1>3, PipelineInvariant, PTL DEF Spec, ImplementsLifecycle, Lifecycle!Spec
================================================================================
