--------------------------- MODULE EmbeddingExecutor ---------------------------
(***************************************************************************)
(* Access to the local embedding model: memory-engine/src/                 *)
(* embedding_executor.rs.  Callers (searches, the indexing tasks, the      *)
(* memory tasks, warm-up) cut their texts into microbatches and submit them*)
(* one after another to one of two bounded queues; one task merges queued  *)
(* requests of a class into inference batches and answers each of them.    *)
(*                                                                         *)
(* A text is known by its caller and its place in the caller's job, and its*)
(* vector by the text it was computed from, so that a vector that ends up  *)
(* with another text is seen.                                              *)
(***************************************************************************)
EXTENDS Microbatch, SequencesExt

CONSTANTS
    Callers,
    Priority,       \* of each caller: Query, Document, Memory or Warmup
    Nobody,         \* reply channel whose caller has gone
    Jobs,           \* what a caller may embed: sequences of token counts
    QueueCapacity,
    QueryBurst,     \* batches of queries before a bulk one (4)
    MayCancel       \* may a caller be dropped while it waits?

ASSUME ExecutorAssumption ==
    /\ Priority \in [Callers -> {"Query", "Document", "Memory", "Warmup"}]
    /\ Nobody \notin Callers
    /\ Jobs \subseteq Seq(Nat \ {0})
    /\ {QueueCapacity, QueryBurst} \subseteq Nat \ {0}
    /\ MayCancel \in BOOLEAN

VARIABLES
    calls,     \* what each caller is doing: embed_owned
    queue,     \* the two channels
    deferred,  \* at most one request held back for the next batch
    batch,     \* requests of the current batch
    burst,     \* query_burst, up to QueryBurst
    serving,   \* the class the current batch is taken from
    phase      \* where the executor's loop is

vars == <<calls, queue, deferred, batch, burst, serving, phase>>
executor == <<deferred, batch, burst, serving, phase>>

-----------------------------------------------------------------------------
Classes == {"query", "bulk"}

Text == [owner: Callers, place: Nat \ {0}, tokens: Nat]
Request == [values: Seq(Text), reply: Callers \cup {Nobody}]

\* `plan` lists the microbatches still to come, the submitted one included;
\* `output` the texts that came back, each paired with the vector at its place.
Call == [status: {"idle", "sending", "awaiting", "done", "failed"},
         texts: Seq(Text), plan: Seq(Nat), output: Seq(Text)]

TypeOK ==
    /\ calls \in [Callers -> Call]
    /\ queue \in [Classes -> Seq(Request)]
    /\ deferred \in [Classes -> Seq(Request)]
    /\ batch \in Seq(Request)
    /\ burst \in 0 .. QueryBurst
    /\ serving \in Classes
    /\ phase \in {"select", "merge", "infer"}

ClassOf(c) == IF Priority[c] = "Query" THEN "query" ELSE "bulk"

Min2(m, n) == IF m <= n THEN m ELSE n

\* A whole job cut by the loop of microbatch_lengths.
CutOf(job) == FoldLeft(TakeText, Uncut, job)

TextsOf(c, job) ==
    [i \in DOMAIN job |-> [owner |-> c, place |-> i, tokens |-> job[i]]]

Longest(request) ==
    FoldLeft(LAMBDA n, text : Longer(n, text.tokens), 0, request.values)

Items(requests) == FoldLeft(LAMBDA n, r : n + Len(r.values), 0, requests)

LongestOf(requests) == FoldLeft(LAMBDA n, r : Longer(n, Longest(r)), 0, requests)

Idle == [status |-> "idle", texts |-> <<>>, plan |-> <<>>, output |-> <<>>]

Init ==
    /\ calls = [c \in Callers |-> Idle]
    /\ queue = [class \in Classes |-> <<>>]
    /\ deferred = [class \in Classes |-> <<>>]
    /\ batch = <<>>
    /\ burst = 0
    /\ serving = "query"
    /\ phase = "select"

-----------------------------------------------------------------------------
(* Callers: embed_owned and submit.                                        *)

Busy(c) == calls[c].status \in {"sending", "awaiting"}

\* A job with an oversized text is rejected and an empty one answered, both
\* without a request.
CallEmbed(c, job) ==
    /\ ~Busy(c)
    /\ LET cut == CutOf(job)
           plan == Finished(cut) IN
       calls' = [calls EXCEPT ![c] =
            [status |-> IF cut.rejected THEN "failed"
                        ELSE IF plan = <<>> THEN "done" ELSE "sending",
             texts |-> TextsOf(c, job),
             plan |-> IF cut.rejected THEN <<>> ELSE plan,
             output |-> <<>>]]
    /\ UNCHANGED <<queue, executor>>

NextTexts(c) ==
    SubSeq(calls[c].texts, Len(calls[c].output) + 1,
           Len(calls[c].output) + Head(calls[c].plan))

\* The send waits for room in the channel.
Submit(c) ==
    /\ calls[c].status = "sending"
    /\ Len(queue[ClassOf(c)]) < QueueCapacity
    /\ queue' = [queue EXCEPT ![ClassOf(c)] =
                    Append(@, [values |-> NextTexts(c), reply |-> c])]
    /\ calls' = [calls EXCEPT ![c].status = "awaiting"]
    /\ UNCHANGED executor

Unanswerable(requests, c) ==
    [k \in DOMAIN requests |->
        IF requests[k].reply = c THEN [requests[k] EXCEPT !.reply = Nobody]
                                 ELSE requests[k]]

\* A dropped caller (a closed connection, an aborted task) drops its receiver;
\* its request stays where it is.
Cancel(c) ==
    /\ MayCancel
    /\ Busy(c)
    /\ calls' = [calls EXCEPT ![c] = Idle]
    /\ queue' = [class \in Classes |-> Unanswerable(queue[class], c)]
    /\ deferred' = [class \in Classes |-> Unanswerable(deferred[class], c)]
    /\ batch' = Unanswerable(batch, c)
    /\ UNCHANGED <<burst, serving, phase>>

-----------------------------------------------------------------------------
(* The executor's loop: run.                                               *)

\* Mutation of BulkFirst: the burst of queries is not bounded.
BulkFirstNever == FALSE

\* After a burst of queries a bulk request comes first.
BulkFirst == burst >= QueryBurst /\ queue["bulk"] # <<>>

\* Mutation of NextClass: bulk work is always preferred.
NextClassBulkPreferred == IF queue["bulk"] # <<>> THEN "bulk" ELSE "query"

\* Which queue is asked first when nothing is deferred; the biased select!
\* that waits when both are empty asks in the same order.
NextClass == IF BulkFirst \/ queue["query"] = <<>> THEN "bulk" ELSE "query"

StartBatch(class, request) ==
    /\ batch' = <<request>>
    /\ burst' = IF class = "query" THEN Min2(burst + 1, QueryBurst) ELSE 0
    /\ serving' = class
    /\ phase' = "merge"
    /\ UNCHANGED calls

\* The deferred request is taken before any queue is looked at.
SelectDeferred ==
    /\ phase = "select"
    /\ \E class \in Classes :
          /\ deferred[class] # <<>>
          /\ StartBatch(class, Head(deferred[class]))
          /\ deferred' = [deferred EXCEPT ![class] = <<>>]
    /\ UNCHANGED queue

SelectQueued ==
    /\ phase = "select"
    /\ \A class \in Classes : deferred[class] = <<>>
    /\ queue[NextClass] # <<>>
    /\ StartBatch(NextClass, Head(queue[NextClass]))
    /\ queue' = [queue EXCEPT ![NextClass] = Tail(@)]
    /\ UNCHANGED deferred

\* Mutation of MayMerge: the padded size is taken from the requests so far.
MayMergeByOwnLength(next) ==
    Fits(Items(batch) + Len(next.values), LongestOf(batch))

MayMerge(next) ==
    Fits(Items(batch) + Len(next.values), Longer(LongestOf(batch), Longest(next)))

\* A batch is filled from the queue of its own class.
MergeSource == serving

\* Mutation of Defer: a request that does not fit is forgotten.
DropUnfitting(next) ==
    /\ queue' = [queue EXCEPT ![MergeSource] = Tail(@)]
    /\ UNCHANGED deferred

\* Mutation of Defer: it goes back to its queue, behind later requests.
RequeueUnfitting(next) ==
    /\ queue' = [queue EXCEPT ![MergeSource] = Append(Tail(@), next)]
    /\ UNCHANGED deferred

Defer(next) ==
    /\ queue' = [queue EXCEPT ![MergeSource] = Tail(@)]
    /\ deferred' = [deferred EXCEPT ![MergeSource] = <<next>>]

\* One try_recv of the merge loop.
Merge ==
    /\ phase = "merge"
    /\ Items(batch) < MaxItems
    /\ queue[MergeSource] # <<>>
    /\ LET next == Head(queue[MergeSource]) IN
       IF MayMerge(next)
       THEN /\ batch' = Append(batch, next)
            /\ queue' = [queue EXCEPT ![MergeSource] = Tail(@)]
            /\ UNCHANGED <<deferred, phase>>
       ELSE /\ Defer(next)
            /\ phase' = "infer"
            /\ UNCHANGED batch
    /\ UNCHANGED <<calls, burst, serving>>

StopMerging ==
    /\ phase = "merge"
    /\ Items(batch) >= MaxItems \/ queue[MergeSource] = <<>>
    /\ phase' = "infer"
    /\ UNCHANGED <<calls, queue, deferred, batch, burst, serving>>

\* embed_prepared answers with one vector per value, in their order.
Vectors == FlattenSeq([k \in DOMAIN batch |-> batch[k].values])

\* Mutation of Drained: every request is answered from the front.
DrainedFromFront(k) == SubSeq(Vectors, 1, Len(batch[k].values))

\* What is left for request k once the earlier ones are drained.
Drained(k) ==
    LET before == Items(SubSeq(batch, 1, k - 1)) IN
    SubSeq(Vectors, before + 1, before + Len(batch[k].values))

\* The microbatch came back; the next one is sent.
WithOutput(call, texts) ==
    [call EXCEPT !.output = @ \o texts, !.plan = Tail(@),
                 !.status = IF Len(call.plan) = 1 THEN "done" ELSE "sending"]

EndBatch ==
    /\ batch' = <<>>
    /\ phase' = "select"
    /\ UNCHANGED <<queue, deferred, burst, serving>>

Infer ==
    /\ phase = "infer"
    /\ calls' = [c \in Callers |->
                    IF \E k \in DOMAIN batch : batch[k].reply = c
                    THEN WithOutput(calls[c],
                             Drained(CHOOSE k \in DOMAIN batch : batch[k].reply = c))
                    ELSE calls[c]]
    /\ EndBatch

FailedCall(call) == [call EXCEPT !.status = "failed", !.plan = <<>>]

\* An inference error or a panic of the blocking task fails every request of
\* the batch; a caller gives up at its first failed microbatch.
InferFails ==
    /\ phase = "infer"
    /\ calls' = [c \in Callers |->
                    IF \E k \in DOMAIN batch : batch[k].reply = c
                    THEN FailedCall(calls[c])
                    ELSE calls[c]]
    /\ EndBatch

-----------------------------------------------------------------------------
CallerStep(c) ==
    \/ \E job \in Jobs : CallEmbed(c, job)
    \/ Submit(c)
    \/ Cancel(c)

Run ==
    \/ SelectDeferred
    \/ SelectQueued
    \/ Merge
    \/ StopMerging
    \/ Infer
    \/ InferFails

Next == Run \/ \E c \in Callers : CallerStep(c)

Spec == Init /\ [][Next]_vars

\* The executor's task keeps running and a channel lets its senders in in turn;
\* callers owe nothing.
FairSpec == Spec /\ WF_vars(Run) /\ \A c \in Callers : SF_vars(Submit(c))

-----------------------------------------------------------------------------
(* Safety.                                                                 *)

\* The requests of a class in the order they will be served.
Line(class) == deferred[class] \o queue[class]

Unanswered(requests, c) == {k \in DOMAIN requests : requests[k].reply = c}

\* A caller waits exactly while one request that can still answer it is in a
\* line or in the batch, and that request holds the texts it asked for: none is
\* lost at a batch boundary, answered twice, or left behind by a failed batch.
WaitsForOneRequest ==
    \A c \in Callers :
        LET waiting == batch \o Line(ClassOf(c)) IN
        IF calls[c].status = "awaiting"
        THEN \E k \in DOMAIN waiting :
                /\ Unanswered(waiting, c) = {k}
                /\ waiting[k].values = NextTexts(c)
        ELSE Unanswered(waiting, c) = {}

\* Whatever was merged with its requests, a caller gets back its own texts, each
\* once and in its order, and a finished job is complete.
AnswersInCallerOrder ==
    \A c \in Callers :
        /\ IsPrefix(calls[c].output, calls[c].texts)
        /\ calls[c].status = "done" => calls[c].output = calls[c].texts

\* No batch is larger than the model can take, though its first request is not
\* looked at and a deferred one was measured against another batch.
BatchFits == batch # <<>> => Fits(Items(batch), LongestOf(batch))

\* "Never merge interactive queries with bulk work", and one deferred request
\* at most, between two batches or for the class being served.
ClassesStayApart ==
    /\ \A k \in DOMAIN batch : \A i \in DOMAIN batch[k].values :
          ClassOf(batch[k].values[i].owner) = serving
    /\ Len(deferred["query"]) + Len(deferred["bulk"]) <= 1

\* "It remains ahead of later work": the requests of a class reach inference in
\* the order they were accepted, however batches cut them (a dropped caller's
\* request keeps its place).
Values(requests) == [k \in DOMAIN requests |-> requests[k].values]

Ahead(class) == (IF serving = class THEN batch ELSE <<>>) \o Line(class)

LinesKeepOrder ==
    [][\A class \in Classes :
          IF phase = "infer" /\ phase' = "select"
          THEN Values(Line(class))' = Values(Line(class))
          ELSE IsPrefix(Values(Ahead(class)), Values(Ahead(class)'))]_vars

-----------------------------------------------------------------------------
(* Liveness.                                                               *)

Answered(class) ==
    \A c \in Callers : (ClassOf(c) = class /\ calls[c].status = "awaiting")
                            ~> calls[c].status # "awaiting"

\* "Query latency stays low": a query accepted by the queue is answered, however
\* much bulk work keeps arriving.
QueriesAreAnswered == Answered("query")

\* "... without allowing an endless request stream to starve indexing."
BulkIsAnswered == Answered("bulk")
=============================================================================
