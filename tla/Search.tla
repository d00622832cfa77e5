-------------------------------- MODULE Search --------------------------------
(***************************************************************************)
(* A search: the statements that rank candidates, their fusion, the        *)
(* selection, the second read that hydrates the selected rows, and the byte*)
(* budget of the answer (server/src/search_engine.rs, search_projection.rs,*)
(* storage/src/search.rs).  It competes for the readers of StorageReaders  *)
(* with the context reads of the memory tasks, while the writer replaces   *)
(* documents and forgets memories.                                         *)
(*                                                                         *)
(* A read is no transaction: each of its statements sees the tables as they*)
(* are when it runs.  A publication gives the chunks of a document new     *)
(* rowids, each one more than the largest in use (`id INTEGER PRIMARY KEY`)*)
(* so that a freed one may come back for another chunk.                    *)
(***************************************************************************)
EXTENDS StorageReaders, SequencesExt

CONSTANTS
    Searcher,         \* the client whose search this is
    Documents,
    Initially,        \* what each document is cut into at first: nothing if it
                      \* has been submitted only
    Texts,            \* what a chunk can say
    Memories,
    Bytes,            \* of a result with this text or memory: full, reduced
    Budget,           \* SEARCH_CONTEXT_BUDGET_BYTES
    CandidateLimit,   \* candidates a statement may find (20 to 500)
    EvidenceUnit,     \* what a whole piece of evidence counts
    Requests,         \* what clients ask
    MaxChunks,        \* bounds of a run: chunks per publication,
    MaxPublications   \* publications and deletions

\* What the handler of /v4/search, the profile search and /v3/search ask for
\* once they have validated the request: without a vector (no model) and in
\* hybrid mode lexically, too.
Request == [api: {"v3", "v4"}, mode: {"memories", "documents", "hybrid"},
            semantic: BOOLEAN, lexical: BOOLEAN,
            limit: Nat \ {0}, aggregate: BOOLEAN]

RrfK == 60

ASSUME SearchAssumption ==
    /\ Searcher \in Clients
    /\ IsFiniteSet(Documents)
    /\ Initially \in [Documents -> Seq(Texts)]
    /\ Memories \subseteq Nat      \* their ids are compared
    /\ Bytes \in [Texts \cup Memories -> [full: Nat, reduced: Nat]]
    /\ {Budget, CandidateLimit, MaxChunks, MaxPublications, EvidenceUnit} \subseteq Nat
    /\ EvidenceUnit > 0
    /\ \A rank \in 1 .. CandidateLimit : EvidenceUnit % (RrfK + rank) = 0
    /\ Requests \subseteq Request /\ Requests # {}
    /\ \A r \in Requests :
          /\ (~r.semantic \/ (r.api = "v4" /\ r.mode = "hybrid")) => r.lexical
          /\ r.api = "v3" => r.mode = "documents" /\ r.semantic # r.lexical

VARIABLES
    status,       \* of each document; only "done" ones are found
    chunks,       \* the document_chunks table
    visible,      \* the memories that are latest, not forgotten, not expired
    nextStable,   \* generate_id
    publications,
    phase,        \* of the search
    request,
    todo,         \* its statements that have not run yet
    found,        \* what each statement has found, best first
    selected,     \* the candidates to hydrate, best first
    hydrated,     \* the rows read for them
    answer        \* what the client gets

tables == <<status, chunks, visible, nextStable, publications>>
search == <<phase, request, todo, found, selected, hydrated, answer>>
vars == <<pool, tables, search>>

-----------------------------------------------------------------------------
Chunk == [row: Nat \ {0}, stable: Nat \ {0}, document: Documents,
          ordinal: Nat \ {0}, text: Texts]

Statements == {"semantic_memories", "lexical_memories",
               "semantic_chunks", "lexical_chunks", "hydrate_memories", "hydrate_chunks"}

Rankings == Statements \ {"hydrate_memories", "hydrate_chunks"}

TypeOK ==
    /\ PoolTypeOK
    /\ status \in [Documents -> {"done", "queued", "indexing", "deleted"}]
    /\ chunks \in SUBSET Chunk
    /\ visible \in SUBSET Memories
    /\ nextStable \in Nat
    /\ publications \in 0 .. MaxPublications
    /\ phase \in {"idle", "ranking", "hydrating", "answered", "failed"}
    /\ request \in Requests
    /\ todo \in Seq(Statements)
    /\ DOMAIN found = Rankings

LargestRow(rows) == IF rows = {} THEN 0 ELSE Max({c.row : c \in rows})

InitialChunks ==
    LET order == SetToSeq(Documents)
        before(k) == FoldLeft(LAMBDA n, d : n + Len(Initially[d]), 0,
                              SubSeq(order, 1, k - 1))
        rowsOf(k) == {[row |-> before(k) + i, stable |-> before(k) + i,
                       document |-> order[k], ordinal |-> i,
                       text |-> Initially[order[k]][i]]
                         : i \in DOMAIN Initially[order[k]]} IN
    UNION {rowsOf(k) : k \in DOMAIN order}

Nothing == [ranking \in Rankings |-> <<>>]

Init ==
    /\ PoolInit
    /\ status = [d \in Documents |-> IF Initially[d] = <<>> THEN "queued" ELSE "done"]
    /\ chunks = InitialChunks
    /\ visible = Memories
    /\ nextStable = LargestRow(InitialChunks) + 1
    /\ publications = 0
    /\ phase = "idle"
    /\ request = CHOOSE r \in Requests : TRUE
    /\ todo = <<>>
    /\ found = Nothing
    /\ selected = <<>>
    /\ hydrated = {}
    /\ answer = <<>>

-----------------------------------------------------------------------------
(* What the writer does meanwhile, between two operations.                 *)

WriterFree == writer = "running" /\ Are("writer") = {}

Submit(d) ==
    /\ WriterFree
    /\ status[d] = "done"
    /\ status' = [status EXCEPT ![d] = "queued"]
    /\ UNCHANGED <<pool, chunks, visible, nextStable, publications, search>>

\* Mutation of StableIdOf: a chunk at the same place keeps its id.
StableIdOfPlace(d, ordinal, text, fresh) ==
    LET same == {c \in chunks : c.document = d /\ c.ordinal = ordinal} IN
    IF same = {} THEN fresh ELSE (CHOOSE c \in same : TRUE).stable

\* A chunk that says the same at the same place keeps its id.
StableIdOf(d, ordinal, text, fresh) ==
    LET same == {c \in chunks : /\ c.document = d
                                /\ c.ordinal = ordinal
                                /\ c.text = text} IN
    IF same = {} THEN fresh ELSE (CHOOSE c \in same : TRUE).stable

\* publish_job; with no text at all the document itself is deleted.
Publish(d, texts) ==
    /\ WriterFree
    /\ status[d] = "queued"
    /\ publications < MaxPublications
    /\ LET others == {c \in chunks : c.document # d} IN
       chunks' = others \cup
          {[row |-> LargestRow(others) + i,
            stable |-> StableIdOf(d, i, texts[i], nextStable + i - 1),
            document |-> d, ordinal |-> i, text |-> texts[i]] : i \in DOMAIN texts}
    /\ nextStable' = nextStable + Len(texts)
    /\ status' = [status EXCEPT ![d] = IF texts = <<>> THEN "deleted" ELSE "indexing"]
    /\ publications' = publications + 1
    /\ UNCHANGED <<pool, visible, search>>

\* The memory job of the revision is reconciled.
Finish(d) ==
    /\ WriterFree
    /\ status[d] = "indexing"
    /\ status' = [status EXCEPT ![d] = "done"]
    /\ UNCHANGED <<pool, chunks, visible, nextStable, publications, search>>

\* Forgotten, superseded or expired.
Hide(m) ==
    /\ WriterFree
    /\ visible' = visible \ {m}
    /\ UNCHANGED <<pool, status, chunks, nextStable, publications, search>>

-----------------------------------------------------------------------------
(* Candidates: narrow rows.  `text` and `document` of a chunk candidate are*)
(* what it said and belonged to when it was ranked; the code keeps the     *)
(* document only.                                                          *)

MemoryCandidate(m) == [kind |-> "memory", id |-> m]

ChunkCandidate(c) == [kind |-> "chunk", id |-> c.stable, row |-> c.row,
                      document |-> c.document, text |-> c.text]

\* documents.status='done'
Searchable == {c \in chunks : status[c.document] = "done"}

\* Any order may be the order of the scores, and any may miss the threshold, the
\* phrase or the LIMIT.
Candidates(ranking) ==
    IF ranking \in {"semantic_memories", "lexical_memories"}
    THEN {MemoryCandidate(m) : m \in visible}
    ELSE {ChunkCandidate(c) : c \in Searchable}

Ranked(candidates) ==
    UNION {{list \in [1 .. n -> candidates] : IsInjective(list)}
           : n \in 0 .. CandidateLimit}

\* The statements of the first read, in their order.
Plan(r) ==
    LET memories == r.mode # "documents"
        documents == r.mode # "memories"
        asked(statement, wanted) == IF wanted THEN <<statement>> ELSE <<>> IN
    asked("semantic_memories", memories /\ r.semantic)
        \o asked("lexical_memories", memories /\ r.lexical)
        \o asked("semantic_chunks", documents /\ r.semantic)
        \o asked("lexical_chunks", documents /\ r.lexical)

\* The query has been embedded; the first read is asked for.  /v3 hydrates
\* within it.  One search is followed: another one starts from nothing.
Begin(r) ==
    /\ phase = "idle"
    /\ request' = r
    /\ phase' = "ranking"
    /\ todo' = Plan(r) \o (IF r.api = "v3" THEN <<"hydrate_chunks">> ELSE <<>>)
    /\ found' = Nothing
    /\ selected' = <<>>
    /\ hydrated' = {}
    /\ answer' = <<>>
    /\ RequestRead(Searcher)
    /\ UNCHANGED tables

\* One SELECT of the ranking read.
Rank ==
    /\ Runs(Searcher)
    /\ todo # <<>>
    /\ Head(todo) \in Rankings
    /\ \E list \in Ranked(Candidates(Head(todo))) :
          found' = [found EXCEPT ![Head(todo)] = list]
    /\ todo' = Tail(todo)
    /\ UNCHANGED <<pool, tables, phase, request, selected, hydrated, answer>>

-----------------------------------------------------------------------------
(* Fusion and selection: pure functions of what was found.                 *)

Key(candidate) == <<candidate.kind, candidate.id>>

Positions(list, key) == {i \in DOMAIN list : Key(list[i]) = key}

\* The reciprocal of a rank, in EvidenceUnits: a common multiple of the
\* denominators, so that sums are exact.  The code adds f64s: they order
\* different sums as these do, but may tell equal sums of different ranks apart.
Evidence(rank) == EvidenceUnit \div (RrfK + rank)

Score(lists, key) ==
    LET from(ranking) == IF Positions(lists[ranking], key) = {} THEN 0
                         ELSE Evidence(Min(Positions(lists[ranking], key))) IN
    from("semantic_memories") + from("lexical_memories")
        + from("semantic_chunks") + from("lexical_chunks")

\* A key keeps the candidate that brought it first.
Fused(lists) ==
    LET all == lists["semantic_memories"] \o lists["lexical_memories"]
                   \o lists["semantic_chunks"] \o lists["lexical_chunks"] IN
    {all[i] : i \in {i \in DOMAIN all :
                        \A j \in 1 .. i - 1 : Key(all[j]) # Key(all[i])}}

\* Mutation of Better: lexical evidence does not count.
BetterSemantically(lists, a, b) ==
    LET semantic == [lists EXCEPT !["lexical_memories"] = <<>>, !["lexical_chunks"] = <<>>]
        score(c) == Score(semantic, Key(c)) IN
    \/ score(a) > score(b)
    \/ /\ score(a) = score(b)
       /\ \/ a.kind = "memory" /\ b.kind = "chunk"
          \/ a.kind = b.kind /\ a.id < b.id

\* compare_ranked_candidates: on a tie memories come first, then smaller ids.
Better(lists, a, b) ==
    LET score(c) == Score(lists, Key(c)) IN
    \/ score(a) > score(b)
    \/ /\ score(a) = score(b)
       /\ \/ a.kind = "memory" /\ b.kind = "chunk"
          \/ a.kind = b.kind /\ a.id < b.id

\* Sorted: each candidate comes after the better ones.
Ordered(lists) ==
    LET candidates == Fused(lists)
        ahead(c) == Cardinality({b \in candidates : Better(lists, b, c)}) IN
    [k \in 1 .. Cardinality(candidates) |-> CHOOSE c \in candidates : ahead(c) = k - 1]

\* The document of the chunk is represented.
Redundant(selection, candidate) ==
    \E i \in DOMAIN selection :
        /\ candidate.kind = "chunk" /\ selection[i].kind = "chunk"
        /\ selection[i].document = candidate.document

SelectDiverse(candidates, r) ==
    FoldLeft(LAMBDA selection, candidate :
                 IF \/ Len(selection) = r.limit
                    \/ (r.aggregate /\ Redundant(selection, candidate))
                 THEN selection ELSE Append(selection, candidate),
             <<>>, candidates)

-----------------------------------------------------------------------------
(* Hydration and the answer.                                               *)

\* The first read of /v4 returns; no connection is held while its results are
\* fused.
EndRanking ==
    /\ phase = "ranking"
    /\ todo = <<>>
    /\ request.api = "v4"
    /\ EndRead(Searcher)
    /\ selected' = SelectDiverse(Ordered(found), request)
    /\ todo' = <<"hydrate_memories", "hydrate_chunks">>
    /\ phase' = "hydrating"
    /\ UNCHANGED <<tables, request, found, hydrated, answer>>

AskForHydration ==
    /\ phase = "hydrating"
    /\ todo # <<>>
    /\ RequestRead(Searcher)
    /\ UNCHANGED <<tables, search>>

\* What is still to hydrate: /v3 hydrates all it has ranked.
Chosen == IF request.api = "v4" THEN selected
          ELSE found["semantic_chunks"] \o found["lexical_chunks"]

\* A memory is read whatever has become of it, a chunk by its rowid.
HydrateMemories ==
    /\ Runs(Searcher)
    /\ todo # <<>> /\ Head(todo) = "hydrate_memories"
    /\ hydrated' = hydrated \cup
          {[kind |-> "memory", id |-> Chosen[i].id, text |-> Chosen[i].id]
              : i \in {i \in DOMAIN Chosen : Chosen[i].kind = "memory"}}
    /\ todo' = Tail(todo)
    /\ UNCHANGED <<pool, tables, phase, request, found, selected, answer>>

HydrateChunks ==
    /\ Runs(Searcher)
    /\ todo # <<>> /\ Head(todo) = "hydrate_chunks"
    /\ LET rows == {Chosen[i].row : i \in {i \in DOMAIN Chosen : Chosen[i].kind = "chunk"}} IN
       hydrated' = hydrated \cup
          {[kind |-> "chunk", id |-> c.stable, row |-> c.row, text |-> c.text,
            document |-> c.document] : c \in {c \in chunks : c.row \in rows}}
    /\ todo' = Tail(todo)
    /\ UNCHANGED <<pool, tables, phase, request, found, selected, answer>>

\* results_by_id: a chunk counts only under the stable id it was ranked with.
HitsFor(candidate) == {hit \in hydrated : Key(hit) = Key(candidate)}

ThatOf(hits) == CHOOSE hit \in hits : TRUE

\* Selected rows that are still there, in the ranked order.
Results ==
    FoldLeft(LAMBDA results, candidate :
                 IF HitsFor(candidate) = {} THEN results
                 ELSE Append(results, ThatOf(HitsFor(candidate))),
             <<>>, selected)

\* Optional fields are left out of a result larger than what remains.
BytesIn(hit, remaining) ==
    IF Bytes[hit.text].full > remaining THEN Bytes[hit.text].reduced
                                        ELSE Bytes[hit.text].full

\* No result may take more than half of the budget.
Admissible(bytes, remaining) == bytes <= remaining /\ bytes <= Budget \div 2

FitSearchContext(results) ==
    FoldLeft(LAMBDA fit, hit :
                 LET bytes == BytesIn(hit, fit.remaining) IN
                 IF Admissible(bytes, fit.remaining)
                 THEN [remaining |-> fit.remaining - bytes,
                       kept |-> Append(fit.kept, hit)]
                 ELSE fit,
             [remaining |-> Budget, kept |-> <<>>], results).kept

\* group_v3_results: chunks under their document, in the order of their first,
\* which is that of the documents' scores, too (the best chunk comes first and
\* lexical hits all score nothing).  `worth` of them reach the document threshold.
Grouped(worth) ==
    LET hits(candidate) == {hit \in hydrated : hit.row = candidate.row}
        there == SelectSeq(Chosen, LAMBDA candidate : hits(candidate) # {})
        all == [i \in DOMAIN there |-> ThatOf(hits(there[i]))]
        documents == FoldLeft(LAMBDA seen, hit : IF Contains(seen, hit.document) THEN seen
                                                 ELSE Append(seen, hit.document),
                              <<>>, all)
        group(d) == [document |-> d,
                     chunks |-> SelectSeq(all, LAMBDA hit : hit.document = d)] IN
    SubSeq([k \in DOMAIN documents |-> group(documents[k])],
           1, Min({Len(documents), worth, request.limit}))

Answer ==
    /\ todo = <<>>
    /\ phase = (IF request.api = "v4" THEN "hydrating" ELSE "ranking")
    /\ EndRead(Searcher)
    /\ \/ request.api = "v4" /\ answer' = FitSearchContext(Results)
       \/ /\ request.api = "v3"
          /\ \E worth \in 0 .. Cardinality(Documents) : answer' = Grouped(worth)
    /\ phase' = "answered"
    /\ UNCHANGED <<tables, request, todo, found, selected, hydrated>>

\* A statement of the read returns an error, or the read panics, finds the
\* writer gone, or loses its client.
Fail ==
    /\ \/ todo # <<>> /\ EndRead(Searcher)
       \/ Panic(Searcher) \/ WriterGone(Searcher) \/ Leave(Searcher)
    /\ phase' = "failed"
    /\ UNCHANGED <<tables, request, todo, found, selected, hydrated, answer>>

-----------------------------------------------------------------------------
Statement == Rank \/ HydrateMemories \/ HydrateChunks

SearchStep ==
    \/ \E r \in Requests : Begin(r)
    \/ (Acquire(Searcher) \/ WriterTakes(Searcher)) /\ UNCHANGED <<tables, search>>
    \/ Statement
    \/ EndRanking
    \/ AskForHydration
    \/ Answer
    \/ Fail

OtherRead(c) == PoolStep(c) /\ UNCHANGED <<tables, search>>

\* The writer's task with commands of callers who have left.
LeftBehind == (TakeAbandoned \/ EndAbandoned) /\ UNCHANGED <<tables, search>>

Cuttings(n) == UNION {[1 .. k -> Texts] : k \in 0 .. n}

Write ==
    \/ \E d \in Documents : Submit(d) \/ Finish(d)
    \/ \E d \in Documents, texts \in Cuttings(MaxChunks) : Publish(d, texts)
    \/ \E m \in Memories : Hide(m)

Next ==
    \/ SearchStep
    \/ Write
    \/ \E c \in Clients \ {Searcher} : OtherRead(c)
    \/ LeftBehind

Spec == Init /\ [][Next]_vars

\* The statements of a read have run.
ReadIsOver == Runs(Searcher) /\ todo = <<>> /\ phase \in {"ranking", "hydrating"}

ReadReturns == EndRanking \/ Answer

Progress == Statement \/ AskForHydration \/ (WriterGone(Searcher) /\ Fail)

Served(step) == step /\ UNCHANGED <<tables, search>>

\* Operations come to an end; the semaphore and the writer's channel serve
\* their waiters in turn.  A read that is over returns: this is the weak
\* fairness of ReadReturns, which is enabled exactly then.
FairSpec ==
    /\ Spec
    /\ WF_vars(Progress)
    /\ []<>~ReadIsOver \/ []<><<ReadReturns>>_vars
    /\ SF_vars(Served(Acquire(Searcher)))
    /\ SF_vars(Served(WriterTakes(Searcher)))
    /\ \A c \in Clients \ {Searcher} :
          WF_vars((WriterTakes(c) \/ EndRead(c) \/ WriterGone(c)) /\ OtherRead(c))
    /\ WF_vars(LeftBehind)

-----------------------------------------------------------------------------
\* Rows are ranked in one read and hydrated by rowid in another, and rowids
\* come back: still every result of /v4 says what the chunk that was ranked
\* said, under the document it was selected for.
QuotesWhatWasRanked ==
    phase = "answered" /\ request.api = "v4" =>
        \A i \in DOMAIN answer :
            \E j \in DOMAIN selected :
                /\ Key(selected[j]) = Key(answer[i])
                /\ answer[i].kind = "chunk" =>
                      /\ answer[i].text = selected[j].text
                      /\ answer[i].document = selected[j].document

\* Whatever happens between the statements, an answer of /v4 lists candidates
\* by their joint evidence, and leaves one out only for a reason: the limit,
\* its row has gone, a better chunk of the same document (aggregate), or the
\* budget, of which no result takes more than half.  Without aggregate, further
\* chunks of a document might come later than their evidence: the comment in
\* select_diverse says so, its code does not (see OtherDocumentsFirst).
BytesOf(hits, k) ==
    FoldLeft(LAMBDA remaining, hit : remaining - BytesIn(hit, remaining),
             Budget, SubSeq(hits, 1, k))

\* A chunk of a document that another chunk represents at least as well.
Further(lists, c) ==
    /\ c.kind = "chunk"
    /\ \E b \in Fused(lists) \ {c} :
          /\ b.kind = "chunk"
          /\ b.document = c.document
          /\ Score(lists, Key(b)) >= Score(lists, Key(c))

BestEvidenceFirst ==
    phase = "answered" /\ request.api = "v4" =>
        LET candidates == Fused(found)
            score(c) == Score(found, Key(c))
            place(c) == {i \in DOMAIN answer : Key(answer[i]) = Key(c)}
            mayPrecede(b, c) ==
                \/ score(b) >= score(c)
                \/ ~request.aggregate /\ Further(found, c) /\ ~Further(found, b)
            gone(c) == HitsFor(c) = {}
            redundant(c) == request.aggregate /\ Further(found, c)
            tooLarge(c) ==
                \E k \in 0 .. Len(answer) :
                    /\ \A i \in 1 .. k : \E b \in candidates : mayPrecede(b, c) /\ i \in place(b)
                    /\ ~Admissible(BytesIn(ThatOf(HitsFor(c)), BytesOf(answer, k)),
                                   BytesOf(answer, k))
            excused(c) == gone(c) \/ redundant(c) \/ tooLarge(c) IN
        /\ Len(answer) <= request.limit
        /\ BytesOf(answer, Len(answer)) >= 0
        /\ \A c \in candidates : Cardinality(place(c)) <= 1
        /\ \A b, c \in candidates :
              ~mayPrecede(c, b) /\ place(c) # {} =>
                  \/ excused(b)
                  \/ \E i \in place(b), j \in place(c) : i < j
        /\ \A c \in candidates :
              \/ place(c) # {} \/ excused(c)
              \/ Len(selected) = request.limit /\ ~\E i \in DOMAIN selected : selected[i] = c

\* "normal search admits them only after other documents are covered": where a
\* chunk is selected whose document is represented already, no other document
\* of the candidates is still to come or left out (the comment in
\* select_diverse).
OtherDocumentsFirst ==
    \A i \in DOMAIN selected :
        Redundant(SubSeq(selected, 1, i - 1), selected[i]) =>
            \A c \in Fused(found) :
                c.kind = "chunk" => Redundant(SubSeq(selected, 1, i - 1), c)

\* "Optional fields are removed before a result is rejected": one that is left
\* out would not have been admitted without them either.
OptionalFieldsGoFirst ==
    phase = "answered" /\ request.api = "v4" =>
        \A i \in DOMAIN Results :
            LET ahead == FitSearchContext(SubSeq(Results, 1, i - 1)) IN
            \/ Contains(answer, Results[i])
            \/ ~Admissible(Bytes[Results[i].text].reduced, BytesOf(ahead, Len(ahead)))

\* A search comes to an end, whatever operations panic and however much else
\* is read: no permit is lost, and reads without a reader get an answer from
\* the writer or learn that it has gone.
EverySearchEnds ==
    phase \in {"ranking", "hydrating"} ~> phase \in {"answered", "failed"}
=============================================================================
