------------------------------ MODULE MemoryGraph ------------------------------
(***************************************************************************)
(* The memories of one container: extractions under way, the               *)
(* reconciliation of their answers, updates that supersede older versions, *)
(* forgetting and expiry (storage/src/memories.rs, memory_jobs.rs,         *)
(* lib.rs), and which memories search and profiles show.                   *)
(*                                                                         *)
(* A reconciliation is one transaction of the one writer.  It is modelled  *)
(* one proposal at a time, and nothing else writes or reads before Commit. *)
(* An answer is cached with its job, so a retry or a restart between the   *)
(* extraction and the transaction changes nothing here: the memories the   *)
(* provider was shown only get older.                                      *)
(***************************************************************************)
EXTENDS Naturals, FiniteSets

CONSTANTS
    Docs,           \* documents of the container
    NoDoc,          \* no transaction is open
    NoMemory,       \* a row that does not exist yet
    Contents,       \* memory texts, as the provider words them
    Facts,          \* normalised texts
    Normal,         \* normalized_memory: the fact a text stands for
    Wordless,       \* what is left of a text without a letter or a digit
    Permanent,      \* texts the provider adds to the static profile
    Temporary,      \* texts the provider gives a forgetAfter in the future
    ForgetBy,       \* the ways clients name a memory to forget
    MaxParents,     \* provider.rs: MAX_PARENTS
    RowLimit,       \* LIMIT 300 of the profile queries
    ProfileLimit,   \* the 100 memories deduplicate_memories is asked for
    MaxMemories     \* bound of a run

ASSUME GraphAssumption ==
    /\ NoDoc \notin Docs
    /\ Normal \in [Contents -> Facts]
    /\ Wordless \in Facts
    /\ Permanent \subseteq Contents
    /\ Temporary \subseteq Contents
    /\ ForgetBy \subseteq {"id", "content"}
    /\ MaxParents \in Nat
    /\ RowLimit \in Nat /\ ProfileLimit \in Nat /\ ProfileLimit < RowLimit
    /\ MaxMemories \in Nat

VARIABLES
    count,       \* rows of memories; ids are given in row order
    memories,    \* memories, memory_sources and memory_embeddings.active, by id
    relations,   \* memory_relations
    extractions, \* per document: is an answer waiting to be reconciled?
    tx,          \* the document of the open reconciliation
    exact,       \* its exact_memories: the memory of a fact, 0 for none
    learned,     \* its temporary_ids, by fact: where a proposal ended up
    first        \* the number of rows when it began

vars == <<count, memories, relations, extractions, tx, exact, learned, first>>

-----------------------------------------------------------------------------
Ids == 1 .. MaxMemories
Relations == {"updates", "extends"}    \* "derives" differs in is_inferred only

Memory ==
    [content: Contents, root: 0 .. MaxMemories, parent: 0 .. MaxMemories, version: Nat,
     latest: BOOLEAN, forgotten: BOOLEAN, static: BOOLEAN, active: BOOLEAN,
     expiry: {"never", "later", "past"}, sources: SUBSET Docs]

Relation == [parent: Ids, child: Ids, relation: Relations]

Extraction == {"idle", "asked", "stale"}

TypeOK ==
    /\ count \in 0 .. MaxMemories
    /\ memories \in [Ids -> Memory \cup {NoMemory}]
    /\ \A m \in Ids : m <= count <=> memories[m] \in Memory
    /\ relations \subseteq Relation
    /\ extractions \in [Docs -> Extraction]
    /\ tx \in Docs \cup {NoDoc}
    /\ exact \in [Facts -> 0 .. count]
    /\ learned \in [Facts -> 0 .. count]
    /\ first \in 0 .. count

Nowhere == [f \in Facts |-> 0]

Init ==
    /\ count = 0
    /\ memories = [m \in Ids |-> NoMemory]
    /\ relations = {}
    /\ extractions = [d \in Docs |-> "idle"]
    /\ tx = NoDoc
    /\ exact = Nowhere
    /\ learned = Nowhere
    /\ first = 0

-----------------------------------------------------------------------------
(* What the queries select.                                                *)

Rows == 1 .. count

FactOf(m) == Normal[memories[m].content]

\* WHERE is_latest=1 AND is_forgotten=0
Current(m) == memories[m].latest /\ ~memories[m].forgotten

\* ... AND (forget_after IS NULL OR forget_after > CURRENT_TIMESTAMP)
Visible(m) == Current(m) /\ memories[m].expiry # "past"

\* What a client may still forget.
Forgettable(m) == ~memories[m].forgotten /\ memories[m].expiry # "past"

\* With the default MemoryVisibility; ranking is left out.
Searchable == {m \in Rows : memories[m].active /\ Visible(m)}

Static == {m \in Rows : Visible(m) /\ memories[m].static}
Dynamic == {m \in Rows : Visible(m) /\ ~memories[m].static}

\* What a profile query and deduplicate_memories can make of the memories that
\* qualify.  The query reads the first RowLimit of them, in an order (sources,
\* updated_at) that is left open; of what it read, the first of each fact that
\* has words and is not excluded is shown, until ProfileLimit are.
Profiles(qualifying, excluded) ==
    {shown \in SUBSET qualifying :
        \E read \in SUBSET qualifying :
            LET kept == {m \in read : FactOf(m) \notin excluded \cup {Wordless}}
            IN  /\ read = qualifying \/ Cardinality(read) = RowLimit
                /\ Cardinality(read) <= RowLimit
                /\ shown \subseteq kept
                /\ \A m, n \in shown : FactOf(m) = FactOf(n) => m = n
                /\ Cardinality(shown) <= ProfileLimit
                /\ \/ Cardinality(shown) = ProfileLimit
                   \/ \A m \in kept : \E n \in shown : FactOf(n) = FactOf(m)}

StaticProfiles == Profiles(Static, {})

\* The dynamic profile leaves out the facts of the static one it goes with.
DynamicProfiles(static) == Profiles(Dynamic, {FactOf(m) : m \in static})

-----------------------------------------------------------------------------
(* Extraction and documents.                                               *)

\* existing_memories_for_extraction, then the provider's answer.  What it was
\* shown is not kept: see Named.
Extract(d) ==
    /\ tx = NoDoc
    /\ extractions[d] = "idle"
    /\ extractions' = [extractions EXCEPT ![d] = "asked"]
    /\ UNCHANGED <<count, memories, relations, tx, exact, learned, first>>

\* The document gets a new revision, or is deleted.  (A deletion also takes its
\* memory_sources, which nothing below reads once an answer is reconciled.)
EditDocument(d) ==
    /\ tx = NoDoc
    /\ extractions[d] = "asked"
    /\ extractions' = [extractions EXCEPT ![d] = "stale"]
    /\ UNCHANGED <<count, memories, relations, tx, exact, learned, first>>

-----------------------------------------------------------------------------
(* Reconciliation: reconcile_memories_for.                                 *)

\* StaleRevision, or UnknownMemorySource: nothing is written.
Refused(d) == extractions[d] = "stale"

Refuse(d) ==
    /\ tx = NoDoc
    /\ Refused(d)
    /\ extractions' = [extractions EXCEPT ![d] = "idle"]
    /\ UNCHANGED <<count, memories, relations, tx, exact, learned, first>>

\* Mutation of Known: versions that were superseded count as known.
KnownUnforgotten(f) == {m \in Rows : FactOf(m) = f /\ ~memories[m].forgotten}

\* Mutation of Known: a memory past its forget_after does not count as known.
KnownVisible(f) == {m \in Rows : FactOf(m) = f /\ Visible(m)}

\* active_memory_ids_by_content, whose first row wins.  Expiry does not matter.
Known(f) == {m \in Rows : FactOf(m) = f /\ Current(m)}

Begin(d) ==
    /\ tx = NoDoc
    /\ extractions[d] # "idle"
    /\ ~Refused(d)
    /\ tx' = d
    /\ exact' = [f \in Facts |-> IF Known(f) = {} THEN 0
                                 ELSE CHOOSE m \in Known(f) :
                                      \A n \in Known(f) :
                                          memories[n].version <= memories[m].version]
    /\ first' = count
    /\ UNCHANGED <<count, memories, relations, extractions, learned>>

\* normalize_candidates leaves one candidate of each fact.
Proposable(c) == tx # NoDoc /\ learned[Normal[c]] = 0

\* The fact is known: the document becomes another source of its memory.
AddSource(c) ==
    LET m == exact[Normal[c]]
    IN  /\ Proposable(c)
        /\ m # 0
        /\ memories' = [memories EXCEPT ![m].sources = @ \cup {tx}]
        /\ learned' = [learned EXCEPT ![Normal[c]] = m]
        /\ UNCHANGED <<count, relations, extractions, tx, exact, first>>

\* What the names of a proposal may resolve to: any memory of the container,
\* the provider was shown it or not, however long ago, and whatever became of
\* it; an earlier proposal of the same answer too.  A name that resolves to
\* nothing is dropped, and two names may resolve to one row.
Named == Rows

\* Mutation of RootOf: every version is rooted in its parent.
RootIsParent(p) == p

RootOf(p) == IF p = 0 THEN 0
             ELSE IF memories[p].root = 0 THEN p ELSE memories[p].root

VersionOf(p) == IF p = 0 THEN 1 ELSE memories[p].version + 1

NewMemory(c, p) ==
    [content |-> c, root |-> RootOf(p), parent |-> p, version |-> VersionOf(p),
     latest |-> TRUE, forgotten |-> FALSE, static |-> c \in Permanent, active |-> TRUE,
     expiry |-> IF c \in Temporary THEN "later" ELSE "never", sources |-> {tx}]

\* Mutation of Superseded: the parent stays the latest version.
SupersededStillLatest(m) == [memories[m] EXCEPT !.static = FALSE, !.active = FALSE]

Superseded(m) == [memories[m] EXCEPT !.latest = FALSE, !.static = FALSE, !.active = FALSE]

\* Mutation of Related: the columns are swapped.
RelatedBackwards(new, parents) ==
    {[parent |-> new, child |-> p[1], relation |-> p[2]] : p \in parents}

Related(new, parents) ==
    {[parent |-> p[1], child |-> new, relation |-> p[2]] : p \in parents}

\* A new memory with its parents, each with a relation; the primary parent
\* decides its lineage.
Insert(c, primary, parents) ==
    LET new == count + 1
    IN  /\ exact[Normal[c]] = 0
        /\ count < MaxMemories
        /\ count' = new
        /\ memories' = [m \in Ids |->
               IF m = new THEN NewMemory(c, primary)
               ELSE IF <<m, "updates">> \in parents THEN Superseded(m)
               ELSE memories[m]]
        /\ relations' = relations \cup Related(new, parents)
        /\ exact' = [exact EXCEPT ![Normal[c]] = new]
        /\ learned' = [learned EXCEPT ![Normal[c]] = new]
        /\ UNCHANGED <<extractions, tx, first>>

Primaries(parents) == IF parents = {} THEN {0} ELSE {p[1] : p \in parents}

InsertSome(c) ==
    /\ Proposable(c)
    /\ \E parents \in SUBSET (Named \X Relations) :
           /\ Cardinality(parents) <= MaxParents
           /\ \E primary \in Primaries(parents) : Insert(c, primary, parents)

\* The job is completed in the same transaction.
Commit ==
    /\ tx # NoDoc
    /\ extractions' = [extractions EXCEPT ![tx] = "idle"]
    /\ tx' = NoDoc
    /\ exact' = Nowhere
    /\ learned' = Nowhere
    /\ first' = 0
    /\ UNCHANGED <<count, memories, relations>>

-----------------------------------------------------------------------------
(* Forgetting and expiry.                                                  *)

Forgotten(m) ==
    [memories[m] EXCEPT !.forgotten = TRUE, !.latest = FALSE, !.static = FALSE,
                        !.expiry = "past", !.active = FALSE]

ForgetMemory(m) ==
    /\ tx = NoDoc
    /\ memories' = [memories EXCEPT ![m] = Forgotten(m)]
    /\ UNCHANGED <<count, relations, extractions, tx, exact, learned, first>>

ForgetById(m) ==
    /\ "id" \in ForgetBy
    /\ m \in Rows
    /\ Forgettable(m)
    /\ ForgetMemory(m)

\* ORDER BY rowid LIMIT 1
ForgetByContent(c) ==
    /\ "content" \in ForgetBy
    /\ \E m \in Rows :
           /\ memories[m].content = c /\ Forgettable(m)
           /\ \A n \in Rows : memories[n].content = c /\ Forgettable(n) => m <= n
           /\ ForgetMemory(m)

\* forget_after lies in the past from now on.
Expire(m) ==
    /\ tx = NoDoc
    /\ m \in Rows
    /\ memories[m].expiry = "later"
    /\ memories' = [memories EXCEPT ![m] = [@ EXCEPT !.expiry = "past"]]
    /\ UNCHANGED <<count, relations, extractions, tx, exact, learned, first>>

-----------------------------------------------------------------------------
Next ==
    \/ \E d \in Docs : Extract(d) \/ EditDocument(d)
    \/ \E d \in Docs : Refuse(d) \/ Begin(d)
    \/ \E c \in Contents : AddSource(c) \/ InsertSome(c) \/ ForgetByContent(c)
    \/ Commit
    \/ \E m \in Ids : ForgetById(m) \/ Expire(m)

Spec == Init /\ [][Next]_vars

-----------------------------------------------------------------------------
(* Safety.                                                                 *)

\* A fact has at most one memory that is neither superseded nor forgotten, in
\* whatever words and from however many extractions it came, also when two of
\* them read their context before either was reconciled.
OneMemoryPerFact ==
    \A m, n \in Rows : Current(m) /\ Current(n) /\ FactOf(m) = FactOf(n) => m = n

\* A search that asks for everything and the two profiles agree, although one
\* reads the embeddings and the others only the rows: a profile shows nothing
\* that cannot be found, and whatever can be found is in a profile unless it
\* has no words in it or the profile of its kind is full.  Neither dropping what
\* repeats a fact nor reading a limited number of rows costs a memory its place.
SearchAndProfileAgree ==
    \A static \in StaticProfiles : \A dynamic \in DynamicProfiles(static) :
        /\ static \cup dynamic \subseteq Searchable
        /\ \A m \in Searchable :
              \/ m \in static \cup dynamic
              \/ FactOf(m) = Wordless
              \/ Cardinality(IF memories[m].static THEN static ELSE dynamic) = ProfileLimit

\* A version that is no longer the latest was forgotten or has a successor:
\* no fact disappears without one of the two.
NothingVanishes ==
    \A m \in Rows :
        \/ memories[m].latest \/ memories[m].forgotten
        \/ \E r \in relations : r.parent = m /\ r.relation = "updates" /\ r.child > m

\* Lineages are trees of older memories: a version counts its ancestors, and
\* all versions name the first one as their root.
LineageIsSound ==
    \A m \in Rows :
        LET row == memories[m]
        IN  \/ row.parent = 0 /\ row.root = 0 /\ row.version = 1
            \/ /\ row.parent \in 1 .. m - 1
               /\ row.version = memories[row.parent].version + 1
               /\ row.root \in 1 .. m - 1
               /\ memories[row.root].parent = 0
               /\ \/ row.root = row.parent
                  \/ row.root = memories[row.parent].root

\* While an answer is reconciled, what it said is in the graph under the document
\* it came from, and neither forgotten nor superseded, unless the same answer
\* has also updated it.  (It may be an expired memory that still holds the fact.)
AnswersAreKept ==
    \A f \in Facts :
        LET m == learned[f]
        IN  m # 0 => /\ FactOf(m) = f
                     /\ tx \in memories[m].sources
                     /\ \/ Current(m)
                        \/ \E r \in relations :
                               r.parent = m /\ r.relation = "updates" /\ r.child > first

\* What some profile may show.
Profiled ==
    UNION StaticProfiles
    \cup UNION UNION {DynamicProfiles(static) : static \in StaticProfiles}

\* "Soft-forgets one active memory": what a client asked to forget is no longer
\* in a profile.
ForgettingRemovesFromProfile ==
    [][\A m \in Rows :
          /\ ~memories[m].forgotten
          /\ (memories[m].forgotten)'
          => \A k \in (Profiled)' : (memories[k].content)' # memories[m].content]_vars
=============================================================================
