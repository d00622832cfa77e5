-------------------------- MODULE MCEmbeddingExecutor --------------------------
(* Small instances of EmbeddingExecutor for TLC: searches, indexing tasks and *)
(* memory tasks as callers.                                                   *)
EXTENDS EmbeddingExecutor

CONSTANTS search, search2, document, document2, memory

Priorities == [c \in Callers |-> CASE c \in {search, search2} -> "Query"
                                   [] c \in {document, document2} -> "Document"
                                   [] OTHER -> "Memory"]

\* Two microbatches: two short texts that merge with the like, and a long one
\* that merges with nothing.
MixedJobs == {<<1, 1, 5>>}

\* Jobs that leave no room for another request in their last batch.
LargeJobs == {<<5>>}

\* Jobs whose requests always merge, one that is rejected and an empty one.
SmallJobs == {<<1>>, <<9>>, <<>>}
=============================================================================
