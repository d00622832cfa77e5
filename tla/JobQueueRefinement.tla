-------------------------- MODULE JobQueueRefinement --------------------------
(* JobQueue implements DocumentLifecycle: jobs, claims, retries and restarts *)
(* are invisible to a client.                                                *)
EXTENDS JobQueue

\* The phase a document's row and its document job stand for.
Phase(d) ==
    CASE documents[d].status = "deleted" -> "gone"
      [] documents[d].status = "failed"  -> "failed"
      [] documents[d].status = "done"    -> "ready"
      [] HasActiveDocumentJob(d, documents[d].revision) -> "preparing"
      [] OTHER -> "remembering"

View == [d \in DOMAIN documents |->
            [body |-> documents[d].content, phase |-> Phase(d),
             searchable |-> documents[d].chunks,
             remembered |-> documents[d].extracted]]

Lifecycle == INSTANCE DocumentLifecycle
                 WITH Bodies <- Contents, Nothing <- NoContent, view <- View

\* Every behaviour of the pipeline is one the lifecycle allows: a claim, a
\* stage, a retry, an abort and a restart stutter, a publication, a completed
\* extraction, a failure and a submission are the steps of the same name.
ImplementsLifecycle == Lifecycle!Spec

\* What the lifecycle promises holds of the pipeline's own tables.
SearchIsCurrent == Lifecycle!SearchIsCurrent
=============================================================================
