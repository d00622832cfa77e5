------------------------------ MODULE MCJobQueue ------------------------------
(* Small instances of JobQueue, with the lifecycle it implements, for TLC. *)
EXTENDS JobQueueRefinement

AllModes == {"text", "vectors", "memories"}
MemoryModes == {"memories"}
=============================================================================
