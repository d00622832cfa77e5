---------------------------- MODULE StorageReaders ----------------------------
(***************************************************************************)
(* The read connections of the service and the permits that ration them    *)
(* (StorageReaders in server/src/runtime.rs).  A read that finds no        *)
(* connection goes through the writer's task (server/src/writer.rs), which *)
(* ends when one of its operations panics.                                 *)
(***************************************************************************)
EXTENDS Naturals, FiniteSets

CONSTANTS
    Clients,        \* tasks that read: searches, context reads
    Connections,    \* how many of SEARCH_CONNECTIONS could be opened
    MaxPanics,      \* bounds of a run: operations that panic,
    MaxAbandoned    \* abandoned commands in the writer's channel at once

ASSUME ReadersAssumption ==
    /\ IsFiniteSet(Clients)
    /\ {Connections, MaxPanics, MaxAbandoned} \subseteq Nat

VARIABLES
    connections,  \* the connections nobody uses
    permits,      \* what is left of the semaphore
    writer,       \* the writer's task; "occupied": by a read of a caller who left
    abandoned,    \* how many commands of callers who left are in its channel
    panics,       \* how many operations have panicked
    reading       \* how each client's read stands

pool == <<connections, permits, writer, abandoned, panics, reading>>

-----------------------------------------------------------------------------
\* "connection": the operation runs on a reader; "queued": its command waits
\* in the writer's channel, or for a place there; "writer": it runs there.
Reading == {"no", "waiting", "connection", "queued", "writer"}

PoolTypeOK ==
    /\ connections \in Nat
    /\ permits \in Nat
    /\ writer \in {"running", "occupied", "stopped"}
    /\ abandoned \in 0 .. MaxAbandoned
    /\ panics \in 0 .. MaxPanics
    /\ reading \in [Clients -> Reading]

Are(state) == {c \in Clients : reading[c] = state}

\* without a single reader (a database in memory) one read at a time may ask
\* the writer
Permits == IF Connections = 0 THEN 1 ELSE Connections

PoolInit ==
    /\ connections = Connections
    /\ permits = Permits
    /\ writer = "running"
    /\ abandoned = 0
    /\ panics = 0
    /\ reading = [c \in Clients |-> "no"]

\* execute is called.
RequestRead(c) ==
    /\ reading[c] = "no"
    /\ reading' = [reading EXCEPT ![c] = "waiting"]
    /\ UNCHANGED <<connections, permits, writer, abandoned, panics>>

\* The permit and the connection are taken without a wait in between.
Acquire(c) ==
    /\ reading[c] = "waiting"
    /\ permits > 0
    /\ permits' = permits - 1
    /\ IF connections > 0
       THEN /\ connections' = connections - 1
            /\ reading' = [reading EXCEPT ![c] = "connection"]
       ELSE /\ reading' = [reading EXCEPT ![c] = "queued"]
            /\ UNCHANGED connections
    /\ UNCHANGED <<writer, abandoned, panics>>

\* The writer's task takes the command: it runs one operation at a time.
WriterTakes(c) ==
    /\ reading[c] = "queued"
    /\ writer = "running"
    /\ Are("writer") = {}
    /\ reading' = [reading EXCEPT ![c] = "writer"]
    /\ UNCHANGED <<connections, permits, writer, abandoned, panics>>

Runs(c) == reading[c] \in {"connection", "writer"}

\* Mutation of GivenBack: a connection is pushed back only if others wait for
\* it.
GivenBackOnDemand(c) ==
    IF reading[c] = "connection" /\ Are("waiting") # {} THEN connections + 1 ELSE connections

\* The connection an operation ends with goes back to the pool.
GivenBack(c) ==
    IF reading[c] = "connection" THEN connections + 1 ELSE connections

\* The operation has returned, with a result or an error.
EndRead(c) ==
    /\ Runs(c)
    /\ connections' = GivenBack(c)
    /\ permits' = permits + 1
    /\ reading' = [reading EXCEPT ![c] = "no"]
    /\ UNCHANGED <<writer, abandoned, panics>>

\* Mutation of PermitsAfterPanic: the permit goes with the connection.
PermitsAfterPanicLost == permits

PermitsAfterPanic == permits + 1

\* A panic unwinds past the push: the connection is lost, the permit is not.
\* In the writer's task it ends the task.
Panic(c) ==
    /\ Runs(c)
    /\ panics < MaxPanics
    /\ panics' = panics + 1
    /\ permits' = PermitsAfterPanic
    /\ writer' = IF reading[c] = "writer" THEN "stopped" ELSE writer
    /\ reading' = [reading EXCEPT ![c] = "no"]
    /\ UNCHANGED <<connections, abandoned>>

\* The commands of a writer that has ended are dropped with their replies.
WriterGone(c) ==
    /\ reading[c] = "queued"
    /\ writer = "stopped"
    /\ permits' = permits + 1
    /\ reading' = [reading EXCEPT ![c] = "no"]
    /\ UNCHANGED <<connections, writer, abandoned, panics>>

\* The caller is gone (a closed HTTP connection, an aborted task).  Its command
\* stays in the writer's channel if there was a place for it, and an operation
\* the writer runs goes on for nobody; the permit, which the caller holds, is
\* back at once.  An operation on a connection has permit and connection with
\* it: it ends as any other.
Leave(c) ==
    /\ reading[c] \in {"waiting", "queued", "writer"}
    /\ abandoned' \in IF reading[c] = "queued" THEN {abandoned, abandoned + 1}
                                              ELSE {abandoned}
    /\ abandoned' <= MaxAbandoned
    /\ writer' = IF reading[c] = "writer" THEN "occupied" ELSE writer
    /\ permits' = IF reading[c] = "waiting" THEN permits ELSE permits + 1
    /\ reading' = [reading EXCEPT ![c] = "no"]
    /\ UNCHANGED <<connections, panics>>

PoolStep(c) ==
    \/ RequestRead(c)
    \/ Acquire(c)
    \/ WriterTakes(c)
    \/ EndRead(c)
    \/ Panic(c)
    \/ WriterGone(c)
    \/ Leave(c)

\* The writer's task comes to a command whose caller has left ...
TakeAbandoned ==
    /\ abandoned > 0
    /\ writer = "running"
    /\ Are("writer") = {}
    /\ abandoned' = abandoned - 1
    /\ writer' = "occupied"
    /\ UNCHANGED <<connections, permits, panics, reading>>

\* ... and runs it to its end, or into a panic.
EndAbandoned ==
    /\ writer = "occupied"
    /\ \/ writer' = "running" /\ UNCHANGED panics
       \/ writer' = "stopped" /\ panics < MaxPanics /\ panics' = panics + 1
    /\ UNCHANGED <<connections, permits, abandoned, reading>>

-----------------------------------------------------------------------------
\* Every permit is with a read that has started or in the semaphore, and every
\* connection is in the pool, in use, or lost to a panic.
Started == {c \in Clients : reading[c] \in {"connection", "queued", "writer"}}

PoolIsWhole ==
    /\ permits + Cardinality(Started) = Permits
    /\ connections + Cardinality(Are("connection")) <= Connections
    /\ Connections <= connections + Cardinality(Are("connection")) + panics
    /\ Cardinality(Are("writer")) <= IF writer = "running" THEN 1 ELSE 0

\* The permits are as many as the connections so that whoever has one finds a
\* reader: reads burden the writer only once a panic has cost a connection, or
\* where no reader could be opened.
ReadsSpareTheWriter ==
    (Are("queued") \cup Are("writer") # {} \/ abandoned > 0 \/ writer = "occupied") =>
        Connections = 0 \/ panics > 0
=============================================================================
