------------------------------ MODULE SearchProofs ------------------------------
(* The pool of read connections, for any number of clients, connections and     *)
(* panics: first for the pool alone, then for a search that uses it.  Then the  *)
(* search itself: what an answer quotes, and the order, the limit and the budget*)
(* of an answer, for any tables, requests and rankings.                         *)
EXTENDS Search, FiniteSetTheorems, SequenceTheorems, TLAPS

PoolInv == PoolTypeOK /\ PoolIsWhole /\ ReadsSpareTheWriter

\* The sets that are counted are finite.
LEMMA Finite ==
    /\ \A state : IsFiniteSet(Are(state)) /\ Cardinality(Are(state)) \in Nat
    /\ IsFiniteSet(Started) /\ Cardinality(Started) \in Nat
    /\ \A state : Are(state) \subseteq Clients
<1>1. ASSUME NEW S \in SUBSET Clients
      PROVE  IsFiniteSet(S) /\ Cardinality(S) \in Nat
    <2>1. IsFiniteSet(S)
        BY FS_Subset, ReadersAssumption
    <2> QED BY <2>1, FS_CardinalityType
<1>2. Started \in SUBSET Clients /\ \A state : Are(state) \in SUBSET Clients
    BY DEF Started, Are
<1> QED BY <1>1, <1>2

\* What one client's next state does to the sets that are counted.
LEMMA Moved ==
    ASSUME PoolTypeOK, NEW c \in Clients, NEW next \in Reading,
           reading' = [reading EXCEPT ![c] = next]
    PROVE  /\ \A state : Are(state)' = IF state = next THEN Are(state) \cup {c}
                                                       ELSE Are(state) \ {c}
           /\ Started' = IF next \in {"connection", "queued", "writer"}
                         THEN Started \cup {c} ELSE Started \ {c}
BY DEF PoolTypeOK, Are, Started

\* ... and to their sizes.
LEMMA Counted ==
    ASSUME PoolTypeOK, NEW c \in Clients, NEW next \in Reading,
           reading' = [reading EXCEPT ![c] = next]
    PROVE  /\ \A state : Cardinality(Are(state))' =
                  Cardinality(Are(state))
                  + (IF state = next /\ reading[c] # state THEN 1 ELSE 0)
                  - (IF state # next /\ reading[c] = state THEN 1 ELSE 0)
           /\ Cardinality(Started)' =
                  Cardinality(Started)
                  + (IF next \in {"connection", "queued", "writer"} /\ c \notin Started
                     THEN 1 ELSE 0)
                  - (IF next \notin {"connection", "queued", "writer"} /\ c \in Started
                     THEN 1 ELSE 0)
<1>1. ASSUME NEW S, IsFiniteSet(S), Cardinality(S) \in Nat
      PROVE  /\ Cardinality(S \cup {c}) = Cardinality(S) + IF c \in S THEN 0 ELSE 1
             /\ Cardinality(S \ {c}) = Cardinality(S) - IF c \in S THEN 1 ELSE 0
    <2>1. Cardinality(S \cup {c}) = IF c \in S THEN Cardinality(S) ELSE Cardinality(S) + 1
        BY <1>1, FS_AddElement
    <2>2. Cardinality(S \ {c}) = IF c \in S THEN Cardinality(S) - 1 ELSE Cardinality(S)
        BY <1>1, FS_RemoveElement
    <2> QED BY <1>1, <2>1, <2>2
<1>2. \A state : c \in Are(state) <=> reading[c] = state
    BY DEF Are
<1>3. ASSUME NEW state
      PROVE  Cardinality(Are(state))' =
                  Cardinality(Are(state))
                  + (IF state = next /\ reading[c] # state THEN 1 ELSE 0)
                  - (IF state # next /\ reading[c] = state THEN 1 ELSE 0)
    <2>1. /\ Cardinality(Are(state) \cup {c}) =
                 Cardinality(Are(state)) + IF c \in Are(state) THEN 0 ELSE 1
          /\ Cardinality(Are(state) \ {c}) =
                 Cardinality(Are(state)) - IF c \in Are(state) THEN 1 ELSE 0
        BY <1>1, Finite
    <2>2. Are(state)' = IF state = next THEN Are(state) \cup {c} ELSE Are(state) \ {c}
        BY Moved
    <2>3. Cardinality(Are(state)) \in Nat
        BY Finite
    <2>4. Cardinality(Are(state))' = Cardinality(Are(state)')
        OBVIOUS
    <2>5. CASE state = next
        BY <1>2, <2>1, <2>2, <2>3, <2>4, <2>5
    <2>6. CASE state # next
        BY <1>2, <2>1, <2>2, <2>3, <2>4, <2>6
    <2> QED BY <2>5, <2>6
<1>4. /\ Cardinality(Started \cup {c}) = Cardinality(Started) + IF c \in Started THEN 0 ELSE 1
      /\ Cardinality(Started \ {c}) = Cardinality(Started) - IF c \in Started THEN 1 ELSE 0
    BY <1>1, Finite
<1>5. Started' = IF next \in {"connection", "queued", "writer"}
                 THEN Started \cup {c} ELSE Started \ {c}
    BY Moved
<1>6. Cardinality(Started) \in Nat
    BY Finite
<1>7. Cardinality(Started)' = Cardinality(Started')
    OBVIOUS
<1>8. Cardinality(Started)' =
          Cardinality(Started)
          + (IF next \in {"connection", "queued", "writer"} /\ c \notin Started THEN 1 ELSE 0)
          - (IF next \notin {"connection", "queued", "writer"} /\ c \in Started THEN 1 ELSE 0)
    <2>1. CASE next \in {"connection", "queued", "writer"}
        BY <2>1, <1>4, <1>5, <1>6, <1>7
    <2>2. CASE next \notin {"connection", "queued", "writer"}
        BY <2>2, <1>4, <1>5, <1>6, <1>7
    <2> QED BY <2>1, <2>2
<1> QED BY <1>3, <1>8

\* Reads on a connection have a permit.
LEMMA ConnectionsHavePermits == Cardinality(Are("connection")) <= Cardinality(Started)
<1>1. Are("connection") \in SUBSET Started
    BY DEF Are, Started
<1> QED BY <1>1, Finite, FS_Subset

-----------------------------------------------------------------------------
LEMMA PoolInitInv == PoolInit => PoolInv
<1> SUFFICES ASSUME PoolInit PROVE PoolInv
    OBVIOUS
<1>1. PoolTypeOK
    BY ReadersAssumption DEF PoolInit, PoolTypeOK, Permits, Reading
<1>2. Started = {} /\ \A state \in {"connection", "queued", "writer"} : Are(state) = {}
    BY DEF PoolInit, Started, Are
<1>3. Cardinality(Started) = 0 /\ Cardinality(Are("connection")) = 0
      /\ Cardinality(Are("writer")) = 0
    BY <1>2, FS_EmptySet
<1>4. PoolIsWhole
    BY <1>3, ReadersAssumption DEF PoolInit, PoolIsWhole, Permits
<1>5. ReadsSpareTheWriter
    BY <1>2 DEF ReadsSpareTheWriter, PoolInit
<1> QED BY <1>1, <1>4, <1>5 DEF PoolInv

\* One step of one client.
LEMMA PoolStepInv == ASSUME PoolInv, NEW c \in Clients, PoolStep(c) PROVE PoolInv'
<1> USE ReadersAssumption
<1> DEFINE C == Cardinality(Are("connection"))
           W == Cardinality(Are("writer"))
           S == Cardinality(Started)
           Serving == {"connection", "queued", "writer"}
<1>0. /\ PoolTypeOK /\ PoolIsWhole /\ ReadsSpareTheWriter
      /\ C \in Nat /\ W \in Nat /\ S \in Nat /\ C <= S
      /\ Permits \in Nat /\ (Connections # 0 => Permits = Connections)
    BY Finite, ConnectionsHavePermits DEF PoolInv, Permits
<1>1. ASSUME NEW next \in Reading, reading' = [reading EXCEPT ![c] = next]
      PROVE  /\ (next = "connection" <=> reading[c] = "connection") => C' = C
             /\ next = "connection" /\ reading[c] # "connection" => C' = C + 1
             /\ next # "connection" /\ reading[c] = "connection" => C' = C - 1
             /\ (next = "writer" <=> reading[c] = "writer") => W' = W
             /\ next = "writer" /\ reading[c] # "writer" => W' = W + 1
             /\ next # "writer" /\ reading[c] = "writer" => W' = W - 1
             /\ next \in Serving /\ reading[c] \in Serving => S' = S
             /\ next \in Serving /\ reading[c] \notin Serving => S' = S + 1
             /\ next \notin Serving /\ reading[c] \in Serving => S' = S - 1
             /\ next \notin Serving /\ reading[c] \notin Serving => S' = S
             /\ next \notin {"queued", "writer"} =>
                   (Are("queued") \cup Are("writer"))' \subseteq Are("queued") \cup Are("writer")
             /\ reading' \in [Clients -> Reading]
    <2>1. \A state : Are(state)' = IF state = next THEN Are(state) \cup {c}
                                                   ELSE Are(state) \ {c}
        BY <1>0, <1>1, Moved
    <2>2. reading' \in [Clients -> Reading]
        BY <1>0, <1>1 DEF PoolTypeOK
    <2>3. next \notin {"queued", "writer"} =>
              (Are("queued") \cup Are("writer"))' \subseteq Are("queued") \cup Are("writer")
        BY <2>1
    <2>4. /\ C' = C + (IF "connection" = next /\ reading[c] # "connection" THEN 1 ELSE 0)
                    - (IF "connection" # next /\ reading[c] = "connection" THEN 1 ELSE 0)
          /\ W' = W + (IF "writer" = next /\ reading[c] # "writer" THEN 1 ELSE 0)
                    - (IF "writer" # next /\ reading[c] = "writer" THEN 1 ELSE 0)
        BY <1>0, <1>1, Counted
    <2>5. S' = S + (IF next \in Serving /\ c \notin Started THEN 1 ELSE 0)
                 - (IF next \notin Serving /\ c \in Started THEN 1 ELSE 0)
        BY <1>0, <1>1, Counted
    <2>6. c \in Started <=> reading[c] \in Serving
        BY DEF Started
    <2> HIDE DEF C, W, S, Serving
    <2>7. /\ (next = "connection" <=> reading[c] = "connection") => C' = C
          /\ next = "connection" /\ reading[c] # "connection" => C' = C + 1
          /\ next # "connection" /\ reading[c] = "connection" => C' = C - 1
        BY <1>0, <2>4
    <2>8. /\ (next = "writer" <=> reading[c] = "writer") => W' = W
          /\ next = "writer" /\ reading[c] # "writer" => W' = W + 1
          /\ next # "writer" /\ reading[c] = "writer" => W' = W - 1
        BY <1>0, <2>4
    <2>9. /\ next \in Serving /\ reading[c] \in Serving => S' = S
          /\ next \in Serving /\ reading[c] \notin Serving => S' = S + 1
          /\ next \notin Serving /\ reading[c] \in Serving => S' = S - 1
          /\ next \notin Serving /\ reading[c] \notin Serving => S' = S
        BY <1>0, <2>5, <2>6
    <2> QED BY <2>2, <2>3, <2>7, <2>8, <2>9
<1>2. c \in Started <=> reading[c] \in {"connection", "queued", "writer"}
    BY DEF Started
<1>3. c \in Are("queued") <=> reading[c] = "queued"
    BY DEF Are
<1>4. W = 0 <=> Are("writer") = {}
    BY Finite, FS_EmptySet
<1> HIDE DEF C, W, S
<1>5. PoolIsWhole <=> /\ permits + S = Permits
                      /\ connections + C <= Connections
                      /\ Connections <= connections + C + panics
                      /\ W <= IF writer = "running" THEN 1 ELSE 0
    BY DEF PoolIsWhole, C, W, S
<1>6. PoolIsWhole' <=> /\ permits' + S' = Permits
                       /\ connections' + C' <= Connections
                       /\ Connections <= connections' + C' + panics'
                       /\ W' <= IF writer' = "running" THEN 1 ELSE 0
    BY DEF PoolIsWhole, C, W, S, Permits
<1>7. CASE RequestRead(c)
    <2>1. "waiting" \in Reading /\ reading' = [reading EXCEPT ![c] = "waiting"]
        BY <1>7 DEF RequestRead, Reading
    <2>2. C' = C /\ W' = W /\ S' = S
        BY <1>0, <1>1, <1>2, <1>7, <2>1 DEF RequestRead
    <2> QED BY <1>0, <1>1, <1>5, <1>6, <1>7, <2>1, <2>2
            DEF RequestRead, PoolInv, PoolTypeOK, ReadsSpareTheWriter
<1>8. CASE Acquire(c)
    <2>1. /\ reading[c] = "waiting" /\ permits > 0
          /\ permits' = permits - 1 /\ writer' = writer /\ panics' = panics
          /\ abandoned' = abandoned
          /\ permits \in Nat /\ connections \in Nat /\ panics \in Nat
        BY <1>0, <1>8 DEF Acquire, PoolTypeOK
    <2>2. CASE connections > 0
        <3>1. /\ "connection" \in Reading
              /\ reading' = [reading EXCEPT ![c] = "connection"]
              /\ connections' = connections - 1
            BY <1>8, <2>2 DEF Acquire, Reading
        <3>2. C' = C + 1 /\ W' = W /\ S' = S + 1
            BY <1>0, <1>1, <1>2, <2>1, <3>1
        <3>3. PoolIsWhole'
            BY <1>0, <1>5, <1>6, <2>1, <3>1, <3>2
        <3>4. ReadsSpareTheWriter'
            BY <1>0, <1>1, <2>1, <3>1 DEF ReadsSpareTheWriter
        <3>5. PoolTypeOK'
            BY <1>0, <1>1, <2>1, <2>2, <3>1 DEF PoolTypeOK
        <3> QED BY <3>3, <3>4, <3>5 DEF PoolInv
    <2>3. CASE ~(connections > 0)
        <3>1. /\ "queued" \in Reading
              /\ reading' = [reading EXCEPT ![c] = "queued"]
              /\ connections' = connections
            BY <1>8, <2>3 DEF Acquire, Reading
        <3>2. C' = C /\ W' = W /\ S' = S + 1
            BY <1>0, <1>1, <1>2, <2>1, <3>1
        <3>3. PoolIsWhole'
            BY <1>0, <1>5, <1>6, <2>1, <3>1, <3>2
        <3>4. Connections = 0 \/ panics > 0
            BY <1>0, <1>5, <2>1, <2>3
        <3>5. ReadsSpareTheWriter'
            BY <2>1, <3>4 DEF ReadsSpareTheWriter
        <3>6. PoolTypeOK'
            BY <1>0, <1>1, <2>1, <2>3, <3>1 DEF PoolTypeOK
        <3> QED BY <3>3, <3>5, <3>6 DEF PoolInv
    <2> QED BY <2>2, <2>3
<1>9. CASE WriterTakes(c)
    <2>1. /\ "writer" \in Reading /\ reading[c] = "queued"
          /\ reading' = [reading EXCEPT ![c] = "writer"]
          /\ UNCHANGED <<connections, permits, writer, abandoned, panics>>
          /\ writer = "running" /\ W = 0
        BY <1>4, <1>9 DEF WriterTakes, Reading
    <2>2. C' = C /\ W' = W + 1 /\ S' = S
        BY <1>0, <1>1, <1>2, <2>1
    <2>3. Connections = 0 \/ panics > 0
        BY <1>0, <1>3, <2>1 DEF ReadsSpareTheWriter
    <2> QED BY <1>0, <1>1, <1>5, <1>6, <2>1, <2>2, <2>3
            DEF PoolInv, PoolTypeOK, ReadsSpareTheWriter
<1>10. ASSUME reading[c] \in {"connection", "queued", "writer"},
              reading' = [reading EXCEPT ![c] = "no"], permits' = permits + 1,
              panics' \in 0 .. MaxPanics, panics' >= panics,
              writer' \in {"running", "occupied", "stopped"},
              writer' # writer => reading[c] = "writer",
              abandoned' \in 0 .. MaxAbandoned,
              writer' = "occupied" \/ abandoned' > 0 =>
                  \/ writer = "occupied" \/ abandoned > 0 \/ Connections = 0 \/ panics > 0
                  \/ reading[c] \in {"queued", "writer"},
              \/ connections' = connections + (IF reading[c] = "connection" THEN 1 ELSE 0)
              \/ connections' = connections /\ panics' = panics + 1
       PROVE  PoolInv'
    <2>1. "no" \in Reading
        BY DEF Reading
    <2>2. /\ C' = C - (IF reading[c] = "connection" THEN 1 ELSE 0)
          /\ W' = W - (IF reading[c] = "writer" THEN 1 ELSE 0)
          /\ S' = S - 1
        <3>1. /\ reading[c] # "connection" => C' = C
              /\ reading[c] = "connection" => C' = C - 1
              /\ reading[c] # "writer" => W' = W
              /\ reading[c] = "writer" => W' = W - 1
              /\ S' = S - 1
            BY <1>1, <1>10, <2>1
        <3> QED BY <1>0, <3>1
    <2>3. permits \in Nat /\ connections \in Nat /\ panics \in Nat
        BY <1>0 DEF PoolTypeOK
    <2>4. PoolIsWhole'
        <3>1. W' <= IF writer' = "running" THEN 1 ELSE 0
            <4>1. CASE reading[c] = "writer"
                BY <1>0, <1>5, <2>2, <4>1
            <4>2. CASE reading[c] # "writer"
                BY <1>0, <1>5, <1>10, <2>2, <4>2
            <4> QED BY <4>1, <4>2
        <3> QED BY <1>0, <1>5, <1>6, <1>10, <2>2, <2>3, <3>1
    <2>5. ReadsSpareTheWriter'
        <3>1. CASE panics' = panics
            <4>1. reading[c] \in {"queued", "writer"} => c \in Are("queued") \cup Are("writer")
                BY DEF Are
            <4>2. (Are("queued") \cup Are("writer"))' \subseteq Are("queued") \cup Are("writer")
                BY <1>1, <1>10, <2>1
            <4> QED BY <1>0, <1>10, <3>1, <4>1, <4>2 DEF ReadsSpareTheWriter
        <3>2. CASE panics' # panics
            <4>1. panics' > 0
                BY <1>10, <2>3, <3>2
            <4> QED BY <4>1 DEF ReadsSpareTheWriter
        <3> QED BY <3>1, <3>2
    <2>6. PoolTypeOK'
        BY <1>0, <1>1, <1>10, <2>1, <2>3 DEF PoolTypeOK
    <2> QED BY <2>4, <2>5, <2>6 DEF PoolInv
<1>11. CASE EndRead(c)
    BY <1>0, <1>10, <1>11 DEF EndRead, Runs, GivenBack, PoolTypeOK
<1>12. CASE Panic(c)
    BY <1>0, <1>10, <1>12 DEF Panic, Runs, PermitsAfterPanic, PoolTypeOK
<1>13. CASE WriterGone(c)
    BY <1>0, <1>10, <1>13 DEF WriterGone, PoolTypeOK
<1>14. CASE Leave(c)
    <2>1. CASE reading[c] \in {"queued", "writer"}
        <3>1. abandoned' \in 0 .. MaxAbandoned
            BY <1>0, <1>14 DEF Leave, PoolTypeOK
        <3> QED BY <1>0, <1>10, <1>14, <2>1, <3>1 DEF Leave, PoolTypeOK
    <2>2. CASE reading[c] = "waiting"
        <3>1. /\ "no" \in Reading /\ reading' = [reading EXCEPT ![c] = "no"]
              /\ UNCHANGED <<connections, permits, writer, abandoned, panics>>
            BY <1>14, <2>2 DEF Leave, Reading
        <3>2. C' = C /\ W' = W /\ S' = S
            BY <1>0, <1>1, <1>2, <2>2, <3>1
        <3> QED BY <1>0, <1>1, <1>5, <1>6, <3>1, <3>2
                DEF PoolInv, PoolTypeOK, ReadsSpareTheWriter
    <2> QED BY <1>14, <2>1, <2>2 DEF Leave
<1> QED BY <1>7, <1>8, <1>9, <1>11, <1>12, <1>13, <1>14 DEF PoolStep

\* A step of the writer's task with a command whose caller has left.
LEMMA AbandonedInv == PoolInv /\ (TakeAbandoned \/ EndAbandoned) => PoolInv'
<1> SUFFICES ASSUME PoolInv, TakeAbandoned \/ EndAbandoned PROVE PoolInv'
    OBVIOUS
<1> USE ReadersAssumption
<1>1. /\ reading' = reading /\ connections' = connections /\ permits' = permits
      /\ Are("writer")' = Are("writer") /\ Are("queued")' = Are("queued")
      /\ Are("connection")' = Are("connection") /\ Started' = Started
    BY DEF TakeAbandoned, EndAbandoned, Are, Started
<1>2. PICK C, W, S \in Nat : /\ C = Cardinality(Are("connection"))
                            /\ W = Cardinality(Are("writer"))
                            /\ S = Cardinality(Started)
    BY Finite
<1>3. /\ permits + S = Permits /\ connections + C <= Connections
      /\ Connections <= connections + C + panics
      /\ W <= (IF writer = "running" THEN 1 ELSE 0)
      /\ panics \in Nat /\ connections \in Nat /\ abandoned \in Nat
    BY <1>2 DEF PoolInv, PoolIsWhole, PoolTypeOK
<1>4. CASE TakeAbandoned
    <2>1. W = 0
        BY <1>2, <1>4, FS_EmptySet DEF TakeAbandoned
    <2>2. PoolIsWhole'
        BY <1>1, <1>2, <1>3, <1>4, <2>1 DEF TakeAbandoned, PoolIsWhole, Permits
    <2> QED BY <1>1, <1>3, <1>4, <2>2
            DEF TakeAbandoned, PoolInv, PoolTypeOK, ReadsSpareTheWriter
<1>5. CASE EndAbandoned
    <2>1. W = 0 /\ panics' \in 0 .. MaxPanics /\ panics' >= panics
        BY <1>3, <1>5 DEF EndAbandoned, PoolInv, PoolTypeOK
    <2>2. PoolIsWhole'
        BY <1>1, <1>2, <1>3, <1>5, <2>1 DEF EndAbandoned, PoolIsWhole, Permits
    <2>3. Connections = 0 \/ panics > 0
        BY <1>5 DEF EndAbandoned, PoolInv, ReadsSpareTheWriter
    <2>4. Connections = 0 \/ panics' > 0
        BY <1>3, <2>1, <2>3
    <2> QED BY <1>1, <1>5, <2>1, <2>2, <2>4
            DEF EndAbandoned, PoolInv, PoolTypeOK, ReadsSpareTheWriter
<1> QED BY <1>4, <1>5

LEMMA PoolStutterInv == PoolInv /\ UNCHANGED pool => PoolInv'
BY DEF PoolInv, PoolTypeOK, PoolIsWhole, ReadsSpareTheWriter, Started, Are, pool, Permits

-----------------------------------------------------------------------------
\* A search uses the pool as any client does.
LEMMA SearchUsesThePool ==
    ASSUME [Next]_vars
    PROVE  (\E c \in Clients : PoolStep(c)) \/ TakeAbandoned \/ EndAbandoned \/ UNCHANGED pool
<1> USE SearchAssumption
<1>1. CASE SearchStep
    BY <1>1 DEF SearchStep, Begin, Statement, Rank, HydrateMemories, HydrateChunks,
                EndRanking, AskForHydration, Answer, Fail, PoolStep, pool
<1>2. CASE Write
    BY <1>2 DEF Write, Submit, Finish, Publish, Hide, pool
<1>3. CASE \E c \in Clients \ {Searcher} : OtherRead(c)
    BY <1>3 DEF OtherRead
<1>4. CASE UNCHANGED vars
    BY <1>4 DEF vars
<1>5. CASE LeftBehind
    BY <1>5 DEF LeftBehind
<1> QED BY <1>1, <1>2, <1>3, <1>4, <1>5 DEF Next

(* However many tasks read, and whatever becomes of them, every read permit
   is with one that has started or in the semaphore, every connection is in the
   pool, in use or lost to a panic, and the writer's task runs one read at a
   time (StorageReaders in crates/server/src/runtime.rs). *)
THEOREM PoolIsAlwaysWhole == Spec => [](PoolTypeOK /\ PoolIsWhole)
<1>1. Init => PoolInv
    BY PoolInitInv DEF Init
<1>2. PoolInv /\ [Next]_vars => PoolInv'
    BY SearchUsesThePool, PoolStepInv, AbandonedInv, PoolStutterInv
<1>3. PoolInv => PoolTypeOK /\ PoolIsWhole
    BY DEF PoolInv
<1> QED BY <1>1, <1>2, <1>3, PTL DEF Spec

\* However many clients read and however many searches there are, reads burden
\* the writer only where no reader could be opened or one was lost to a panic.
THEOREM WriterIsSpared == Spec => []ReadsSpareTheWriter
<1>1. Init => PoolInv
    BY PoolInitInv DEF Init
<1>2. PoolInv /\ [Next]_vars => PoolInv'
    BY SearchUsesThePool, PoolStepInv, AbandonedInv, PoolStutterInv
<1>3. PoolInv => ReadsSpareTheWriter
    BY DEF PoolInv
<1> QED BY <1>1, <1>2, <1>3, PTL DEF Spec

-----------------------------------------------------------------------------
(* The folds of a search, each with what its step depends on.              *)

\* SelectDiverse
SelectOne(r, selection, candidate) ==
    IF \/ Len(selection) = r.limit
       \/ (r.aggregate /\ Redundant(selection, candidate))
    THEN selection ELSE Append(selection, candidate)

Selecting == INSTANCE FoldLemmas WITH step <- SelectOne

\* Results
HitsIn(rows, candidate) == {hit \in rows : Key(hit) = Key(candidate)}

HydrateOne(rows, results, candidate) ==
    IF HitsIn(rows, candidate) = {} THEN results
    ELSE Append(results, ThatOf(HitsIn(rows, candidate)))

Hydrating == INSTANCE FoldLemmas WITH step <- HydrateOne

\* FitSearchContext
FitOne(none, fit, hit) ==
    LET bytes == BytesIn(hit, fit.remaining) IN
    IF Admissible(bytes, fit.remaining)
    THEN [remaining |-> fit.remaining - bytes, kept |-> Append(fit.kept, hit)]
    ELSE fit

Fitting == INSTANCE FoldLemmas WITH step <- FitOne

\* BytesOf
SpendOne(none, remaining, hit) == remaining - BytesIn(hit, remaining)

Spending == INSTANCE FoldLemmas WITH step <- SpendOne

\* InitialChunks
NumberOne(none, n, d) == n + Len(Initially[d])

Numbering == INSTANCE FoldLemmas WITH step <- NumberOne

-----------------------------------------------------------------------------
(* Sorting.                                                                *)

StrictOrder(S, R) ==
    /\ \A a \in S : <<a, a>> \notin R
    /\ \A a, b, c \in S : <<a, b>> \in R /\ <<b, c>> \in R => <<a, c>> \in R
    /\ \A a, b \in S : a = b \/ <<a, b>> \in R \/ <<b, a>> \in R

Before(S, R, c) == {b \in S : <<b, c>> \in R}

\* In a total order each place is taken by exactly one element.
LEMMA Places ==
    ASSUME NEW S, IsFiniteSet(S), NEW R, StrictOrder(S, R)
    PROVE  /\ Cardinality(S) \in Nat
           /\ \A c \in S : Cardinality(Before(S, R, c)) + 1 \in 1 .. Cardinality(S)
           /\ \A b, c \in S : <<b, c>> \in R
                  => Cardinality(Before(S, R, b)) < Cardinality(Before(S, R, c))
           /\ \A k \in 1 .. Cardinality(S) :
                  \E c \in S : Cardinality(Before(S, R, c)) = k - 1
<1> DEFINE n == Cardinality(S)
<1>0. n \in Nat
    BY FS_CardinalityType
<1>1. ASSUME NEW c \in S
      PROVE  /\ IsFiniteSet(Before(S, R, c))
             /\ Cardinality(Before(S, R, c)) \in Nat
             /\ Cardinality(Before(S, R, c)) < n
    <2>1. Before(S, R, c) \in SUBSET S /\ c \notin Before(S, R, c)
        BY DEF Before, StrictOrder
    <2>2. /\ IsFiniteSet(Before(S, R, c)) /\ Cardinality(Before(S, R, c)) <= n
          /\ Cardinality(Before(S, R, c)) # n
        BY <2>1, FS_Subset
    <2>3. Cardinality(Before(S, R, c)) \in Nat
        BY <2>2, FS_CardinalityType
    <2> QED BY <1>0, <2>2, <2>3
<1>2. ASSUME NEW b \in S, NEW c \in S, <<b, c>> \in R
      PROVE  Cardinality(Before(S, R, b)) < Cardinality(Before(S, R, c))
    <2>1. /\ Before(S, R, b) \in SUBSET Before(S, R, c)
          /\ b \in Before(S, R, c) /\ b \notin Before(S, R, b)
        BY <1>2 DEF Before, StrictOrder
    <2> QED BY <1>1, <2>1, FS_Subset
<1> DEFINE f == [c \in S |-> Cardinality(Before(S, R, c)) + 1]
<1>3. f \in [S -> 1 .. n]
    BY <1>0, <1>1
<1>4. f \in Injection(S, 1 .. n)
    <2>1. ASSUME NEW b \in S, NEW c \in S, b # c PROVE f[b] # f[c]
        <3>1. CASE <<b, c>> \in R
            <4>1. Cardinality(Before(S, R, b)) < Cardinality(Before(S, R, c))
                BY <1>2, <3>1
            <4> QED BY <1>1, <4>1
        <3>2. CASE <<c, b>> \in R
            <4>1. Cardinality(Before(S, R, c)) < Cardinality(Before(S, R, b))
                BY <1>2, <3>2
            <4> QED BY <1>1, <4>1
        <3> QED BY <2>1, <3>1, <3>2 DEF StrictOrder
    <2> HIDE DEF f
    <2> QED BY <1>3, <2>1 DEF Injection, IsInjective
<1>5. IsFiniteSet(1 .. n) /\ Cardinality(1 .. n) = n
    <2>1. IF 1 > n THEN Cardinality(1 .. n) = 0 ELSE Cardinality(1 .. n) = n - 1 + 1
        BY <1>0, FS_Interval
    <2>2. IsFiniteSet(1 .. n)
        BY <1>0, FS_Interval
    <2> QED BY <1>0, <2>1, <2>2
<1>6. f \in Surjection(S, 1 .. n)
    <2> HIDE DEF f
    <2> QED BY <1>4, <1>5, FS_Injection
<1>7. ASSUME NEW k \in 1 .. n
      PROVE  \E c \in S : Cardinality(Before(S, R, c)) = k - 1
    <2>1. PICK c \in S : f[c] = k
        <3> HIDE DEF f
        <3> QED BY <1>6 DEF Surjection
    <2> QED BY <1>1, <2>1
<1> QED BY <1>0, <1>1, <1>2, <1>7

-----------------------------------------------------------------------------
(* Fusion and the order of the candidates.                                 *)

MemoryCandidates == [kind: {"memory"}, id: Memories]
ChunkCandidates == [kind: {"chunk"}, id: Nat \ {0}, row: Nat \ {0},
                    document: Documents, text: Texts]
AllCandidates == MemoryCandidates \cup ChunkCandidates

Lists == [Rankings -> Seq(AllCandidates)]

\* What Fused goes through.
AllOf(lists) == lists["semantic_memories"] \o lists["lexical_memories"]
                    \o lists["semantic_chunks"] \o lists["lexical_chunks"]

LEMMA AllListed ==
    ASSUME NEW lists \in Lists
    PROVE  /\ AllOf(lists) \in Seq(AllCandidates)
           /\ \A i \in DOMAIN AllOf(lists) : \E ranking \in Rankings :
                  \E k \in DOMAIN lists[ranking] : AllOf(lists)[i] = lists[ranking][k]
<1>1. /\ lists["semantic_memories"] \in Seq(AllCandidates)
      /\ lists["lexical_memories"] \in Seq(AllCandidates)
      /\ lists["semantic_chunks"] \in Seq(AllCandidates)
      /\ lists["lexical_chunks"] \in Seq(AllCandidates)
    BY DEF Lists, Rankings, Statements
<1>2. ASSUME NEW a \in Seq(AllCandidates), NEW b \in Seq(AllCandidates)
      PROVE  /\ a \o b \in Seq(AllCandidates)
             /\ \A i \in DOMAIN (a \o b) :
                    \/ \E k \in DOMAIN a : (a \o b)[i] = a[k]
                    \/ \E k \in DOMAIN b : (a \o b)[i] = b[k]
    <2>1. /\ a \o b \in Seq(AllCandidates)
          /\ Len(a \o b) = Len(a) + Len(b)
          /\ \A i \in 1 .. Len(a) + Len(b) :
                (a \o b)[i] = IF i <= Len(a) THEN a[i] ELSE b[i - Len(a)]
        BY ConcatProperties
    <2>2. /\ DOMAIN (a \o b) = 1 .. Len(a) + Len(b)
          /\ DOMAIN a = 1 .. Len(a) /\ DOMAIN b = 1 .. Len(b)
          /\ Len(a) \in Nat /\ Len(b) \in Nat
        BY <2>1, LenProperties
    <2>3. ASSUME NEW i \in 1 .. Len(a) + Len(b)
          PROVE  \/ \E k \in DOMAIN a : (a \o b)[i] = a[k]
                 \/ \E k \in DOMAIN b : (a \o b)[i] = b[k]
        <3>1. CASE i <= Len(a)
            <4>1. i \in DOMAIN a
                BY <2>2, <3>1
            <4> QED BY <2>1, <3>1, <4>1
        <3>2. CASE ~(i <= Len(a))
            <4>1. i - Len(a) \in DOMAIN b
                BY <2>2, <3>2
            <4> QED BY <2>1, <3>2, <4>1
        <3> QED BY <3>1, <3>2
    <2> QED BY <2>1, <2>2, <2>3
<1>3. PICK a, b, c, d \in Seq(AllCandidates) :
            /\ a = lists["semantic_memories"] /\ b = lists["lexical_memories"]
            /\ c = lists["semantic_chunks"] /\ d = lists["lexical_chunks"]
    BY <1>1
<1>4. PICK ab \in Seq(AllCandidates) : ab = a \o b
    BY <1>2
<1>5. PICK abc \in Seq(AllCandidates) : abc = ab \o c
    BY <1>2
<1>6. AllOf(lists) = abc \o d
    BY <1>3, <1>4, <1>5 DEF AllOf
<1>7. AllOf(lists) \in Seq(AllCandidates)
    BY <1>2, <1>6
<1>8. ASSUME NEW i \in DOMAIN AllOf(lists)
      PROVE  \E ranking \in Rankings :
                 \E k \in DOMAIN lists[ranking] : AllOf(lists)[i] = lists[ranking][k]
    <2>0. {"semantic_memories", "lexical_memories", "semantic_chunks", "lexical_chunks"}
              \subseteq Rankings
        BY DEF Rankings, Statements
    <2>1. \/ \E k \in DOMAIN abc : AllOf(lists)[i] = abc[k]
          \/ \E k \in DOMAIN d : AllOf(lists)[i] = d[k]
        <3>1. \A x \in DOMAIN (abc \o d) :
                 \/ \E k \in DOMAIN abc : (abc \o d)[x] = abc[k]
                 \/ \E k \in DOMAIN d : (abc \o d)[x] = d[k]
            BY <1>2
        <3> QED BY <1>6, <3>1
    <2>2. \/ \E k \in DOMAIN ab : AllOf(lists)[i] = ab[k]
          \/ \E k \in DOMAIN c : AllOf(lists)[i] = c[k]
          \/ \E k \in DOMAIN d : AllOf(lists)[i] = d[k]
        BY <1>2, <1>5, <2>1
    <2>3. \/ \E k \in DOMAIN a : AllOf(lists)[i] = a[k]
          \/ \E k \in DOMAIN b : AllOf(lists)[i] = b[k]
          \/ \E k \in DOMAIN c : AllOf(lists)[i] = c[k]
          \/ \E k \in DOMAIN d : AllOf(lists)[i] = d[k]
        BY <1>2, <1>4, <2>2
    <2> QED BY <1>3, <2>0, <2>3
<1> QED BY <1>7, <1>8

\* A key stands for one fused candidate.
LEMMA FusedOnce ==
    ASSUME NEW lists \in Lists
    PROVE  /\ IsFiniteSet(Fused(lists))
           /\ Fused(lists) \subseteq AllCandidates
           /\ \A a, b \in Fused(lists) : Key(a) = Key(b) => a = b
           /\ \A a \in Fused(lists) : \E ranking \in Rankings :
                  \E k \in DOMAIN lists[ranking] : a = lists[ranking][k]
<1>1. PICK all \in Seq(AllCandidates) : all = AllOf(lists)
    BY AllListed
<1>2. Len(all) \in Nat /\ DOMAIN all = 1 .. Len(all)
    BY LenProperties
<1> DEFINE firsts == {i \in DOMAIN all : \A j \in 1 .. i - 1 : Key(all[j]) # Key(all[i])}
<1>3. Fused(lists) = {all[i] : i \in firsts}
    BY <1>1 DEF Fused, AllOf
<1>4. Fused(lists) \subseteq AllCandidates
    BY <1>3, ElementOfSeq, <1>2
<1>5. ASSUME NEW a \in Fused(lists), NEW b \in Fused(lists), Key(a) = Key(b)
      PROVE  a = b
    <2>1. PICK i \in firsts, j \in firsts : a = all[i] /\ b = all[j]
        BY <1>3
    <2>2. ~(i < j) /\ ~(j < i)
        BY <1>2, <1>5, <2>1
    <2>3. i \in Nat /\ j \in Nat
        BY <1>2
    <2> QED BY <2>1, <2>2, <2>3
<1>6. IsFiniteSet(Fused(lists))
    <2>1. IsFiniteSet(1 .. Len(all))
        BY <1>2, FS_Interval
    <2>2. IsFiniteSet(firsts)
        BY <1>2, <2>1, FS_Subset
    <2> DEFINE f == [i \in firsts |-> all[i]]
    <2>3. f \in Surjection(firsts, Fused(lists))
        BY <1>3 DEF Surjection
    <2> HIDE DEF f, firsts
    <2> QED BY <2>2, <2>3, FS_Surjection
<1>7. ASSUME NEW a \in Fused(lists)
      PROVE  \E ranking \in Rankings :
                \E k \in DOMAIN lists[ranking] : a = lists[ranking][k]
    <2>1. PICK i \in DOMAIN all : a = all[i]
        BY <1>3
    <2> QED BY <1>1, <2>1, AllListed
<1> QED BY <1>4, <1>5, <1>6, <1>7

LEMMA ScoresAreNumbers ==
    ASSUME NEW lists \in Lists, NEW key
    PROVE  Score(lists, key) \in Int
<1>1. ASSUME NEW ranking \in Rankings, Positions(lists[ranking], key) # {}
      PROVE  Evidence(Min(Positions(lists[ranking], key))) \in Int
    <2> DEFINE P == Positions(lists[ranking], key)
    <2>1. P \in SUBSET Nat
        <3>1. lists[ranking] \in Seq(AllCandidates)
            BY DEF Lists
        <3>2. DOMAIN lists[ranking] \in SUBSET Nat
            BY <3>1, LenProperties
        <3> QED BY <3>2 DEF Positions
    <2>2. P # {}
        BY <1>1
    <2> HIDE DEF P
    <2>3. PICK n \in P : \A k \in P : ~(k < n)
        BY <2>1, <2>2, Selecting!LeastNumber
    <2>4. \A k \in P : n <= k
        BY <2>1, <2>3
    <2>5. Min(P) \in P
        BY <2>4 DEF Min
    <2>6. PICK rank \in Nat : rank = Min(P)
        BY <2>1, <2>5
    <2>7. RrfK + rank \in Nat /\ RrfK + rank > 0
        BY DEF RrfK
    <2>8. EvidenceUnit \div (RrfK + rank) \in Int
        BY <2>7, SearchAssumption
    <2> QED BY <2>6, <2>8 DEF Evidence, P
<1>2. {"semantic_memories", "lexical_memories", "semantic_chunks", "lexical_chunks"}
          \subseteq Rankings
    BY DEF Rankings, Statements
<1> DEFINE from(ranking) == IF Positions(lists[ranking], key) = {} THEN 0
                            ELSE Evidence(Min(Positions(lists[ranking], key)))
<1>3. \A ranking \in Rankings : from(ranking) \in Int
    BY <1>1
<1>4. Score(lists, key) = from("semantic_memories") + from("lexical_memories")
                              + from("semantic_chunks") + from("lexical_chunks")
    BY DEF Score
<1> HIDE DEF from
<1>5. \A w, x, y, z \in Int : w + x + y + z \in Int
    OBVIOUS
<1> QED BY <1>2, <1>3, <1>4, <1>5

\* Of two fused candidates one is better.
LEMMA BetterOrders ==
    ASSUME NEW lists \in Lists
    PROVE  LET F == Fused(lists) IN
           StrictOrder(F, {p \in F \X F : Better(lists, p[1], p[2])})
<1> DEFINE F == Fused(lists)
           R == {p \in F \X F : Better(lists, p[1], p[2])}
           score(c) == Score(lists, Key(c))
<1>1. \A a \in F, b \in F : <<a, b>> \in R <=> Better(lists, a, b)
    OBVIOUS
<1>2. \A a, b : Better(lists, a, b) <=>
          \/ score(a) > score(b)
          \/ /\ score(a) = score(b)
             /\ \/ a.kind = "memory" /\ b.kind = "chunk"
                \/ a.kind = b.kind /\ a.id < b.id
    BY DEF Better
<1>3. \A a \in F : /\ score(a) \in Int /\ a.id \in Nat
                   /\ a.kind \in {"memory", "chunk"}
    BY FusedOnce, ScoresAreNumbers, SearchAssumption DEF AllCandidates, MemoryCandidates, ChunkCandidates
<1>4. \A a, b \in F : a.kind = b.kind /\ a.id = b.id => a = b
    BY FusedOnce DEF Key
<1> HIDE DEF F, R, score
<1>5. \A a \in F : <<a, a>> \notin R
    BY <1>1, <1>2, <1>3
<1>6. ASSUME NEW a \in F, NEW b \in F, NEW c \in F, <<a, b>> \in R, <<b, c>> \in R
      PROVE  <<a, c>> \in R
    <2>1. Better(lists, a, b) /\ Better(lists, b, c)
        BY <1>1, <1>6
    <2>2. Better(lists, a, c)
        BY <1>2, <1>3, <2>1
    <2> QED BY <1>1, <2>2
<1>7. ASSUME NEW a \in F, NEW b \in F
      PROVE  a = b \/ <<a, b>> \in R \/ <<b, a>> \in R
    <2>1. a = b \/ Better(lists, a, b) \/ Better(lists, b, a)
        BY <1>2, <1>3, <1>4
    <2> QED BY <1>1, <2>1
<1>8. StrictOrder(F, R)
    BY <1>5, <1>6, <1>7 DEF StrictOrder
<1> QED BY <1>8 DEF F, R

\* What the order of the candidates is.
Sorted(lists, order) ==
    /\ order \in Seq(Fused(lists))
    /\ \A c \in Fused(lists) : \E k \in 1 .. Len(order) : order[k] = c
    /\ \A j, k \in 1 .. Len(order) : j < k => Better(lists, order[j], order[k])
    /\ \A j, k \in 1 .. Len(order) : order[j] = order[k] => j = k

LEMMA OrderedSorts ==
    ASSUME NEW lists \in Lists
    PROVE  Sorted(lists, Ordered(lists))
<1> DEFINE F == Fused(lists)
           R == {p \in F \X F : Better(lists, p[1], p[2])}
           n == Cardinality(F)
           ahead(c) == Cardinality(Before(F, R, c))
           better(c) == Cardinality({b \in F : Better(lists, b, c)})
           order == Ordered(lists)
<1>1. IsFiniteSet(F) /\ StrictOrder(F, R)
    BY FusedOnce, BetterOrders
<1>2. \A a \in F, b \in F : <<a, b>> \in R <=> Better(lists, a, b)
    OBVIOUS
<1>3. \A c \in F : better(c) = ahead(c)
    <2>1. \A c \in F : {b \in F : Better(lists, b, c)} = Before(F, R, c)
        BY <1>2 DEF Before
    <2> QED BY <2>1
<1>4. order = [k \in 1 .. n |-> CHOOSE c \in F : better(c) = k - 1]
    BY DEF Ordered
<1> HIDE DEF F, R, order, better
<1>5. /\ n \in Nat
      /\ \A c \in F : ahead(c) + 1 \in 1 .. n
      /\ \A b, c \in F : <<b, c>> \in R => ahead(b) < ahead(c)
      /\ \A k \in 1 .. n : \E c \in F : ahead(c) = k - 1
    BY <1>1, Places
<1> HIDE DEF n, ahead
<1>6. \A k \in 1 .. n : order[k] \in F /\ ahead(order[k]) = k - 1
    BY <1>3, <1>4, <1>5
<1>7. order \in Seq(F) /\ Len(order) = n
    <2>1. order \in [1 .. n -> F]
        BY <1>4, <1>6
    <2> QED BY <1>5, <2>1
<1>8. ASSUME NEW b \in F, NEW c \in F, ahead(b) = ahead(c) PROVE b = c
    <2>0. \A x \in F : ahead(x) \in Int
        <3>1. \A x \in F : ahead(x) \in Nat
            BY FS_CardinalityType, FS_Subset, <1>1 DEF ahead, Before
        <3> QED BY <3>1
    <2>1. ~(<<b, c>> \in R) /\ ~(<<c, b>> \in R)
        BY <1>5, <1>8, <2>0
    <2> QED BY <1>1, <2>1 DEF StrictOrder
<1>9. ASSUME NEW c \in F PROVE \E k \in 1 .. Len(order) : order[k] = c
    <2>1. PICK k \in 1 .. n : k = ahead(c) + 1
        BY <1>5
    <2>2. ahead(c) \in Nat
        BY FS_CardinalityType, FS_Subset, <1>1 DEF ahead, Before
    <2>3. ahead(order[k]) = ahead(c) /\ order[k] \in F
        BY <1>6, <2>1, <2>2
    <2> QED BY <1>7, <1>8, <2>3
<1>10. ASSUME NEW j \in 1 .. Len(order), NEW k \in 1 .. Len(order)
       PROVE  /\ j < k => Better(lists, order[j], order[k])
              /\ order[j] = order[k] => j = k
    <2>1. /\ order[j] \in F /\ ahead(order[j]) = j - 1
          /\ order[k] \in F /\ ahead(order[k]) = k - 1
        BY <1>6, <1>7
    <2>2. order[j] = order[k] => j = k
        BY <1>5, <1>7, <2>1
    <2>3. ASSUME j < k PROVE <<order[j], order[k]>> \in R
        <3>1. ~(<<order[k], order[j]>> \in R)
            <4>1. ~(k - 1 < j - 1)
                BY <1>5, <1>7, <2>3
            <4> QED BY <1>5, <2>1, <4>1
        <3>2. order[j] # order[k]
            BY <1>5, <1>7, <2>2, <2>3
        <3> QED BY <1>1, <2>1, <3>1, <3>2 DEF StrictOrder
    <2> QED BY <1>2, <2>1, <2>2, <2>3
<1>11. Sorted(lists, order)
    BY <1>7, <1>9, <1>10 DEF Sorted, F
<1> QED BY <1>11 DEF order

-----------------------------------------------------------------------------
(* What the folds of a search build up.                                    *)

\* The selection, one candidate after the other.
SelectionBuilt(F, order, r, v) ==
    /\ Selecting!Grows(F, Len(order), order, v)
    /\ v[Len(order)] = SelectDiverse(order, r)
    /\ \A k \in 1 .. Len(order) : v[k] = SelectOne(r, v[k - 1], order[k])

LEMMA SelectionGrows ==
    ASSUME NEW F, NEW order \in Seq(F), NEW r
    PROVE  \E v : SelectionBuilt(F, order, r, v)
<1> DEFINE n == Len(order)
<1>0. n \in Nat /\ \A k \in 1 .. n : order[k] \in F
    BY LenProperties, ElementOfSeq
<1>1. Selecting!Steps(r, Seq(F), F, <<>>)
    <2>1. <<>> \in Seq(F)
        BY EmptySeq
    <2>2. \A selection \in Seq(F), e \in F : SelectOne(r, selection, e) \in Seq(F)
        BY AppendProperties DEF SelectOne
    <2> QED BY <2>1, <2>2 DEF Selecting!Steps
<1>2. PICK v : Selecting!Visits(r, Seq(F), <<>>, order, v)
    BY <1>1, Selecting!FoldVisits
<1>3. /\ v \in [0 .. n -> Seq(F)] /\ v[0] = <<>>
      /\ \A k \in 1 .. n : v[k] = SelectOne(r, v[k - 1], order[k])
      /\ v[n] = Selecting!Folded(r, <<>>, order)
    BY <1>2 DEF Selecting!Visits
<1>4. SelectDiverse(order, r) = Selecting!Folded(r, <<>>, order)
    BY SMT DEF SelectDiverse, Selecting!Folded, SelectOne, FoldLeft, MapThenFoldSet, Max,
               Selecting!MapThenFoldSet, Selecting!Max
<1>5. \A k \in 1 .. n : \/ v[k] = v[k - 1]
                        \/ order[k] \in F /\ v[k] = Append(v[k - 1], order[k])
    BY <1>0, <1>3 DEF SelectOne
<1>6. Selecting!Grows(F, n, order, v)
    BY <1>3, <1>5 DEF Selecting!Grows
<1> QED BY <1>3, <1>4, <1>6 DEF SelectionBuilt

\* The results, from the rows that were read.
ResultOf(rows, selection) ==
    [k \in 1 .. Len(selection) |-> ThatOf(HitsIn(rows, selection[k]))]

HydrationBuilt(rows, selection, v) ==
    /\ Hydrating!Grows(rows, Len(selection), ResultOf(rows, selection), v)
    /\ v[Len(selection)] = Hydrating!Folded(rows, <<>>, selection)
    /\ \A k \in 1 .. Len(selection) :
          v[k] = v[k - 1] => HitsIn(rows, selection[k]) = {}
    /\ \A k \in 1 .. Len(selection) :
          v[k] # v[k - 1] => HitsIn(rows, selection[k]) # {}

LEMMA HydrationGrows ==
    ASSUME NEW rows, NEW F, NEW selection \in Seq(F)
    PROVE  \E v : HydrationBuilt(rows, selection, v)
<1> DEFINE n == Len(selection)
           w == ResultOf(rows, selection)
<1>0. n \in Nat /\ \A k \in 1 .. n : selection[k] \in F
    BY LenProperties, ElementOfSeq
<1>1. \A candidate : HitsIn(rows, candidate) # {}
                         => ThatOf(HitsIn(rows, candidate)) \in rows
    BY DEF ThatOf, HitsIn
<1>2. Hydrating!Steps(rows, Seq(rows), F, <<>>)
    <2>1. <<>> \in Seq(rows)
        BY EmptySeq
    <2>2. \A results \in Seq(rows), e \in F : HydrateOne(rows, results, e) \in Seq(rows)
        BY <1>1, AppendProperties DEF HydrateOne
    <2> QED BY <2>1, <2>2 DEF Hydrating!Steps
<1>3. PICK v : Hydrating!Visits(rows, Seq(rows), <<>>, selection, v)
    BY <1>2, Hydrating!FoldVisits
<1>4. /\ v \in [0 .. n -> Seq(rows)] /\ v[0] = <<>>
      /\ \A k \in 1 .. n : v[k] = HydrateOne(rows, v[k - 1], selection[k])
      /\ v[n] = Hydrating!Folded(rows, <<>>, selection)
    BY <1>3 DEF Hydrating!Visits
<1>5. ASSUME NEW k \in 1 .. n
      PROVE  /\ \/ v[k] = v[k - 1]
                \/ w[k] \in rows /\ v[k] = Append(v[k - 1], w[k])
             /\ v[k] = v[k - 1] => HitsIn(rows, selection[k]) = {}
             /\ v[k] # v[k - 1] => HitsIn(rows, selection[k]) # {}
    <2>1. CASE HitsIn(rows, selection[k]) = {}
        <3>1. v[k] = v[k - 1]
            BY <1>4, <2>1 DEF HydrateOne
        <3> QED BY <2>1, <3>1
    <2>2. CASE HitsIn(rows, selection[k]) # {}
        <3>1. w[k] = ThatOf(HitsIn(rows, selection[k])) /\ w[k] \in rows
            BY <1>1, <2>2 DEF ResultOf
        <3>2. v[k] = Append(v[k - 1], w[k])
            BY <1>4, <2>2, <3>1 DEF HydrateOne
        <3>3. v[k - 1] \in Seq(rows)
            BY <1>0, <1>4
        <3>4. Len(v[k]) = Len(v[k - 1]) + 1 /\ Len(v[k - 1]) \in Nat
            BY <3>1, <3>2, <3>3, AppendProperties, LenProperties
        <3> QED BY <2>2, <3>1, <3>2, <3>4
    <2> QED BY <2>1, <2>2
<1>6. Hydrating!Grows(rows, n, w, v)
    BY <1>4, <1>5 DEF Hydrating!Grows
<1> QED BY <1>4, <1>5, <1>6 DEF HydrationBuilt

\* ... and what is read of them as the state stands.
LEMMA ResultsFolded == Results = Hydrating!Folded(hydrated, <<>>, selected)
BY SMT DEF Results, Hydrating!Folded, HydrateOne, HitsFor, HitsIn, FoldLeft, MapThenFoldSet, Max,
           Hydrating!MapThenFoldSet, Hydrating!Max

Hits == [kind: {"memory"}, id: Memories, text: Memories]
            \cup [kind: {"chunk"}, id: Nat \ {0}, row: Nat \ {0}, text: Texts,
                  document: Documents]

Fits == [remaining: Nat, kept: Seq(Hits)]

LEMMA BytesAreNumbers ==
    ASSUME NEW hit \in Hits, NEW remaining
    PROVE  BytesIn(hit, remaining) \in Nat
<1>1. hit.text \in Texts \cup Memories
    BY DEF Hits
<1> QED BY <1>1, SearchAssumption DEF BytesIn

\* The answer, and what is left of the budget.
FittingBuilt(results, v) ==
    /\ v \in [0 .. Len(results) -> Fits]
    /\ v[0] = [remaining |-> Budget, kept |-> <<>>]
    /\ FitSearchContext(results) = v[Len(results)].kept
    /\ \A k \in 1 .. Len(results) :
          LET bytes == BytesIn(results[k], v[k - 1].remaining) IN
          \/ /\ Admissible(bytes, v[k - 1].remaining)
             /\ v[k].remaining = v[k - 1].remaining - bytes
             /\ v[k].kept = Append(v[k - 1].kept, results[k])
          \/ ~Admissible(bytes, v[k - 1].remaining) /\ v[k] = v[k - 1]

LEMMA FittingGrows ==
    ASSUME NEW results \in Seq(Hits)
    PROVE  \E v : FittingBuilt(results, v)
<1> DEFINE n == Len(results)
           base == [remaining |-> Budget, kept |-> <<>>]
<1>0. n \in Nat /\ \A k \in 1 .. n : results[k] \in Hits
    BY LenProperties, ElementOfSeq
<1>1. Budget \in Nat
    BY SearchAssumption
<1>2. ASSUME NEW fit \in Fits, NEW hit \in Hits
      PROVE  FitOne(0, fit, hit) \in Fits
    <2>1. PICK bytes \in Nat : bytes = BytesIn(hit, fit.remaining)
        BY BytesAreNumbers
    <2>2. fit.remaining \in Nat /\ fit.kept \in Seq(Hits)
        BY DEF Fits
    <2>3. CASE Admissible(bytes, fit.remaining)
        <3>1. bytes <= fit.remaining
            BY <2>3 DEF Admissible
        <3>2. fit.remaining - bytes \in Nat /\ Append(fit.kept, hit) \in Seq(Hits)
            BY <2>2, <3>1, AppendProperties
        <3>3. FitOne(0, fit, hit) = [remaining |-> fit.remaining - bytes,
                                     kept |-> Append(fit.kept, hit)]
            BY <2>1, <2>3 DEF FitOne
        <3>4. [remaining |-> fit.remaining - bytes, kept |-> Append(fit.kept, hit)] \in Fits
            BY <3>2 DEF Fits
        <3> QED BY <3>3, <3>4
    <2>4. CASE ~Admissible(bytes, fit.remaining)
        BY <2>1, <2>4 DEF FitOne
    <2> QED BY <2>3, <2>4
<1>3. base \in Fits
    BY <1>1, EmptySeq DEF Fits
<1>4. Fitting!Steps(0, Fits, Hits, base)
    BY <1>2, <1>3 DEF Fitting!Steps
<1> HIDE DEF base
<1>5. PICK v : Fitting!Visits(0, Fits, base, results, v)
    BY <1>4, Fitting!FoldVisits
<1>6. /\ v \in [0 .. n -> Fits] /\ v[0] = base
      /\ \A k \in 1 .. n : v[k] = FitOne(0, v[k - 1], results[k])
      /\ v[n] = Fitting!Folded(0, base, results)
    BY <1>5 DEF Fitting!Visits
<1>7. FitSearchContext(results) = Fitting!Folded(0, base, results).kept
    BY SMT DEF FitSearchContext, Fitting!Folded, FitOne, base, FoldLeft, MapThenFoldSet, Max,
               Fitting!MapThenFoldSet, Fitting!Max
<1>8. ASSUME NEW k \in 1 .. n
      PROVE  LET bytes == BytesIn(results[k], v[k - 1].remaining) IN
             \/ /\ Admissible(bytes, v[k - 1].remaining)
                /\ v[k].remaining = v[k - 1].remaining - bytes
                /\ v[k].kept = Append(v[k - 1].kept, results[k])
             \/ ~Admissible(bytes, v[k - 1].remaining) /\ v[k] = v[k - 1]
    BY <1>6 DEF FitOne
<1> QED BY <1>6, <1>7, <1>8 DEF FittingBuilt, base

-----------------------------------------------------------------------------
(* The numbers of chunks.                                                  *)

\* `row` is more than those in use.
LEMMA LargestIsLargest ==
    ASSUME NEW rows, NEW top \in Nat, \A c \in rows : c.row \in Nat /\ c.row <= top
    PROVE  LargestRow(rows) \in Nat /\ \A c \in rows : c.row <= LargestRow(rows)
<1>1. CASE rows = {}
    BY <1>1 DEF LargestRow
<1>2. CASE rows # {}
    <2> DEFINE P == {c.row : c \in rows}
               D == {top - p : p \in P}
    <2>1. P \in SUBSET Nat /\ P # {} /\ \A p \in P : p <= top
        BY <1>2
    <2>2. D \in SUBSET Nat /\ D # {}
        BY <2>1
    <2> HIDE DEF D
    <2>3. PICK n \in D : \A m \in D : ~(m < n)
        BY <2>2, Selecting!LeastNumber
    <2> USE DEF D
    <2>4. PICK p \in P : n = top - p
        BY <2>3
    <2>5. \A q \in P : p >= q
        <3> SUFFICES ASSUME NEW q \in P PROVE p >= q
            OBVIOUS
        <3>1. ~(top - q < top - p)
            BY <2>3, <2>4
        <3> QED BY <2>1, <3>1
    <2> HIDE DEF P
    <2>6. Max(P) \in P /\ \A q \in P : Max(P) >= q
        BY <2>4, <2>5 DEF Max
    <2>7. LargestRow(rows) = Max(P)
        BY <1>2 DEF LargestRow, P
    <2>8. \A c \in rows : c.row \in P
        BY DEF P
    <2> QED BY <2>1, <2>6, <2>7, <2>8
<1> QED BY <1>1, <1>2

\* The documents a database starts with, one after the other.
LEMMA DocumentOrder ==
    /\ SetToSeq(Documents) \in Seq(Documents)
    /\ \A j, k \in DOMAIN SetToSeq(Documents) :
          SetToSeq(Documents)[j] = SetToSeq(Documents)[k] => j = k
<1> DEFINE n == Cardinality(Documents)
<1>1. IsFiniteSet(Documents) /\ n \in Nat
    BY SearchAssumption, FS_CardinalityType
<1>2. \E f \in [1 .. n -> Documents] : IsInjective(f)
    <2>1. PICK m \in Nat : ExistsBijection(1 .. m, Documents)
        BY <1>1, FS_NatBijection
    <2>2. m = n
        BY <2>1, FS_CountingElements
    <2>3. PICK f : f \in Bijection(1 .. n, Documents)
        BY <2>1, <2>2 DEF ExistsBijection
    <2> QED BY <2>3 DEF Bijection, Injection, IsInjective
<1>3. SetToSeq(Documents) \in [1 .. n -> Documents] /\ IsInjective(SetToSeq(Documents))
    BY <1>2 DEF SetToSeq
<1>4. SetToSeq(Documents) \in Seq(Documents)
    BY <1>1, <1>3
<1>5. DOMAIN SetToSeq(Documents) = 1 .. n
    BY <1>3
<1> QED BY <1>3, <1>4, <1>5 DEF IsInjective

\* At first each chunk has numbers of its own.
LEMMA InitialNumbers ==
    /\ InitialChunks \subseteq Chunk
    /\ \E top \in Nat : \A c \in InitialChunks : c.row <= top
    /\ \A c \in InitialChunks : c.stable = c.row
    /\ \A b, c \in InitialChunks : b.row = c.row => b = c
<1> DEFINE order == SetToSeq(Documents)
           n == Len(order)
           before(k) == FoldLeft(LAMBDA m, d : m + Len(Initially[d]), 0,
                                 SubSeq(order, 1, k - 1))
           size(k) == Len(Initially[order[k]])
           rowsOf(k) == {[row |-> before(k) + i, stable |-> before(k) + i,
                          document |-> order[k], ordinal |-> i,
                          text |-> Initially[order[k]][i]]
                            : i \in DOMAIN Initially[order[k]]}
<1>1. InitialChunks = UNION {rowsOf(k) : k \in DOMAIN order}
    BY DEF InitialChunks
<1>2. /\ order \in Seq(Documents) /\ n \in Nat /\ DOMAIN order = 1 .. n
      /\ \A j, k \in 1 .. n : order[j] = order[k] => j = k
      /\ \A k \in 1 .. n : order[k] \in Documents
    BY DocumentOrder, LenProperties, ElementOfSeq
<1>3. /\ \A d \in Documents : Initially[d] \in Seq(Texts)
      /\ \A d \in Documents : /\ Len(Initially[d]) \in Nat
                              /\ DOMAIN Initially[d] = 1 .. Len(Initially[d])
                              /\ \A i \in 1 .. Len(Initially[d]) : Initially[d][i] \in Texts
    <2>1. \A d \in Documents : Initially[d] \in Seq(Texts)
        BY SearchAssumption
    <2> QED BY <2>1, LenProperties, ElementOfSeq
<1>4. \A k : before(k) = Numbering!Folded(0, 0, SubSeq(order, 1, k - 1))
    BY SMT DEF Numbering!Folded, NumberOne, FoldLeft, MapThenFoldSet, Max,
               Numbering!MapThenFoldSet, Numbering!Max
<1>5. Numbering!Steps(0, Nat, Documents, 0)
    BY <1>3 DEF Numbering!Steps, NumberOne
<1> HIDE DEF before, order
<1>6. ASSUME NEW k \in 1 .. n
      PROVE  before(k) \in Nat /\ before(k + 1) = before(k) + size(k)
    <2>1. /\ SubSeq(order, 1, k - 1) \in Seq(Documents)
          /\ SubSeq(order, 1, k) = Append(SubSeq(order, 1, k - 1), order[k])
        <3>1. /\ Len(SubSeq(order, 1, k - 1)) = k - 1
              /\ Len(SubSeq(order, 1, k)) = k
              /\ SubSeq(order, 1, k - 1) \in Seq(Documents)
              /\ SubSeq(order, 1, k) \in Seq(Documents)
              /\ \A i \in 1 .. k - 1 : SubSeq(order, 1, k - 1)[i] = order[i]
              /\ \A i \in 1 .. k : SubSeq(order, 1, k)[i] = order[i]
            BY <1>2
        <3>2. PICK s, t \in Seq(Documents) : s = SubSeq(order, 1, k - 1) /\ t = SubSeq(order, 1, k)
            BY <3>1
        <3>3. /\ Append(s, order[k]) \in Seq(Documents)
              /\ Len(Append(s, order[k])) = k
              /\ \A i \in 1 .. k - 1 : Append(s, order[k])[i] = s[i]
              /\ Append(s, order[k])[k] = order[k]
            BY <1>2, <3>1, <3>2, AppendProperties
        <3>4. Len(t) = k /\ \A i \in 1 .. k : t[i] = Append(s, order[k])[i]
            BY <3>1, <3>2, <3>3
        <3>5. t = Append(s, order[k])
            BY <3>3, <3>4, SeqEqual
        <3> QED BY <3>1, <3>2, <3>5
    <2>2. (k + 1) - 1 = k
        OBVIOUS
    <2>3. PICK s \in Seq(Documents) : s = SubSeq(order, 1, k - 1)
        BY <2>1
    <2>4. /\ Numbering!Folded(0, 0, s) \in Nat
          /\ Numbering!Folded(0, 0, Append(s, order[k]))
                = NumberOne(0, Numbering!Folded(0, 0, s), order[k])
        BY <1>2, <1>5, Numbering!FoldAppend
    <2> QED BY <1>4, <2>1, <2>2, <2>3, <2>4 DEF NumberOne
<1>7. \A k \in 1 .. n : size(k) \in Nat
    BY <1>2, <1>3
<1> HIDE DEF size
<1>8. before(1) \in Nat
    <2>1. SubSeq(order, 1, 0) = <<>> /\ <<>> \in Seq(Documents)
        BY <1>2, EmptySeq
    <2>2. PICK v : Numbering!Visits(0, Nat, 0, <<>>, v)
        BY <1>5, <2>1, Numbering!FoldVisits
    <2>3. Len(<<>>) = 0 /\ 0 \in 0 .. 0
        BY EmptySeq
    <2>4. Numbering!Folded(0, 0, <<>>) \in Nat
        BY <2>2, <2>3 DEF Numbering!Visits
    <2>5. 1 - 1 = 0
        OBVIOUS
    <2>6. before(1) = Numbering!Folded(0, 0, SubSeq(order, 1, 1 - 1))
        BY <1>4
    <2> QED BY <2>1, <2>4, <2>5, <2>6
<1>9. \A k \in 1 .. n + 1 : before(k) \in Nat
    <2> SUFFICES ASSUME NEW k \in 1 .. n + 1 PROVE before(k) \in Nat
        OBVIOUS
    <2>1. CASE k \in 1 .. n
        BY <1>6, <2>1
    <2>2. CASE k = n + 1 /\ n > 0
        <3>1. n \in 1 .. n
            BY <1>2, <2>2
        <3> QED BY <1>6, <1>7, <2>2, <3>1
    <2>3. CASE k = 1
        BY <1>8, <2>3
    <2> QED BY <1>2, <2>1, <2>2, <2>3
<1>10. ASSUME NEW j \in 1 .. n, NEW k \in 1 .. n + 1, j < k
       PROVE  before(j) + size(j) <= before(k)
    <2> DEFINE S == {m \in 0 .. n : j <= m => before(j) + size(j) <= before(m + 1)}
    <2>1. 0 \in S
        BY <1>2
    <2>2. ASSUME NEW m \in 0 .. n - 1, m \in S PROVE m + 1 \in S
        <3>1. /\ m + 1 \in 1 .. n /\ m + 1 \in 0 .. n /\ (m + 1) + 1 \in 1 .. n + 1
              /\ m + 1 \in 1 .. n + 1
            BY <1>2
        <3>2. /\ before((m + 1) + 1) = before(m + 1) + size(m + 1)
              /\ before(m + 1) \in Nat /\ size(m + 1) \in Nat
              /\ before(j) \in Nat /\ size(j) \in Nat
            BY <1>6, <1>7, <3>1
        <3>3. CASE j = m + 1
            BY <3>1, <3>2, <3>3
        <3>4. CASE j <= m
            <4>1. before(j) + size(j) <= before(m + 1)
                BY <2>2, <3>4
            <4>2. before(j) + size(j) <= before((m + 1) + 1)
                BY <3>2, <4>1
            <4> QED BY <3>1, <4>2
        <3>5. CASE ~(j <= m + 1)
            BY <3>1, <3>5
        <3> QED BY <1>2, <3>3, <3>4, <3>5
    <2> HIDE DEF S
    <2>3. 0 .. n \subseteq S
        BY <1>2, <2>1, <2>2, Numbering!UpTo
    <2>4. k - 1 \in 0 .. n /\ j <= k - 1 /\ (k - 1) + 1 = k
        BY <1>2, <1>10
    <2>5. k - 1 \in S
        BY <2>3, <2>4
    <2> QED BY <2>4, <2>5 DEF S
<1>11. ASSUME NEW c \in InitialChunks
       PROVE  \E k \in 1 .. n : \E i \in 1 .. size(k) :
                  c = [row |-> before(k) + i, stable |-> before(k) + i,
                       document |-> order[k], ordinal |-> i,
                       text |-> Initially[order[k]][i]]
    <2>1. PICK k \in 1 .. n : c \in rowsOf(k)
        BY <1>1, <1>2
    <2>2. DOMAIN Initially[order[k]] = 1 .. size(k)
        BY <1>2, <1>3 DEF size
    <2> QED BY <2>1, <2>2
<1> HIDE DEF rowsOf
<1>12. ASSUME NEW c \in InitialChunks
       PROVE  c \in Chunk /\ c.stable = c.row /\ c.row <= before(n + 1)
    <2>1. PICK k \in 1 .. n, i \in Nat :
               /\ i \in 1 .. size(k)
               /\ c = [row |-> before(k) + i, stable |-> before(k) + i,
                       document |-> order[k], ordinal |-> i,
                       text |-> Initially[order[k]][i]]
        BY <1>11
    <2>2. /\ before(k) \in Nat /\ size(k) \in Nat /\ order[k] \in Documents
          /\ Initially[order[k]][i] \in Texts
          /\ i >= 1 /\ i <= size(k)
        <3>1. before(k) \in Nat /\ size(k) \in Nat /\ order[k] \in Documents
            BY <1>2, <1>6, <1>7
        <3>2. i \in 1 .. size(k)
            BY <2>1
        <3>3. size(k) = Len(Initially[order[k]])
            BY DEF size
        <3>4. Initially[order[k]][i] \in Texts
            BY <1>3, <3>1, <3>2, <3>3
        <3> QED BY <3>1, <3>2, <3>4
    <2>3. before(k) + i \in Nat \ {0} /\ i \in Nat \ {0}
        BY <2>2
    <2>4. n + 1 \in 1 .. n + 1 /\ k < n + 1
        BY <1>2
    <2>5. before(k) + size(k) <= before(n + 1) /\ before(n + 1) \in Nat
        BY <1>9, <1>10, <2>4
    <2>6. before(k) + i <= before(n + 1)
        BY <2>2, <2>5
    <2> QED BY <2>1, <2>2, <2>3, <2>6 DEF Chunk
<1>13. ASSUME NEW b \in InitialChunks, NEW c \in InitialChunks, b.row = c.row
       PROVE  b = c
    <2>1. PICK j \in 1 .. n, h \in Nat :
               /\ h \in 1 .. size(j)
               /\ b = [row |-> before(j) + h, stable |-> before(j) + h,
                       document |-> order[j], ordinal |-> h,
                       text |-> Initially[order[j]][h]]
        BY <1>11
    <2>2. PICK k \in 1 .. n, i \in Nat :
               /\ i \in 1 .. size(k)
               /\ c = [row |-> before(k) + i, stable |-> before(k) + i,
                       document |-> order[k], ordinal |-> i,
                       text |-> Initially[order[k]][i]]
        BY <1>11
    <2>3. /\ before(j) + h = before(k) + i
          /\ before(j) \in Nat /\ size(j) \in Nat /\ before(k) \in Nat /\ size(k) \in Nat
          /\ h >= 1 /\ h <= size(j) /\ i >= 1 /\ i <= size(k)
        <3>1. before(j) \in Nat /\ size(j) \in Nat /\ before(k) \in Nat /\ size(k) \in Nat
            BY <1>6, <1>7
        <3>2. b.row = before(j) + h /\ c.row = before(k) + i
            BY <2>1, <2>2
        <3> QED BY <1>13, <2>1, <2>2, <3>1, <3>2
    <2>4. ~(j < k)
        <3>1. j < k => before(j) + size(j) <= before(k)
            BY <1>2, <1>10
        <3> QED BY <2>3, <3>1
    <2>5. ~(k < j)
        <3>1. k < j => before(k) + size(k) <= before(j)
            BY <1>2, <1>10
        <3> QED BY <2>3, <3>1
    <2>6. j = k
        BY <1>2, <2>4, <2>5
    <2>7. h = i
        BY <2>3, <2>6
    <2> QED BY <2>1, <2>2, <2>6, <2>7
<1>14. before(n + 1) \in Nat
    <2>1. n + 1 \in 1 .. n + 1
        BY <1>2
    <2> QED BY <1>9, <2>1
<1> QED BY <1>12, <1>13, <1>14

-----------------------------------------------------------------------------
(* What a chunk's id says, however often its document is published again.  *)

SameText(a, b) == a.text = b.text /\ a.document = b.document

Elements(s) == {s[i] : i \in DOMAIN s}

\* Row and stable id are counted up.
Numbered ==
    /\ chunks \subseteq Chunk
    /\ nextStable \in Nat \ {0}
    /\ \E top \in Nat : \A c \in chunks : c.row <= top
    /\ \A c \in chunks : c.stable < nextStable

\* An id stands for one text of one document,
IdIsText == \A b, c \in chunks : b.stable = c.stable => SameText(b, c)

\* ... also in what has been read before.
Cited(seen) ==
    \A a \in seen : a.kind = "chunk" =>
        a.id < nextStable /\ \A c \in chunks : c.stable = a.id => SameText(a, c)

ChunkInv == Numbered /\ IdIsText

CandidatesCited ==
    /\ found \in Lists
    /\ \A ranking \in Rankings : Cited(Elements(found[ranking]))
    /\ selected \in Seq(AllCandidates)
    /\ Cited(Elements(selected))

\* What has been hydrated is what was selected.
Hydrated ==
    /\ hydrated \subseteq Hits
    /\ \A hit \in hydrated, a \in Elements(selected) :
          a.kind = "chunk" /\ Key(hit) = Key(a) => SameText(hit, a)
    /\ phase = "ranking" /\ request.api = "v4" => hydrated = {} /\ todo \in Seq(Rankings)

TablesTyped ==
    /\ status \in [Documents -> {"done", "queued", "indexing", "deleted"}]
    /\ visible \in SUBSET Memories
    /\ publications \in 0 .. MaxPublications

SearchTyped ==
    /\ phase \in {"idle", "ranking", "hydrating", "answered", "failed"}
    /\ request \in Requests
    /\ todo \in Seq(Statements)

SearchInv ==
    /\ PoolTypeOK /\ TablesTyped /\ SearchTyped
    /\ ChunkInv /\ CandidatesCited /\ Hydrated /\ QuotesWhatWasRanked

\* A publication: a chunk keeps an id only with its text, and others are new.
LEMMA PublishedIds ==
    ASSUME ChunkInv, NEW d \in Documents, NEW texts \in Cuttings(MaxChunks),
           Publish(d, texts)
    PROVE  /\ chunks' \subseteq Chunk
           /\ nextStable' \in Nat /\ nextStable' >= nextStable
           /\ \E top \in Nat : \A c \in chunks' : c.row <= top
           /\ \A c \in chunks' :
                 \/ \E b \in chunks : b.stable = c.stable /\ SameText(b, c)
                 \/ c.stable >= nextStable /\ c.stable < nextStable'
           /\ \A b, c \in chunks' :
                 b.stable = c.stable /\ b.stable >= nextStable => b = c
<1> DEFINE n == Len(texts)
           others == {c \in chunks : c.document # d}
           id(i) == StableIdOf(d, i, texts[i], nextStable + i - 1)
           new(i) == [row |-> LargestRow(others) + i, stable |-> id(i),
                      document |-> d, ordinal |-> i, text |-> texts[i]]
<1>1. texts \in Seq(Texts)
    BY DEF Cuttings
<1>2. n \in Nat /\ DOMAIN texts = 1 .. n /\ \A i \in 1 .. n : texts[i] \in Texts
    BY <1>1, LenProperties, ElementOfSeq
<1>3. /\ chunks' = others \cup {new(i) : i \in 1 .. n}
      /\ nextStable' = nextStable + n
    BY <1>2 DEF Publish
<1>4. nextStable \in Nat /\ nextStable' \in Nat /\ nextStable' >= nextStable
    BY <1>2, <1>3 DEF ChunkInv, Numbered
<1>5. PICK top \in Nat : \A c \in chunks : c.row <= top
    BY DEF ChunkInv, Numbered
<1>6. LargestRow(others) \in Nat /\ \A c \in others : c.row <= LargestRow(others)
    <2>1. \A c \in others : c.row \in Nat /\ c.row <= top
        BY <1>5 DEF ChunkInv, Numbered, Chunk
    <2> QED BY <2>1, LargestIsLargest
<1>7. ASSUME NEW i \in 1 .. n
      PROVE  \/ \E b \in chunks : /\ b.stable = id(i) /\ b.text = texts[i]
                                  /\ b.document = d
             \/ id(i) = nextStable + i - 1
    <2> DEFINE same == {c \in chunks : /\ c.document = d
                                       /\ c.ordinal = i
                                       /\ c.text = texts[i]}
    <2>1. id(i) = IF same = {} THEN nextStable + i - 1 ELSE (CHOOSE c \in same : TRUE).stable
        BY DEF StableIdOf
    <2>2. same # {} => (CHOOSE c \in same : TRUE) \in same
        OBVIOUS
    <2> HIDE DEF id
    <2> QED BY <2>1, <2>2
<1> HIDE DEF id
<1>8. ASSUME NEW i \in 1 .. n
      PROVE  id(i) \in Nat \ {0} /\ id(i) < nextStable'
    <2>1. CASE \E b \in chunks : b.stable = id(i)
        BY <1>3, <1>4, <2>1 DEF ChunkInv, Numbered, Chunk
    <2>2. CASE id(i) = nextStable + i - 1
        BY <1>2, <1>3, <2>2 DEF ChunkInv, Numbered
    <2> QED BY <1>7, <2>1, <2>2
<1>9. ASSUME NEW i \in 1 .. n
      PROVE  /\ new(i) \in Chunk /\ new(i).row <= LargestRow(others) + n
             /\ new(i).stable = id(i) /\ new(i).text = texts[i] /\ new(i).document = d
    <2>1. LargestRow(others) + i \in Nat \ {0} /\ LargestRow(others) + i <= LargestRow(others) + n
        BY <1>2, <1>6
    <2> QED BY <1>2, <1>8, <2>1 DEF Chunk
<1> HIDE DEF new
<1>10. ASSUME NEW c \in chunks' PROVE c \in others \/ \E i \in 1 .. n : c = new(i)
    BY <1>3
<1>11. chunks' \subseteq Chunk
    BY <1>9, <1>10 DEF ChunkInv, Numbered
<1>12. \E t \in Nat : \A c \in chunks' : c.row <= t
    <2>1. \A c \in chunks' : c.row <= LargestRow(others) + n
        <3> SUFFICES ASSUME NEW c \in chunks' PROVE c.row <= LargestRow(others) + n
            OBVIOUS
        <3>1. CASE c \in others
            <4>1. c.row \in Nat /\ c.row <= LargestRow(others)
                BY <1>6, <3>1 DEF ChunkInv, Numbered, Chunk
            <4> QED BY <1>2, <1>6, <4>1
        <3>2. CASE \E i \in 1 .. n : c = new(i)
            BY <1>9, <3>2
        <3> QED BY <1>10, <3>1, <3>2
    <2>2. LargestRow(others) + n \in Nat
        BY <1>2, <1>6
    <2> QED BY <2>1, <2>2
<1>13. ASSUME NEW c \in chunks'
       PROVE  \/ \E b \in chunks : b.stable = c.stable /\ SameText(b, c)
              \/ c.stable >= nextStable /\ c.stable < nextStable'
    <2>1. CASE c \in others
        BY <2>1 DEF SameText
    <2>2. CASE \E i \in 1 .. n : c = new(i)
        <3>1. PICK i \in 1 .. n : c = new(i)
            BY <2>2
        <3>2. c.stable = id(i) /\ c.text = texts[i] /\ c.document = d
            BY <1>9, <3>1
        <3>3. CASE id(i) = nextStable + i - 1
            BY <1>4, <1>8, <3>2, <3>3
        <3> QED BY <1>7, <3>2, <3>3 DEF SameText
    <2> QED BY <1>10, <2>1, <2>2
<1>14. ASSUME NEW b \in chunks', NEW c \in chunks', b.stable = c.stable,
              b.stable >= nextStable
       PROVE  b = c
    <2>1. ASSUME NEW a \in chunks', a.stable >= nextStable
          PROVE  \E i \in 1 .. n : a = new(i) /\ a.stable = nextStable + i - 1
        <3>1. a \notin chunks
            <4>1. a \in chunks => a.stable < nextStable /\ a.stable \in Nat
                BY DEF ChunkInv, Numbered, Chunk
            <4> QED BY <1>4, <2>1, <4>1
        <3>2. PICK i \in 1 .. n : a = new(i)
            BY <1>10, <3>1
        <3>3. a.stable = id(i)
            BY <1>9, <3>2
        <3>4. ~\E x \in chunks : x.stable = id(i)
            <4>1. \A x \in chunks : x.stable < nextStable /\ x.stable \in Nat
                BY DEF ChunkInv, Numbered, Chunk
            <4> QED BY <1>4, <2>1, <3>3, <4>1
        <3> QED BY <1>7, <3>2, <3>3, <3>4
    <2>2. PICK i \in 1 .. n : b = new(i) /\ b.stable = nextStable + i - 1
        BY <1>14, <2>1
    <2>3. PICK j \in 1 .. n : c = new(j) /\ c.stable = nextStable + j - 1
        BY <1>14, <2>1
    <2>4. i = j
        BY <1>2, <1>4, <1>14, <2>2, <2>3
    <2> QED BY <2>2, <2>3, <2>4
<1> QED BY <1>4, <1>11, <1>12, <1>13, <1>14

\* What is cited stays so.
LEMMA PublishKeepsIds ==
    ASSUME ChunkInv, NEW d \in Documents, NEW texts \in Cuttings(MaxChunks),
           Publish(d, texts)
    PROVE  ChunkInv' /\ \A seen : seen \subseteq AllCandidates /\ Cited(seen) => Cited(seen)'
<1>1. /\ chunks' \subseteq Chunk
      /\ nextStable' \in Nat /\ nextStable' >= nextStable
      /\ \E top \in Nat : \A c \in chunks' : c.row <= top
      /\ \A c \in chunks' :
            \/ \E b \in chunks : b.stable = c.stable /\ SameText(b, c)
            \/ c.stable >= nextStable /\ c.stable < nextStable'
      /\ \A b, c \in chunks' :
            b.stable = c.stable /\ b.stable >= nextStable => b = c
    BY PublishedIds
<1>2. /\ nextStable \in Nat \ {0}
      /\ \A c \in chunks : c.stable \in Nat /\ c.stable < nextStable
      /\ \A b, c \in chunks : b.stable = c.stable => SameText(b, c)
    BY DEF ChunkInv, Numbered, IdIsText, Chunk
<1>3. \A c \in chunks' : c.stable \in Nat
    BY <1>1 DEF Chunk
<1>4. Numbered'
    <2>1. \A c \in chunks' : c.stable < nextStable'
        BY <1>1, <1>2, <1>3
    <2>2. nextStable' \in Nat \ {0}
        BY <1>1, <1>2
    <2> QED BY <1>1, <2>1, <2>2 DEF Numbered
<1>5. ASSUME NEW b \in chunks', NEW c \in chunks', b.stable = c.stable
      PROVE  SameText(b, c)
    <2>1. CASE b.stable >= nextStable
        <3>1. b = c
            BY <1>1, <1>5, <2>1
        <3> QED BY <3>1 DEF SameText
    <2>2. CASE ~(b.stable >= nextStable)
        <3>1. PICK x \in chunks : x.stable = b.stable /\ SameText(x, b)
            BY <1>1, <2>2
        <3>2. PICK y \in chunks : y.stable = c.stable /\ SameText(y, c)
            BY <1>1, <1>5, <2>2
        <3>3. SameText(x, y)
            BY <1>2, <1>5, <3>1, <3>2
        <3> QED BY <3>1, <3>2, <3>3 DEF SameText
    <2> QED BY <2>1, <2>2
<1>6. IdIsText'
    BY <1>5 DEF IdIsText, SameText
<1>7. ASSUME NEW seen, seen \subseteq AllCandidates, Cited(seen)
      PROVE  Cited(seen)'
    <2>1. ASSUME NEW a \in seen, a.kind = "chunk", NEW c \in chunks', c.stable = a.id
          PROVE  a.text = c.text /\ a.document = c.document
        <3>1. a.id < nextStable /\ a.id \in Nat
            BY <1>7, <2>1 DEF Cited, AllCandidates, MemoryCandidates, ChunkCandidates
        <3>2. ~(c.stable >= nextStable)
            BY <1>2, <2>1, <3>1
        <3>3. PICK x \in chunks : x.stable = c.stable /\ SameText(x, c)
            BY <1>1, <3>2
        <3>4. SameText(a, x)
            BY <1>7, <2>1, <3>3 DEF Cited
        <3> QED BY <3>3, <3>4 DEF SameText
    <2>2. ASSUME NEW a \in seen, a.kind = "chunk" PROVE a.id < nextStable'
        <3>1. a.id < nextStable /\ a.id \in Nat
            BY <1>7, <2>2 DEF Cited, AllCandidates, MemoryCandidates, ChunkCandidates
        <3> QED BY <1>1, <1>2, <3>1
    <2> QED BY <2>1, <2>2 DEF Cited, SameText
<1> QED BY <1>4, <1>6, <1>7 DEF ChunkInv

-----------------------------------------------------------------------------
(* What a search has found, selected and read.                             *)

\* What is selected was found.
LEMMA SelectionIsFound ==
    ASSUME NEW lists \in Lists, NEW r
    PROVE  /\ SelectDiverse(Ordered(lists), r) \in Seq(Fused(lists))
           /\ SelectDiverse(Ordered(lists), r) \in Seq(AllCandidates)
           /\ \A a \in Elements(SelectDiverse(Ordered(lists), r)) :
                 \E ranking \in Rankings : a \in Elements(lists[ranking])
<1> DEFINE F == Fused(lists)
           s == SelectDiverse(Ordered(lists), r)
<1>1. PICK order \in Seq(F) : order = Ordered(lists)
    BY OrderedSorts DEF Sorted
<1>2. PICK v : SelectionBuilt(F, order, r, v)
    BY SelectionGrows
<1>3. Len(order) \in Nat
    BY LenProperties
<1>4. s \in Seq(F)
    <2>1. v \in [0 .. Len(order) -> Seq(F)] /\ v[Len(order)] = s
        BY <1>1, <1>2 DEF SelectionBuilt, Selecting!Grows
    <2> QED BY <1>3, <2>1
<1> HIDE DEF s
<1>5. Len(s) \in Nat /\ DOMAIN s = 1 .. Len(s) /\ \A i \in 1 .. Len(s) : s[i] \in F
    BY <1>4, LenProperties, ElementOfSeq
<1>6. ASSUME NEW a \in Elements(s)
      PROVE  \E ranking \in Rankings : a \in Elements(lists[ranking])
    <2>1. a \in F
        BY <1>5 DEF Elements
    <2>2. PICK ranking \in Rankings : \E k \in DOMAIN lists[ranking] : a = lists[ranking][k]
        BY <2>1, FusedOnce
    <2> QED BY <2>2 DEF Elements
<1>7. s \in Seq(AllCandidates)
    BY <1>4, <1>5, FusedOnce
<1> QED BY <1>4, <1>6, <1>7 DEF s

\* A result is a row that was read under the key of a selected candidate.
LEMMA ResultsAreHits ==
    ASSUME selected \in Seq(AllCandidates)
    PROVE  /\ Results \in Seq(hydrated)
           /\ \A i \in 1 .. Len(Results) : \E k \in 1 .. Len(selected) :
                 Key(Results[i]) = Key(selected[k])
<1>1. PICK rows, sel : rows = hydrated /\ sel = selected
    OBVIOUS
<1>2. sel \in Seq(AllCandidates) /\ Len(sel) \in Nat
    BY <1>1, LenProperties
<1>3. PICK v : HydrationBuilt(rows, sel, v)
    BY <1>2, HydrationGrows
<1> DEFINE n == Len(sel)
           w == ResultOf(rows, sel)
<1>4. Hydrating!Grows(rows, n, w, v) /\ v[n] = Results
    BY <1>1, <1>3, ResultsFolded DEF HydrationBuilt
<1>5. PICK from : Hydrating!Grown(n, w, v, from)
    BY <1>2, <1>4, Hydrating!GrowthKeepsOrder
<1>6. Results \in Seq(hydrated)
    BY <1>1, <1>2, <1>4 DEF Hydrating!Grows
<1>7. ASSUME NEW i \in 1 .. Len(Results)
      PROVE  \E k \in 1 .. Len(selected) : Key(Results[i]) = Key(selected[k])
    <2>1. /\ from[i] \in 1 .. n /\ Results[i] = w[from[i]]
          /\ Len(v[from[i] - 1]) = i - 1 /\ Len(v[from[i]]) = i
        BY <1>4, <1>5, <1>7 DEF Hydrating!Grown
    <2>2. PICK k \in 1 .. n : k = from[i]
        BY <2>1
    <2>3. v[k] # v[k - 1]
        BY <2>1, <2>2
    <2>4. HitsIn(rows, sel[k]) # {}
        BY <1>3, <2>2, <2>3 DEF HydrationBuilt
    <2>5. Results[i] \in HitsIn(rows, sel[k])
        BY <2>1, <2>2, <2>4 DEF ResultOf, ThatOf
    <2> QED BY <1>1, <2>2, <2>5 DEF HitsIn
<1> QED BY <1>6, <1>7

\* What has been kept after each result.
KeptBy(n, v) == [k \in 0 .. n |-> v[k].kept]

LEMMA FittedGrows ==
    ASSUME NEW results \in Seq(Hits), NEW v, FittingBuilt(results, v)
    PROVE  Fitting!Grows(Hits, Len(results), results, KeptBy(Len(results), v))
<1> DEFINE n == Len(results)
           kept == KeptBy(n, v)
<1>0. n \in Nat /\ \A k \in 1 .. n : results[k] \in Hits
    BY LenProperties, ElementOfSeq
<1>1. v \in [0 .. n -> Fits] /\ v[0].kept = <<>>
    BY DEF FittingBuilt
<1>2. \A k \in 0 .. n : kept[k] = v[k].kept /\ kept[k] \in Seq(Hits)
    BY <1>1 DEF KeptBy, Fits
<1>3. kept \in [0 .. n -> Seq(Hits)] /\ kept[0] = <<>>
    BY <1>0, <1>1, <1>2 DEF KeptBy
<1>4. ASSUME NEW k \in 1 .. n
      PROVE  \/ kept[k] = kept[k - 1]
             \/ results[k] \in Hits /\ kept[k] = Append(kept[k - 1], results[k])
    <2>1. kept[k] = v[k].kept /\ kept[k - 1] = v[k - 1].kept
        BY <1>0, <1>2
    <2> QED BY <1>0, <2>1 DEF FittingBuilt
<1> HIDE DEF kept
<1>5. Fitting!Grows(Hits, n, results, kept)
    BY <1>3, <1>4 DEF Fitting!Grows
<1> QED BY <1>5 DEF kept

\* What fits was among the results.
LEMMA FittedAreResults ==
    ASSUME NEW results \in Seq(Hits)
    PROVE  /\ FitSearchContext(results) \in Seq(Hits)
           /\ \A i \in 1 .. Len(FitSearchContext(results)) :
                 \E k \in 1 .. Len(results) : FitSearchContext(results)[i] = results[k]
<1>0. Len(results) \in Nat
    BY LenProperties
<1>1. PICK v : FittingBuilt(results, v)
    BY FittingGrows
<1> DEFINE n == Len(results)
           kept == KeptBy(n, v)
<1>2. Fitting!Grows(Hits, n, results, kept)
    BY <1>1, FittedGrows
<1>3. PICK from : Fitting!Grown(n, results, kept, from)
    BY <1>0, <1>2, Fitting!GrowthKeepsOrder
<1>4. kept[n] = FitSearchContext(results)
    BY <1>0, <1>1 DEF KeptBy, FittingBuilt
<1>5. kept[n] \in Seq(Hits)
    BY <1>0, <1>2 DEF Fitting!Grows
<1>6. \A i \in 1 .. Len(kept[n]) : from[i] \in 1 .. n /\ kept[n][i] = results[from[i]]
    BY <1>3 DEF Fitting!Grown
<1> QED BY <1>4, <1>5, <1>6

-----------------------------------------------------------------------------
(* The invariant.                                                          *)

LEMMA PlansAreRankings == \A r : Plan(r) \in Seq(Rankings)
<1> SUFFICES ASSUME NEW r PROVE Plan(r) \in Seq(Rankings)
    OBVIOUS
<1> DEFINE asked(statement, wanted) == IF wanted THEN <<statement>> ELSE <<>>
<1>1. \A wanted : \A s \in Rankings : asked(s, wanted) \in Seq(Rankings)
    BY EmptySeq
<1>2. {"semantic_memories", "lexical_memories", "semantic_chunks", "lexical_chunks"}
          \subseteq Rankings
    BY DEF Rankings, Statements
<1>3. PICK a, b, c, d \in Seq(Rankings) :
          /\ a = asked("semantic_memories", r.mode # "documents" /\ r.semantic)
          /\ b = asked("lexical_memories", r.mode # "documents" /\ r.lexical)
          /\ c = asked("semantic_chunks", r.mode # "memories" /\ r.semantic)
          /\ d = asked("lexical_chunks", r.mode # "memories" /\ r.lexical)
    BY <1>1, <1>2
<1>4. Plan(r) = a \o b \o c \o d
    BY <1>3 DEF Plan
<1>5. \A s, t \in Seq(Rankings) : s \o t \in Seq(Rankings)
    BY ConcatProperties
<1> QED BY <1>4, <1>5

LEMMA SearchInitInv == Init => SearchInv
<1> SUFFICES ASSUME Init PROVE SearchInv
    OBVIOUS
<1>1. PoolTypeOK
    BY PoolInitInv DEF Init, PoolInv
<1>2. TablesTyped
    BY SearchAssumption DEF Init, TablesTyped
<1>3. request \in Requests
    BY SearchAssumption DEF Init
<1>4. SearchTyped
    BY <1>3, SearchAssumption, EmptySeq DEF Init, SearchTyped
<1>5. ChunkInv
    <2>1. chunks = InitialChunks /\ nextStable = LargestRow(InitialChunks) + 1
        BY DEF Init
    <2>2. PICK top \in Nat : \A c \in InitialChunks : c.row <= top
        BY InitialNumbers
    <2>3. \A c \in InitialChunks : c.row \in Nat /\ c.stable = c.row
        BY InitialNumbers DEF Chunk
    <2>4. LargestRow(InitialChunks) \in Nat /\ \A c \in InitialChunks : c.row <= LargestRow(InitialChunks)
        BY <2>2, <2>3, LargestIsLargest
    <2>5. \A c \in InitialChunks : c.stable < LargestRow(InitialChunks) + 1
        BY <2>3, <2>4
    <2>6. \A b, c \in InitialChunks : b.stable = c.stable => b = c
        BY <2>3, InitialNumbers
    <2>7. Numbered
        BY <2>1, <2>2, <2>4, <2>5, InitialNumbers DEF Numbered
    <2>8. IdIsText
        BY <2>1, <2>6 DEF IdIsText, SameText
    <2> QED BY <2>7, <2>8 DEF ChunkInv
<1>6. CandidatesCited
    <2>1. found = [ranking \in Rankings |-> <<>>] /\ selected = <<>>
        BY DEF Init, Nothing
    <2>2. <<>> \in Seq(AllCandidates) /\ Elements(<<>>) = {}
        BY EmptySeq DEF Elements
    <2> QED BY <2>1, <2>2 DEF CandidatesCited, Lists, Cited
<1>7. Hydrated
    BY DEF Init, Hydrated
<1>8. QuotesWhatWasRanked
    BY DEF Init, QuotesWhatWasRanked
<1> QED BY <1>1, <1>2, <1>4, <1>5, <1>6, <1>7, <1>8 DEF SearchInv

\* Steps that leave the search as it is.
LEMMA SearchKept ==
    ASSUME SearchInv, PoolTypeOK', UNCHANGED <<tables, search>>
    PROVE  SearchInv'
<1>1. TablesTyped' /\ SearchTyped'
    BY DEF SearchInv, TablesTyped, SearchTyped, tables, search
<1>2. ChunkInv'
    BY DEF SearchInv, ChunkInv, Numbered, IdIsText, SameText, tables
<1>3. CandidatesCited'
    BY DEF SearchInv, CandidatesCited, Cited, Elements, SameText, tables, search
<1>4. Hydrated'
    BY DEF SearchInv, Hydrated, Elements, SameText, search
<1>5. QuotesWhatWasRanked'
    BY DEF SearchInv, QuotesWhatWasRanked, search
<1> QED BY <1>1, <1>2, <1>3, <1>4, <1>5 DEF SearchInv

\* ... and those that leave the numbers and texts of chunks.
LEMMA TextsKept ==
    ASSUME SearchInv, UNCHANGED <<chunks, nextStable>>
    PROVE  ChunkInv' /\ \A seen : Cited(seen) => Cited(seen)'
BY DEF SearchInv, ChunkInv, Numbered, IdIsText, SameText, Cited

LEMMA WriteKeepsSearchInv ==
    ASSUME SearchInv, PoolTypeOK', Write
    PROVE  SearchInv'
<1>1. UNCHANGED search
    BY DEF Write, Submit, Finish, Publish, Hide
<1>2. TablesTyped'
    <2>1. ASSUME NEW d \in Documents, Submit(d) \/ Finish(d) PROVE TablesTyped'
        BY <2>1 DEF Submit, Finish, TablesTyped, SearchInv
    <2>2. ASSUME NEW d \in Documents, NEW texts \in Cuttings(MaxChunks), Publish(d, texts)
          PROVE  TablesTyped'
        <3>1. publications' \in 0 .. MaxPublications
            BY <2>2, SearchAssumption DEF Publish, TablesTyped, SearchInv
        <3> QED BY <2>2, <3>1 DEF Publish, TablesTyped, SearchInv
    <2>3. ASSUME NEW m \in Memories, Hide(m) PROVE TablesTyped'
        BY <2>3 DEF Hide, TablesTyped, SearchInv
    <2> QED BY <2>1, <2>2, <2>3 DEF Write
<1>3. ChunkInv' /\ \A seen : seen \subseteq AllCandidates /\ Cited(seen) => Cited(seen)'
    <2>1. CASE \E d \in Documents, texts \in Cuttings(MaxChunks) : Publish(d, texts)
        BY <2>1, PublishKeepsIds DEF SearchInv
    <2>2. CASE UNCHANGED <<chunks, nextStable>>
        BY <2>2, TextsKept
    <2> QED BY <2>1, <2>2 DEF Write, Submit, Finish, Hide
<1>4. ASSUME NEW s, s \in Seq(AllCandidates) PROVE Elements(s) \subseteq AllCandidates
    BY <1>4, LenProperties, ElementOfSeq DEF Elements
<1>5. CandidatesCited'
    <2>1. found' = found /\ selected' = selected
        BY <1>1 DEF search
    <2>2. PICK lists, sel : lists = found /\ sel = selected
        OBVIOUS
    <2>3. /\ lists \in Lists /\ sel \in Seq(AllCandidates)
          /\ \A ranking \in Rankings : Cited(Elements(lists[ranking]))
          /\ Cited(Elements(sel))
        BY <2>2 DEF SearchInv, CandidatesCited
    <2>4. Cited(Elements(sel))'
        BY <1>3, <1>4, <2>3
    <2>5. ASSUME NEW ranking \in Rankings PROVE Cited(Elements(lists[ranking]))'
        <3>1. lists[ranking] \in Seq(AllCandidates)
            BY <2>3 DEF Lists
        <3> QED BY <1>3, <1>4, <2>3, <3>1
    <2>6. found' = lists /\ selected' = sel
        BY <2>1, <2>2
    <2>7. \A ranking \in Rankings : Cited(Elements(lists[ranking]))'
        BY <2>5
    <2> QED BY <2>3, <2>4, <2>6, <2>7 DEF CandidatesCited, Cited, SameText
<1>6. SearchTyped' /\ Hydrated' /\ QuotesWhatWasRanked'
    BY <1>1 DEF SearchInv, SearchTyped, Hydrated, Elements, SameText,
                QuotesWhatWasRanked, search
<1> QED BY <1>2, <1>3, <1>5, <1>6 DEF SearchInv

\* The texts that are listed stay cited as long as the lists stay.
LEMMA CitationsKept ==
    ASSUME SearchInv, UNCHANGED <<chunks, nextStable, found, selected>>
    PROVE  CandidatesCited'
BY DEF SearchInv, CandidatesCited, Cited, Elements, SameText

LEMMA BeginKeepsSearchInv ==
    ASSUME SearchInv, PoolTypeOK', NEW r \in Requests, Begin(r)
    PROVE  SearchInv'
<1>1. /\ phase' = "ranking" /\ request' = r /\ found' = Nothing /\ selected' = <<>>
      /\ hydrated' = {} /\ answer' = <<>> /\ UNCHANGED tables
      /\ todo' = Plan(r) \o (IF r.api = "v3" THEN <<"hydrate_chunks">> ELSE <<>>)
    BY DEF Begin
<1>2. TablesTyped' /\ ChunkInv'
    BY <1>1, TextsKept DEF SearchInv, TablesTyped, tables
<1>3. Plan(r) \in Seq(Rankings)
    BY PlansAreRankings
<1>4. todo' \in Seq(Statements) /\ (r.api = "v4" => todo' \in Seq(Rankings))
    <2>1. PICK plan \in Seq(Rankings) : plan = Plan(r)
        BY <1>3
    <2>2. plan \in Seq(Statements) /\ Rankings \subseteq Statements
        BY <2>1 DEF Rankings
    <2>3. <<"hydrate_chunks">> \in Seq(Statements)
        BY DEF Statements
    <2>4. CASE r.api = "v3"
        <3>1. todo' = plan \o <<"hydrate_chunks">>
            BY <1>1, <2>1, <2>4
        <3> QED BY <2>2, <2>3, <2>4, <3>1, ConcatProperties
    <2>5. CASE r.api # "v3"
        <3>1. todo' = plan \o <<>>
            BY <1>1, <2>1, <2>5
        <3>2. todo' = plan
            BY <3>1, <2>1, ConcatEmptySeq
        <3> QED BY <2>1, <2>2, <3>2
    <2> QED BY <2>4, <2>5
<1>5. SearchTyped'
    BY <1>1, <1>4 DEF SearchTyped
<1>6. CandidatesCited'
    <2>1. <<>> \in Seq(AllCandidates) /\ Elements(<<>>) = {}
        BY EmptySeq DEF Elements
    <2>2. Nothing \in Lists /\ \A ranking \in Rankings : Elements(Nothing[ranking]) = {}
        BY <2>1 DEF Nothing, Lists
    <2>3. \A ranking \in Rankings : Elements(found'[ranking]) = {}
        BY <1>1, <2>2
    <2>4. Elements(selected') = {}
        BY <1>1, <2>1
    <2>5. found' \in Lists /\ selected' \in Seq(AllCandidates)
        BY <1>1, <2>1, <2>2
    <2> QED BY <2>3, <2>4, <2>5 DEF CandidatesCited, Cited
<1>7. Hydrated' /\ QuotesWhatWasRanked'
    BY <1>1, <1>4 DEF Hydrated, QuotesWhatWasRanked
<1> QED BY <1>2, <1>5, <1>6, <1>7 DEF SearchInv

\* What a statement finds is what chunks say now.
LEMMA RankKeepsSearchInv ==
    ASSUME SearchInv, PoolTypeOK', Rank
    PROVE  SearchInv'
<1>1. /\ todo # <<>> /\ Head(todo) \in Rankings /\ todo' = Tail(todo)
      /\ UNCHANGED <<pool, tables, phase, request, selected, hydrated, answer>>
    BY DEF Rank
<1>2. PICK ranking, list :
         /\ ranking = Head(todo) /\ list \in Ranked(Candidates(ranking))
         /\ found' = [found EXCEPT ![ranking] = list]
    BY DEF Rank
<1>3. TablesTyped' /\ ChunkInv'
    BY <1>1, TextsKept DEF SearchInv, TablesTyped, tables
<1>4. /\ todo' \in Seq(Statements)
      /\ todo \in Seq(Rankings) => todo' \in Seq(Rankings)
    <2>1. todo \in Seq(Statements)
        BY DEF SearchInv, SearchTyped
    <2>2. todo' \in Seq(Statements)
        BY <1>1, <2>1, HeadTailProperties
    <2>3. todo \in Seq(Rankings) => todo' \in Seq(Rankings)
        BY <1>1, HeadTailProperties
    <2> QED BY <2>2, <2>3
<1>5. SearchTyped'
    BY <1>1, <1>4 DEF SearchInv, SearchTyped
<1>6. /\ Candidates(ranking) \subseteq AllCandidates
      /\ Cited(Candidates(ranking))
    <2>1. \A m \in visible : MemoryCandidate(m) \in MemoryCandidates
        BY DEF SearchInv, TablesTyped, MemoryCandidate, MemoryCandidates
    <2>2. ASSUME NEW c \in chunks
          PROVE  /\ ChunkCandidate(c) \in ChunkCandidates
                 /\ ChunkCandidate(c).id = c.stable /\ SameText(ChunkCandidate(c), c)
        BY DEF SearchInv, ChunkInv, Numbered, Chunk, ChunkCandidate, ChunkCandidates, SameText
    <2>3. ASSUME NEW a \in Candidates(ranking)
          PROVE  \/ \E m \in visible : a = MemoryCandidate(m)
                 \/ \E c \in chunks : a = ChunkCandidate(c)
        BY DEF Candidates, Searchable
    <2>4. Candidates(ranking) \subseteq AllCandidates
        BY <2>1, <2>2, <2>3 DEF AllCandidates
    <2>5. ASSUME NEW a \in Candidates(ranking), a.kind = "chunk"
          PROVE  a.id < nextStable /\ \A c \in chunks : c.stable = a.id => SameText(a, c)
        <3>1. ~\E m \in visible : a = MemoryCandidate(m)
            BY <2>5 DEF MemoryCandidate
        <3>2. PICK x \in chunks : a = ChunkCandidate(x)
            BY <2>3, <3>1
        <3>3. a.id = x.stable /\ SameText(a, x)
            BY <2>2, <3>2
        <3>4. x.stable < nextStable /\ \A c \in chunks : c.stable = x.stable => SameText(x, c)
            BY DEF SearchInv, ChunkInv, Numbered, IdIsText, SameText
        <3> QED BY <3>3, <3>4 DEF SameText
    <2> QED BY <2>4, <2>5 DEF Cited
<1>7. list \in Seq(Candidates(ranking))
    <2>1. PICK n \in 0 .. CandidateLimit : list \in [1 .. n -> Candidates(ranking)]
        BY <1>2 DEF Ranked
    <2>2. n \in Nat
        BY SearchAssumption
    <2> QED BY <2>1, <2>2
<1>8. list \in Seq(AllCandidates) /\ Elements(list) \subseteq Candidates(ranking)
    BY <1>6, <1>7, LenProperties, ElementOfSeq DEF Elements
<1>9. Cited(Elements(list))
    BY <1>6, <1>8 DEF Cited
<1>10. CandidatesCited'
    <2>1. ranking \in Rankings /\ found \in Lists
        BY <1>1, <1>2 DEF SearchInv, CandidatesCited
    <2>2. /\ found' \in Lists /\ found'[ranking] = list
          /\ \A other \in Rankings \ {ranking} : found'[other] = found[other]
        BY <1>2, <1>8, <2>1 DEF Lists
    <2>3. \A other \in Rankings : Cited(Elements(found[other]))
        BY DEF SearchInv, CandidatesCited
    <2>4. \A other \in Rankings : Cited(Elements(found'[other]))
        BY <1>9, <2>2, <2>3
    <2>5. selected' = selected /\ chunks' = chunks /\ nextStable' = nextStable
        BY <1>1 DEF tables
    <2>6. \A other \in Rankings : Cited(Elements(found[other]))'
        BY <2>4, <2>5 DEF Cited, SameText, Elements
    <2>7. selected' \in Seq(AllCandidates) /\ Cited(Elements(selected))'
        BY <2>5 DEF SearchInv, CandidatesCited, Cited, SameText, Elements
    <2> QED BY <2>2, <2>6, <2>7 DEF CandidatesCited
<1>11. Hydrated'
    BY <1>1, <1>4 DEF SearchInv, Hydrated, Elements, SameText
<1>12. QuotesWhatWasRanked'
    BY <1>1 DEF SearchInv, QuotesWhatWasRanked
<1> QED BY <1>3, <1>5, <1>10, <1>11, <1>12 DEF SearchInv

LEMMA EndRankingKeepsSearchInv ==
    ASSUME SearchInv, PoolTypeOK', EndRanking
    PROVE  SearchInv'
<1>1. /\ phase = "ranking" /\ request.api = "v4" /\ phase' = "hydrating"
      /\ selected' = SelectDiverse(Ordered(found), request)
      /\ todo' = <<"hydrate_memories", "hydrate_chunks">>
      /\ UNCHANGED <<tables, request, found, hydrated, answer>>
    BY DEF EndRanking
<1>2. TablesTyped' /\ ChunkInv'
    BY <1>1, TextsKept DEF SearchInv, TablesTyped, tables
<1>3. SearchTyped'
    <2>1. <<"hydrate_memories", "hydrate_chunks">> \in Seq(Statements)
        BY DEF Statements
    <2> QED BY <1>1, <2>1 DEF SearchInv, SearchTyped
<1>4. PICK lists \in Lists : lists = found
    BY DEF SearchInv, CandidatesCited
<1>5. /\ selected' \in Seq(AllCandidates)
      /\ \A a \in Elements(selected') : \E ranking \in Rankings : a \in Elements(lists[ranking])
    BY <1>1, <1>4, SelectionIsFound
<1>6. \A ranking \in Rankings : Cited(Elements(lists[ranking]))
    BY <1>4 DEF SearchInv, CandidatesCited
<1>7. Cited(Elements(selected'))
    BY <1>5, <1>6 DEF Cited
<1>8. CandidatesCited'
    <2>1. found' = lists /\ chunks' = chunks /\ nextStable' = nextStable
        BY <1>1, <1>4 DEF tables
    <2>2. Cited(Elements(selected))'
        BY <1>7, <2>1 DEF Cited, SameText, Elements
    <2>3. \A ranking \in Rankings : Cited(Elements(found[ranking]))'
        BY <1>6, <2>1 DEF Cited, SameText, Elements
    <2> QED BY <1>5, <2>1, <2>2, <2>3 DEF CandidatesCited
<1>9. Hydrated' /\ QuotesWhatWasRanked'
    BY <1>1 DEF SearchInv, Hydrated, QuotesWhatWasRanked
<1> QED BY <1>2, <1>3, <1>8, <1>9 DEF SearchInv

\* Whichever rows are to be read.
LEMMA ChosenAreCandidates ==
    ASSUME SearchInv
    PROVE  Chosen \in Seq(AllCandidates)
<1>1. PICK a, b \in Seq(AllCandidates) :
          a = found["semantic_chunks"] /\ b = found["lexical_chunks"]
    BY DEF SearchInv, CandidatesCited, Lists, Rankings, Statements
<1>2. a \o b \in Seq(AllCandidates)
    BY ConcatProperties
<1> QED BY <1>1, <1>2 DEF Chosen, SearchInv, CandidatesCited

\* A row that is read says what was ranked under its id.
LEMMA HydrationKeepsSearchInv ==
    ASSUME SearchInv, PoolTypeOK', HydrateMemories \/ HydrateChunks
    PROVE  SearchInv'
<1>1. /\ todo # <<>> /\ Head(todo) \in {"hydrate_memories", "hydrate_chunks"}
      /\ todo' = Tail(todo)
      /\ UNCHANGED <<tables, phase, request, found, selected, answer>>
    BY DEF HydrateMemories, HydrateChunks
<1>2. TablesTyped' /\ ChunkInv'
    BY <1>1, TextsKept DEF SearchInv, TablesTyped, tables
<1>3. SearchTyped'
    <2>1. todo' \in Seq(Statements)
        BY <1>1, HeadTailProperties DEF SearchInv, SearchTyped
    <2> QED BY <1>1, <2>1 DEF SearchInv, SearchTyped
<1>4. CandidatesCited'
    BY <1>1, CitationsKept DEF tables
<1>5. QuotesWhatWasRanked'
    BY <1>1 DEF SearchInv, QuotesWhatWasRanked
<1>6. ~(phase = "ranking" /\ request.api = "v4")
    <2>1. todo \in Seq(Rankings) => Head(todo) \in Rankings
        BY <1>1, HeadTailProperties
    <2> QED BY <1>1, <2>1 DEF SearchInv, Hydrated, Rankings
<1>7. ASSUME NEW hit \in hydrated'
      PROVE  /\ hit \in Hits
             /\ \A a \in Elements(selected) :
                   a.kind = "chunk" /\ Key(hit) = Key(a) => SameText(hit, a)
    <2>1. CASE hit \in hydrated
        BY <2>1 DEF SearchInv, Hydrated
    <2>2. CASE HydrateMemories /\ hit \notin hydrated
        <3>1. PICK i \in DOMAIN Chosen :
                  /\ Chosen[i].kind = "memory"
                  /\ hit = [kind |-> "memory", id |-> Chosen[i].id, text |-> Chosen[i].id]
            BY <2>2 DEF HydrateMemories
        <3>2. Chosen[i] \in AllCandidates
            BY <3>1, ChosenAreCandidates, LenProperties, ElementOfSeq
        <3>3. Chosen[i].id \in Memories
            BY <3>1, <3>2 DEF AllCandidates, MemoryCandidates, ChunkCandidates
        <3>4. \A a : Key(hit) = Key(a) => a.kind = "memory"
            BY <3>1 DEF Key
        <3> QED BY <3>1, <3>3, <3>4 DEF Hits
    <2>3. CASE HydrateChunks /\ hit \notin hydrated
        <3>1. PICK c \in chunks :
                  hit = [kind |-> "chunk", id |-> c.stable, row |-> c.row, text |-> c.text,
                         document |-> c.document]
            BY <2>3 DEF HydrateChunks
        <3>2. hit \in Hits
            BY <3>1 DEF Hits, SearchInv, ChunkInv, Numbered, Chunk
        <3>3. ASSUME NEW a \in Elements(selected), a.kind = "chunk", Key(hit) = Key(a)
              PROVE  SameText(hit, a)
            <4>1. a.id = c.stable
                BY <3>1, <3>3 DEF Key
            <4>2. SameText(a, c)
                BY <3>3, <4>1 DEF SearchInv, CandidatesCited, Cited
            <4> QED BY <3>1, <4>2 DEF SameText
        <3> QED BY <3>2, <3>3
    <2> QED BY <2>1, <2>2, <2>3
<1>8. Hydrated'
    <2>1. phase' = phase /\ request' = request /\ selected' = selected
        BY <1>1
    <2>2. hydrated' \subseteq Hits
        BY <1>7
    <2> QED BY <1>6, <1>7, <2>1, <2>2 DEF Hydrated, Elements, SameText
<1> QED BY <1>2, <1>3, <1>4, <1>5, <1>8 DEF SearchInv

LEMMA AnswerKeepsSearchInv ==
    ASSUME SearchInv, PoolTypeOK', Answer
    PROVE  SearchInv'
<1>1. /\ phase' = "answered"
      /\ request.api = "v4" => answer' = FitSearchContext(Results)
      /\ UNCHANGED <<tables, request, todo, found, selected, hydrated>>
    BY DEF Answer
<1>2. TablesTyped' /\ ChunkInv'
    BY <1>1, TextsKept DEF SearchInv, TablesTyped, tables
<1>3. SearchTyped' /\ CandidatesCited'
    BY <1>1, CitationsKept DEF SearchInv, SearchTyped, tables
<1>4. Hydrated'
    BY <1>1 DEF SearchInv, Hydrated, Elements, SameText
<1>5. selected \in Seq(AllCandidates) /\ hydrated \subseteq Hits
    BY DEF SearchInv, CandidatesCited, Hydrated
<1>6. /\ Results \in Seq(hydrated)
      /\ \A i \in 1 .. Len(Results) : \E k \in 1 .. Len(selected) :
            Key(Results[i]) = Key(selected[k])
    BY <1>5, ResultsAreHits
<1>7. PICK results : results = Results
    OBVIOUS
<1>8. /\ results \in Seq(hydrated) /\ Len(results) \in Nat
      /\ \A k \in 1 .. Len(results) : results[k] \in hydrated
    BY <1>6, <1>7, LenProperties, ElementOfSeq
<1>9. results \in Seq(Hits)
    BY <1>5, <1>8
<1>10. /\ FitSearchContext(results) \in Seq(Hits)
       /\ \A i \in 1 .. Len(FitSearchContext(results)) :
             \E k \in 1 .. Len(results) : FitSearchContext(results)[i] = results[k]
    BY <1>9, FittedAreResults
<1>11. ASSUME request.api = "v4", NEW i \in DOMAIN answer'
       PROVE  \E j \in DOMAIN selected :
                  /\ Key(selected[j]) = Key(answer'[i])
                  /\ answer'[i].kind = "chunk" => SameText(answer'[i], selected[j])
    <2>1. answer' = FitSearchContext(results)
        BY <1>1, <1>7, <1>11
    <2>2. PICK k \in 1 .. Len(results) : answer'[i] = results[k]
        BY <1>10, <1>11, <2>1, LenProperties
    <2>3. PICK j \in 1 .. Len(selected) : Key(results[k]) = Key(selected[j])
        BY <1>6, <1>7
    <2>4. j \in DOMAIN selected /\ selected[j] \in Elements(selected)
        BY <1>5, LenProperties DEF Elements
    <2>5. results[k] \in hydrated
        BY <1>8
    <2>6. answer'[i].kind = "chunk" => selected[j].kind = "chunk"
        BY <2>2, <2>3 DEF Key
    <2> QED BY <2>2, <2>3, <2>4, <2>5, <2>6 DEF SearchInv, Hydrated
<1>12. QuotesWhatWasRanked'
    BY <1>1, <1>11 DEF QuotesWhatWasRanked, SameText, Key
<1> QED BY <1>2, <1>3, <1>4, <1>12 DEF SearchInv

LEMMA FailKeepsSearchInv ==
    ASSUME SearchInv, PoolTypeOK', Fail
    PROVE  SearchInv'
<1>1. /\ phase' = "failed"
      /\ UNCHANGED <<tables, request, todo, found, selected, hydrated, answer>>
    BY DEF Fail
<1>2. TablesTyped' /\ ChunkInv'
    BY <1>1, TextsKept DEF SearchInv, TablesTyped, tables
<1>3. SearchTyped' /\ CandidatesCited'
    BY <1>1, CitationsKept DEF SearchInv, SearchTyped, tables
<1>4. Hydrated' /\ QuotesWhatWasRanked'
    BY <1>1 DEF SearchInv, Hydrated, Elements, SameText, QuotesWhatWasRanked
<1> QED BY <1>2, <1>3, <1>4 DEF SearchInv

LEMMA SearchInvStep ==
    ASSUME SearchInv, PoolTypeOK', [Next]_vars
    PROVE  SearchInv'
<1>1. CASE UNCHANGED <<tables, search>>
    BY <1>1, SearchKept
<1>2. CASE SearchStep
    BY <1>1, <1>2, BeginKeepsSearchInv, RankKeepsSearchInv, EndRankingKeepsSearchInv,
       HydrationKeepsSearchInv, AnswerKeepsSearchInv, FailKeepsSearchInv
       DEF SearchStep, Statement, AskForHydration
<1>3. CASE Write
    BY <1>3, WriteKeepsSearchInv
<1> QED BY <1>1, <1>2, <1>3 DEF Next, OtherRead, LeftBehind, vars

\* Types and the invariant of a search.
THEOREM SearchConsistent == Spec => [](PoolInv /\ SearchInv)
<1>1. Init => PoolInv /\ SearchInv
    BY PoolInitInv, SearchInitInv DEF Init
<1>2. PoolInv /\ SearchInv /\ [Next]_vars => (PoolInv /\ SearchInv)'
    <2>1. PoolInv /\ [Next]_vars => PoolInv'
        BY SearchUsesThePool, PoolStepInv, AbandonedInv, PoolStutterInv
    <2>2. PoolInv' => PoolTypeOK'
        BY DEF PoolInv
    <2> QED BY <2>1, <2>2, SearchInvStep
<1> QED BY <1>1, <1>2, PTL DEF Spec

\* Every variable of a search and of the pool keeps its type.
THEOREM SearchTypes == Spec => []TypeOK
<1>1. PoolInv /\ SearchInv => TypeOK
    <2>1. SearchInv => chunks \in SUBSET Chunk /\ nextStable \in Nat
        BY DEF SearchInv, ChunkInv, Numbered
    <2>2. SearchInv => DOMAIN found = Rankings
        BY DEF SearchInv, CandidatesCited, Lists
    <2> QED BY <2>1, <2>2 DEF PoolInv, SearchInv, TablesTyped, SearchTyped, TypeOK
<1> QED BY <1>1, SearchConsistent, PTL

\* Rows are ranked in one read and hydrated by rowid in another, while the
\* writer replaces documents and rowids come back: every result of /v4 says
\* what the chunk that was ranked said, under the document it was selected for
\* (results_by_id in crates/server/src/search_engine.rs).
THEOREM AnswersQuoteTheRanking == Spec => []QuotesWhatWasRanked
<1>1. SearchInv => QuotesWhatWasRanked
    BY DEF SearchInv
<1> QED BY <1>1, SearchConsistent, PTL

-----------------------------------------------------------------------------
(* Order, limit and budget of an answer.                                   *)

\* A prefix grows by one.
LEMMA PrefixGrows ==
    ASSUME NEW T, NEW s \in Seq(T), NEW m \in 0 .. Len(s) - 1
    PROVE  /\ SubSeq(s, 1, m) \in Seq(T) /\ s[m + 1] \in T
           /\ SubSeq(s, 1, m + 1) = Append(SubSeq(s, 1, m), s[m + 1])
<1>0. Len(s) \in Nat /\ m + 1 \in 1 .. Len(s) /\ \A i \in 1 .. Len(s) : s[i] \in T
    BY LenProperties, ElementOfSeq
<1>1. /\ Len(SubSeq(s, 1, m)) = m /\ Len(SubSeq(s, 1, m + 1)) = m + 1
      /\ SubSeq(s, 1, m) \in Seq(T) /\ SubSeq(s, 1, m + 1) \in Seq(T)
      /\ \A i \in 1 .. m : SubSeq(s, 1, m)[i] = s[i]
      /\ \A i \in 1 .. m + 1 : SubSeq(s, 1, m + 1)[i] = s[i]
    BY <1>0
<1>2. PICK p, q \in Seq(T) : p = SubSeq(s, 1, m) /\ q = SubSeq(s, 1, m + 1)
    BY <1>1
<1>3. /\ Append(p, s[m + 1]) \in Seq(T) /\ Len(Append(p, s[m + 1])) = m + 1
      /\ \A i \in 1 .. m : Append(p, s[m + 1])[i] = p[i]
      /\ Append(p, s[m + 1])[m + 1] = s[m + 1]
    BY <1>0, <1>1, <1>2, AppendProperties
<1>4. Len(q) = m + 1 /\ \A i \in 1 .. m + 1 : q[i] = Append(p, s[m + 1])[i]
    BY <1>1, <1>2, <1>3
<1>5. q = Append(p, s[m + 1])
    BY <1>3, <1>4, SeqEqual
<1> QED BY <1>0, <1>1, <1>2, <1>5

\* A better candidate has no less evidence, and none is better than itself.
LEMMA BetterIsNotLess ==
    ASSUME NEW lists \in Lists, NEW a \in Fused(lists), NEW b \in Fused(lists)
    PROVE  /\ Score(lists, Key(a)) \in Int
           /\ Better(lists, a, b) =>
                 /\ Score(lists, Key(a)) >= Score(lists, Key(b))
                 /\ a # b /\ ~Better(lists, b, a)
           /\ Score(lists, Key(a)) > Score(lists, Key(b)) => Better(lists, a, b)
<1>1. Score(lists, Key(a)) \in Int /\ Score(lists, Key(b)) \in Int
    BY ScoresAreNumbers
<1>2. \A c \in Fused(lists) : c.id \in Nat /\ c.kind \in {"memory", "chunk"}
    BY FusedOnce, SearchAssumption DEF AllCandidates, MemoryCandidates, ChunkCandidates
<1> QED BY <1>1, <1>2 DEF Better

\* A better chunk of the same document.
RedundantFor(lists, r, c) ==
    r.aggregate /\ Further(lists, c)

SelectionRight(lists, r, s) ==
    /\ s \in Seq(Fused(lists))
    /\ Len(s) <= r.limit
    /\ \A j, k \in 1 .. Len(s) : j < k => Better(lists, s[j], s[k])
    /\ \A c \in Fused(lists) :
          \/ \E i \in 1 .. Len(s) : s[i] = c
          \/ RedundantFor(lists, r, c)
          \/ Len(s) = r.limit /\ \A i \in 1 .. Len(s) : Better(lists, s[i], c)

LEMMA SelectsTheBest ==
    ASSUME NEW lists \in Lists, NEW r \in Request
    PROVE  SelectionRight(lists, r, SelectDiverse(Ordered(lists), r))
<1> DEFINE F == Fused(lists)
<1>1. PICK order \in Seq(F) : order = Ordered(lists) /\ Sorted(lists, order)
    BY OrderedSorts DEF Sorted
<1>2. PICK n \in Nat : n = Len(order)
    BY LenProperties
<1>3. PICK v : SelectionBuilt(F, order, r, v)
    BY SelectionGrows
<1>4. /\ Selecting!Grows(F, n, order, v)
      /\ v[n] = SelectDiverse(Ordered(lists), r)
      /\ \A k \in 1 .. n : v[k] = SelectOne(r, v[k - 1], order[k])
    BY <1>1, <1>2, <1>3 DEF SelectionBuilt
<1>5. PICK from : Selecting!Grown(n, order, v, from)
    BY <1>4, Selecting!GrowthKeepsOrder
<1>6. PICK s : s = v[n]
    OBVIOUS
<1>7. /\ \A k \in 0 .. n : v[k] \in Seq(F) /\ Len(v[k]) \in Nat
      /\ v[0] = <<>> /\ Len(v[0]) = 0
    BY <1>4, LenProperties, EmptySeq DEF Selecting!Grows
<1>8. s \in Seq(F) /\ Len(s) \in Nat
    BY <1>6, <1>7
<1>9. /\ from \in [1 .. Len(s) -> 1 .. n]
      /\ \A i, j \in 1 .. Len(s) : i < j => from[i] < from[j]
      /\ \A i \in 1 .. Len(s) : s[i] = order[from[i]]
      /\ \A k \in 1 .. n : v[k] = v[k - 1] \/ \E i \in 1 .. Len(s) : from[i] = k
      /\ \A k \in 0 .. n : /\ Len(v[k]) \in 0 .. Len(s)
                           /\ \A i \in 1 .. Len(v[k]) : s[i] = v[k][i] /\ from[i] <= k
    BY <1>5, <1>6 DEF Selecting!Grown
<1>10. r.limit \in Nat
    BY DEF Request
<1>11. \A j, k \in 1 .. n : j < k => Better(lists, order[j], order[k])
    BY <1>1, <1>2 DEF Sorted
<1>12. ASSUME NEW j \in 1 .. Len(s), NEW k \in 1 .. Len(s), j < k
       PROVE  Better(lists, s[j], s[k])
    <2>1. from[j] \in 1 .. n /\ from[k] \in 1 .. n /\ from[j] < from[k]
        BY <1>9, <1>12
    <2> QED BY <1>9, <1>11, <2>1
<1>13. Len(s) <= r.limit
    <2> DEFINE S == {k \in 0 .. n : Len(v[k]) <= r.limit}
    <2>1. 0 \in S
        BY <1>7, <1>10
    <2>2. ASSUME NEW k \in 0 .. n - 1, k \in S PROVE k + 1 \in S
        <3>1. k + 1 \in 1 .. n /\ (k + 1) - 1 = k /\ k \in 0 .. n /\ k + 1 \in 0 .. n
            BY <1>2
        <3>2. PICK t \in Seq(F) : t = v[k] /\ Len(t) \in Nat /\ Len(t) <= r.limit
            BY <1>7, <2>2, <3>1
        <3>3. v[k + 1] = SelectOne(r, t, order[k + 1])
            BY <1>4, <3>1, <3>2
        <3>4. order[k + 1] \in F
            BY <1>2, <3>1, ElementOfSeq
        <3>5. CASE Len(t) = r.limit
            BY <3>1, <3>2, <3>3, <3>5 DEF SelectOne
        <3>6. CASE Len(t) # r.limit
            <4>1. v[k + 1] = t \/ v[k + 1] = Append(t, order[k + 1])
                BY <3>3 DEF SelectOne
            <4>2. Len(Append(t, order[k + 1])) = Len(t) + 1
                BY <3>4, AppendProperties
            <4> QED BY <1>10, <3>1, <3>2, <3>6, <4>1, <4>2
        <3> QED BY <3>5, <3>6
    <2> HIDE DEF S
    <2>3. 0 .. n \subseteq S
        BY <1>2, <2>1, <2>2, Selecting!UpTo
    <2>4. n \in 0 .. n
        BY <1>2
    <2> QED BY <1>6, <2>3, <2>4 DEF S
<1>14. ASSUME NEW c \in F
       PROVE  \/ \E i \in 1 .. Len(s) : s[i] = c
              \/ RedundantFor(lists, r, c)
              \/ Len(s) = r.limit /\ \A i \in 1 .. Len(s) : Better(lists, s[i], c)
    <2>1. PICK k \in 1 .. n : order[k] = c
        BY <1>1, <1>2 DEF Sorted
    <2>2. CASE \E i \in 1 .. Len(s) : from[i] = k
        BY <1>9, <2>1, <2>2
    <2>3. CASE ~\E i \in 1 .. Len(s) : from[i] = k
        <3>1. v[k] = v[k - 1] /\ k - 1 \in 0 .. n
            BY <1>9, <2>3
        <3>2. PICK t \in Seq(F) : t = v[k - 1] /\ Len(t) \in Nat /\ DOMAIN t = 1 .. Len(t)
            BY <1>7, <3>1, LenProperties
        <3>3. SelectOne(r, t, c) = t
            BY <1>4, <2>1, <3>1, <3>2
        <3>4. Append(t, c) # t
            <4>1. Len(Append(t, c)) = Len(t) + 1
                BY AppendProperties
            <4> QED BY <3>2, <4>1
        <3>5. Len(t) = r.limit \/ (r.aggregate /\ Redundant(t, c))
            BY <3>3, <3>4, Zenon DEF SelectOne
        <3>6. \A i \in 1 .. Len(t) : /\ i \in 1 .. Len(s) /\ s[i] = t[i] /\ from[i] < k
                                     /\ from[i] \in 1 .. n
            <4>1. /\ Len(t) \in 0 .. Len(s)
                  /\ \A i \in 1 .. Len(t) : s[i] = t[i] /\ from[i] <= k - 1
                BY <1>9, <3>1, <3>2
            <4>2. \A i \in 1 .. Len(t) : i \in 1 .. Len(s)
                BY <1>8, <3>2, <4>1
            <4>3. \A i \in 1 .. Len(t) : from[i] \in 1 .. n
                BY <1>9, <4>2
            <4> QED BY <1>2, <4>1, <4>2, <4>3
        <3>7. \A i \in 1 .. Len(t) : s[i] \in F /\ Better(lists, s[i], c)
            BY <1>8, <1>9, <1>11, <2>1, <3>6, ElementOfSeq
        <3>8. CASE Len(t) = r.limit
            <4>1. Len(s) = Len(t)
                BY <1>8, <1>9, <1>10, <1>13, <3>1, <3>2, <3>8
            <4> QED BY <3>7, <3>8, <4>1
        <3>9. CASE r.aggregate /\ Redundant(t, c)
            <4>1. PICK i \in 1 .. Len(t) : /\ c.kind = "chunk" /\ t[i].kind = "chunk"
                                           /\ t[i].document = c.document
                BY <3>2, <3>9 DEF Redundant
            <4>2. /\ t[i] \in F /\ t[i] # c
                  /\ Score(lists, Key(t[i])) >= Score(lists, Key(c))
                BY <3>6, <3>7, BetterIsNotLess
            <4>3. RedundantFor(lists, r, c)
                BY <3>9, <4>1, <4>2 DEF RedundantFor, Further
            <4> QED BY <4>3
        <3> QED BY <3>5, <3>8, <3>9
    <2> QED BY <2>2, <2>3
<1>15. SelectionRight(lists, r, s)
    BY <1>8, <1>12, <1>13, <1>14 DEF SelectionRight
<1> QED BY <1>4, <1>6, <1>15

\* Results keep the order of the selection, and miss only what has gone.
ResultsRight(rows, s, results, place) ==
    /\ place \in [1 .. Len(results) -> 1 .. Len(s)]
    /\ \A i, j \in 1 .. Len(results) : i < j => place[i] < place[j]
    /\ \A i \in 1 .. Len(results) : /\ results[i] = ThatOf(HitsIn(rows, s[place[i]]))
                                    /\ results[i] \in HitsIn(rows, s[place[i]])
    /\ \A k \in 1 .. Len(s) :
          HitsIn(rows, s[k]) = {} \/ \E i \in 1 .. Len(results) : place[i] = k

LEMMA HydratesInOrder ==
    ASSUME NEW rows, NEW F, NEW s \in Seq(F)
    PROVE  LET results == Hydrating!Folded(rows, <<>>, s) IN
           results \in Seq(rows) /\ \E place : ResultsRight(rows, s, results, place)
<1>1. PICK v : HydrationBuilt(rows, s, v)
    BY HydrationGrows
<1>2. PICK n \in Nat : n = Len(s)
    BY LenProperties
<1> DEFINE w == ResultOf(rows, s)
<1>3. /\ Hydrating!Grows(rows, n, w, v)
      /\ v[n] = Hydrating!Folded(rows, <<>>, s)
      /\ \A k \in 1 .. n : /\ v[k] = v[k - 1] => HitsIn(rows, s[k]) = {}
                           /\ v[k] # v[k - 1] => HitsIn(rows, s[k]) # {}
    BY <1>1, <1>2 DEF HydrationBuilt
<1>4. PICK place : Hydrating!Grown(n, w, v, place)
    BY <1>3, Hydrating!GrowthKeepsOrder
<1>5. PICK results : results = v[n]
    OBVIOUS
<1>6. results \in Seq(rows)
    BY <1>3, <1>5 DEF Hydrating!Grows
<1>7. /\ place \in [1 .. Len(results) -> 1 .. n]
      /\ \A i, j \in 1 .. Len(results) : i < j => place[i] < place[j]
      /\ \A i \in 1 .. Len(results) : /\ results[i] = w[place[i]]
                                      /\ Len(v[place[i] - 1]) = i - 1
                                      /\ Len(v[place[i]]) = i
      /\ \A k \in 1 .. n : v[k] = v[k - 1] \/ \E i \in 1 .. Len(results) : place[i] = k
    BY <1>4, <1>5 DEF Hydrating!Grown
<1>8. ASSUME NEW i \in 1 .. Len(results)
      PROVE  /\ results[i] = ThatOf(HitsIn(rows, s[place[i]]))
             /\ results[i] \in HitsIn(rows, s[place[i]])
    <2>1. PICK k \in 1 .. n : k = place[i]
        BY <1>7
    <2>2. results[i] = w[k] /\ Len(v[k - 1]) = i - 1 /\ Len(v[k]) = i
        BY <1>7, <2>1
    <2>3. v[k] # v[k - 1]
        BY <2>2
    <2>4. HitsIn(rows, s[k]) # {}
        BY <1>3, <2>3
    <2>5. results[i] = ThatOf(HitsIn(rows, s[k]))
        BY <1>2, <2>2 DEF ResultOf
    <2>6. \A hits : hits # {} => ThatOf(hits) \in hits
        BY DEF ThatOf
    <2> QED BY <2>1, <2>4, <2>5, <2>6
<1>9. \A k \in 1 .. n :
         HitsIn(rows, s[k]) = {} \/ \E i \in 1 .. Len(results) : place[i] = k
    BY <1>3, <1>7
<1>10. ResultsRight(rows, s, results, place)
    BY <1>2, <1>7, <1>8, <1>9 DEF ResultsRight
<1> QED BY <1>3, <1>5, <1>6, <1>10

\* The budget is spent hit by hit.
LEMMA BytesAreSpent ==
    ASSUME NEW hits \in Seq(Hits)
    PROVE  /\ BytesOf(hits, 0) = Budget
           /\ \A m \in 0 .. Len(hits) - 1 :
                 BytesOf(hits, m + 1) = BytesOf(hits, m) - BytesIn(hits[m + 1], BytesOf(hits, m))
<1>0. Len(hits) \in Nat
    BY LenProperties
<1>1. \A k : BytesOf(hits, k) = Spending!Folded(0, Budget, SubSeq(hits, 1, k))
    BY SMT DEF BytesOf, Spending!Folded, SpendOne, FoldLeft, MapThenFoldSet, Max,
               Spending!MapThenFoldSet, Spending!Max
<1>2. Spending!Steps(0, Int, Hits, Budget)
    <2>1. Budget \in Int
        BY SearchAssumption
    <2>2. ASSUME NEW remaining \in Int, NEW hit \in Hits
          PROVE  SpendOne(0, remaining, hit) \in Int
        <3>1. BytesIn(hit, remaining) \in Nat
            BY BytesAreNumbers
        <3> QED BY <3>1 DEF SpendOne
    <2> QED BY <2>1, <2>2 DEF Spending!Steps
<1>3. BytesOf(hits, 0) = Budget
    <2>1. SubSeq(hits, 1, 0) = <<>> /\ <<>> \in Seq(Hits) /\ Len(<<>>) = 0
        BY EmptySeq
    <2>2. PICK v : Spending!Visits(0, Int, Budget, <<>>, v)
        BY <1>2, <2>1, Spending!FoldVisits
    <2>3. Spending!Folded(0, Budget, <<>>) = Budget
        BY <2>1, <2>2 DEF Spending!Visits
    <2> QED BY <1>1, <2>1, <2>3
<1>4. ASSUME NEW m \in 0 .. Len(hits) - 1
      PROVE  BytesOf(hits, m + 1) = BytesOf(hits, m) - BytesIn(hits[m + 1], BytesOf(hits, m))
    <2>1. PICK p \in Seq(Hits) : p = SubSeq(hits, 1, m)
        BY PrefixGrows
    <2>2. hits[m + 1] \in Hits /\ SubSeq(hits, 1, m + 1) = Append(p, hits[m + 1])
        BY <2>1, PrefixGrows
    <2>3. Spending!Folded(0, Budget, Append(p, hits[m + 1]))
              = SpendOne(0, Spending!Folded(0, Budget, p), hits[m + 1])
        BY <1>2, <2>2, Spending!FoldAppend
    <2>4. BytesOf(hits, m) = Spending!Folded(0, Budget, p)
        BY <1>1, <2>1
    <2>5. BytesOf(hits, m + 1) = Spending!Folded(0, Budget, Append(p, hits[m + 1]))
        BY <1>1, <2>2
    <2> QED BY <2>3, <2>4, <2>5 DEF SpendOne
<1> QED BY <1>3, <1>4

\* What fits keeps the order of the results; what is left out was not
\* admissible with what those before it had left of the budget.
AnswerRight(results, kept, place) ==
    /\ place \in [1 .. Len(kept) -> 1 .. Len(results)]
    /\ \A i, j \in 1 .. Len(kept) : i < j => place[i] < place[j]
    /\ \A i \in 1 .. Len(kept) : kept[i] = results[place[i]]
    /\ BytesOf(kept, Len(kept)) >= 0
    /\ \A k \in 1 .. Len(results) :
          \/ \E i \in 1 .. Len(kept) : place[i] = k
          \/ \E m \in 0 .. Len(kept) :
                /\ \A i \in 1 .. m : place[i] < k
                /\ ~Admissible(BytesIn(results[k], BytesOf(kept, m)), BytesOf(kept, m))

LEMMA FitsInOrder ==
    ASSUME NEW results \in Seq(Hits)
    PROVE  LET kept == FitSearchContext(results) IN
           kept \in Seq(Hits) /\ \E place : AnswerRight(results, kept, place)
<1>1. PICK v : FittingBuilt(results, v)
    BY FittingGrows
<1>2. PICK n \in Nat : n = Len(results)
    BY LenProperties
<1>3. PICK grown : grown = KeptBy(n, v)
    OBVIOUS
<1>4. Fitting!Grows(Hits, n, results, grown)
    BY <1>1, <1>2, <1>3, FittedGrows
<1>5. PICK place : Fitting!Grown(n, results, grown, place)
    BY <1>4, Fitting!GrowthKeepsOrder
<1>6. PICK kept : kept = grown[n]
    OBVIOUS
<1>7. /\ v \in [0 .. n -> Fits] /\ v[0].remaining = Budget /\ v[0].kept = <<>>
      /\ \A k \in 0 .. n : /\ grown[k] = v[k].kept /\ grown[k] \in Seq(Hits)
                           /\ Len(grown[k]) \in Nat /\ v[k].remaining \in Nat
      /\ FitSearchContext(results) = kept
    <2>1. /\ v \in [0 .. n -> Fits] /\ v[0] = [remaining |-> Budget, kept |-> <<>>]
          /\ FitSearchContext(results) = v[n].kept
        BY <1>1, <1>2 DEF FittingBuilt
    <2>2. \A k \in 0 .. n : grown[k] = v[k].kept
        BY <1>3 DEF KeptBy
    <2>3. \A k \in 0 .. n : v[k].kept \in Seq(Hits) /\ v[k].remaining \in Nat
        BY <2>1 DEF Fits
    <2>4. n \in 0 .. n
        BY <1>2
    <2> QED BY <1>6, <2>1, <2>2, <2>3, <2>4, LenProperties
<1>8. /\ place \in [1 .. Len(kept) -> 1 .. n]
      /\ \A i, j \in 1 .. Len(kept) : i < j => place[i] < place[j]
      /\ \A i \in 1 .. Len(kept) : kept[i] = results[place[i]]
      /\ \A k \in 1 .. n : grown[k] = grown[k - 1] \/ \E i \in 1 .. Len(kept) : place[i] = k
      /\ \A k \in 0 .. n : /\ Len(grown[k]) \in 0 .. Len(kept)
                           /\ \A i \in 1 .. Len(grown[k]) :
                                 kept[i] = grown[k][i] /\ place[i] <= k
    BY <1>5, <1>6 DEF Fitting!Grown
<1>9. kept \in Seq(Hits) /\ Len(kept) \in Nat
    <2>1. n \in 0 .. n
        BY <1>2
    <2> QED BY <1>6, <1>7, <2>1
<1>10. ASSUME NEW k \in 1 .. n
       PROVE  /\ k \in 0 .. n /\ k - 1 \in 0 .. n
              /\ LET bytes == BytesIn(results[k], v[k - 1].remaining) IN
                 \/ /\ Admissible(bytes, v[k - 1].remaining)
                    /\ v[k].remaining = v[k - 1].remaining - bytes
                    /\ v[k].kept = Append(v[k - 1].kept, results[k])
                 \/ ~Admissible(bytes, v[k - 1].remaining) /\ v[k] = v[k - 1]
    BY <1>1, <1>2 DEF FittingBuilt
<1>11. \A k \in 0 .. n : v[k].remaining = BytesOf(kept, Len(grown[k]))
    <2> DEFINE S == {k \in 0 .. n : v[k].remaining = BytesOf(kept, Len(grown[k]))}
    <2>1. 0 \in S
        <3>1. 0 \in 0 .. n /\ Len(<<>>) = 0
            BY <1>2, EmptySeq
        <3> QED BY <1>7, <1>9, <3>1, BytesAreSpent
    <2>2. ASSUME NEW k \in 0 .. n - 1, k \in S PROVE k + 1 \in S
        <3>1. k + 1 \in 1 .. n /\ (k + 1) - 1 = k /\ k \in 0 .. n /\ k + 1 \in 0 .. n
            BY <1>2
        <3>2. PICK m \in Nat : m = Len(grown[k]) /\ v[k].remaining = BytesOf(kept, m)
            BY <1>7, <2>2, <3>1
        <3>3. CASE v[k + 1] = v[k]
            BY <1>7, <3>1, <3>2, <3>3
        <3>4. CASE /\ v[k + 1].remaining = v[k].remaining - BytesIn(results[k + 1], v[k].remaining)
                   /\ v[k + 1].kept = Append(v[k].kept, results[k + 1])
            <4>1. PICK t \in Seq(Hits) : t = grown[k] /\ grown[k + 1] = Append(t, results[k + 1])
                BY <1>7, <3>1, <3>4
            <4>2. results[k + 1] \in Hits
                BY <1>2, <3>1, ElementOfSeq
            <4>3. Len(grown[k + 1]) = m + 1 /\ grown[k + 1][m + 1] = results[k + 1]
                BY <3>2, <4>1, <4>2, AppendProperties
            <4>4. m \in 0 .. Len(kept) - 1 /\ m + 1 \in 1 .. Len(grown[k + 1])
                BY <1>8, <1>9, <3>1, <3>2, <4>3
            <4>5. kept[m + 1] = results[k + 1]
                BY <1>8, <3>1, <4>3, <4>4
            <4>6. BytesOf(kept, m + 1) = BytesOf(kept, m) - BytesIn(kept[m + 1], BytesOf(kept, m))
                BY <1>9, <4>4, BytesAreSpent
            <4> QED BY <3>1, <3>2, <3>4, <4>3, <4>5, <4>6
        <3> QED BY <1>10, <3>1, <3>3, <3>4
    <2> HIDE DEF S
    <2>3. 0 .. n \subseteq S
        BY <1>2, <2>1, <2>2, Fitting!UpTo
    <2> QED BY <2>3 DEF S
<1>12. BytesOf(kept, Len(kept)) >= 0
    <2>1. n \in 0 .. n
        BY <1>2
    <2>2. v[n].remaining = BytesOf(kept, Len(kept)) /\ v[n].remaining \in Nat
        BY <1>6, <1>7, <1>11, <2>1
    <2> QED BY <2>2
<1>13. ASSUME NEW k \in 1 .. n
       PROVE  \/ \E i \in 1 .. Len(kept) : place[i] = k
              \/ \E m \in 0 .. Len(kept) :
                    /\ \A i \in 1 .. m : place[i] < k
                    /\ ~Admissible(BytesIn(results[k], BytesOf(kept, m)), BytesOf(kept, m))
    <2>1. CASE grown[k] # grown[k - 1]
        BY <1>8, <2>1
    <2>2. CASE grown[k] = grown[k - 1]
        <3>1. /\ k - 1 \in 0 .. n /\ k \in 0 .. n
              /\ v[k - 1].remaining = BytesOf(kept, Len(grown[k - 1]))
            BY <1>10, <1>11
        <3>2. v[k].kept # Append(v[k - 1].kept, results[k])
            <4>1. results[k] \in Hits
                BY <1>2, ElementOfSeq
            <4>2. PICK t \in Seq(Hits) : t = v[k - 1].kept /\ v[k].kept = t
                BY <1>7, <2>2, <3>1
            <4>3. Len(Append(t, results[k])) = Len(t) + 1 /\ Len(t) \in Nat
                BY <4>1, AppendProperties, LenProperties
            <4> QED BY <4>2, <4>3
        <3>3. ~Admissible(BytesIn(results[k], v[k - 1].remaining), v[k - 1].remaining)
            BY <1>10, <3>2
        <3>4. PICK m \in 0 .. Len(kept) : m = Len(grown[k - 1])
            BY <1>8, <3>1
        <3>5. /\ \A i \in 1 .. Len(grown[k - 1]) : place[i] <= k - 1
              /\ Len(grown[k - 1]) \in 0 .. Len(kept)
            BY <1>8, <3>1
        <3>6. ASSUME NEW i \in 1 .. m PROVE place[i] < k
            <4>1. i \in 1 .. Len(kept) /\ place[i] <= k - 1
                BY <1>9, <3>4, <3>5
            <4>2. place[i] \in 1 .. n
                BY <1>8, <4>1
            <4> QED BY <1>2, <4>1, <4>2
        <3> QED BY <3>1, <3>3, <3>4, <3>6
    <2> QED BY <2>1, <2>2
<1>14. AnswerRight(results, kept, place)
    BY <1>2, <1>8, <1>12, <1>13 DEF AnswerRight
<1> QED BY <1>7, <1>9, <1>14

\* As many numbers lie below the last of an increasing sequence.
LEMMA IncreasingIsShort ==
    ASSUME NEW m \in Nat, NEW n \in Nat, NEW p \in [1 .. m -> 1 .. n],
           \A i, j \in 1 .. m : i < j => p[i] < p[j]
    PROVE  m <= n
<1> DEFINE S == {k \in 0 .. m : k = 0 \/ k <= p[k]}
<1>1. 0 \in S
    OBVIOUS
<1>2. ASSUME NEW k \in 0 .. m - 1, k \in S PROVE k + 1 \in S
    <2>1. k + 1 \in 1 .. m /\ p[k + 1] \in 1 .. n
        OBVIOUS
    <2>2. CASE k = 0
        BY <2>1, <2>2
    <2>3. CASE k # 0
        <3>1. k \in 1 .. m /\ p[k] \in 1 .. n /\ k <= p[k]
            BY <1>2, <2>3
        <3>2. p[k] < p[k + 1]
            BY <2>1, <3>1
        <3> QED BY <2>1, <3>1, <3>2
    <2> QED BY <2>2, <2>3
<1> HIDE DEF S
<1>3. 0 .. m \subseteq S
    BY <1>1, <1>2, Selecting!UpTo
<1>4. m \in S
    BY <1>3
<1> QED BY <1>4 DEF S

\* Where each result of an answer was in the selection, and why the others
\* are missing.
Traced(rows, s, kept, at) ==
    /\ at \in [1 .. Len(kept) -> 1 .. Len(s)]
    /\ \A i, j \in 1 .. Len(kept) : i < j => at[i] < at[j]
    /\ \A i \in 1 .. Len(kept) : Key(kept[i]) = Key(s[at[i]])
    /\ Len(kept) <= Len(s)
    /\ BytesOf(kept, Len(kept)) >= 0
    /\ \A k \in 1 .. Len(s) :
          \/ \E i \in 1 .. Len(kept) : at[i] = k
          \/ HitsIn(rows, s[k]) = {}
          \/ \E m \in 0 .. Len(kept) :
                /\ \A i \in 1 .. m : at[i] < k
                /\ ~Admissible(BytesIn(ThatOf(HitsIn(rows, s[k])), BytesOf(kept, m)),
                               BytesOf(kept, m))

LEMMA AnswersAreTraced ==
    ASSUME NEW rows \in SUBSET Hits, NEW F, NEW s \in Seq(F)
    PROVE  LET kept == FitSearchContext(Hydrating!Folded(rows, <<>>, s)) IN
           kept \in Seq(Hits) /\ \E at : Traced(rows, s, kept, at)
<1>1. PICK results \in Seq(rows) :
          /\ results = Hydrating!Folded(rows, <<>>, s)
          /\ \E place : ResultsRight(rows, s, results, place)
    BY HydratesInOrder
<1>2. PICK inside : ResultsRight(rows, s, results, inside)
    BY <1>1
<1>3. /\ results \in Seq(Hits) /\ Len(results) \in Nat /\ Len(s) \in Nat
      /\ \A i \in 1 .. Len(results) : results[i] \in rows
    BY LenProperties, ElementOfSeq
<1>4. PICK kept \in Seq(Hits) :
          /\ kept = FitSearchContext(results)
          /\ \E place : AnswerRight(results, kept, place)
    BY <1>3, FitsInOrder
<1>5. PICK place : AnswerRight(results, kept, place)
    BY <1>4
<1>6. Len(kept) \in Nat
    BY LenProperties
<1>7. /\ inside \in [1 .. Len(results) -> 1 .. Len(s)]
      /\ \A i, j \in 1 .. Len(results) : i < j => inside[i] < inside[j]
      /\ \A i \in 1 .. Len(results) : /\ results[i] = ThatOf(HitsIn(rows, s[inside[i]]))
                                      /\ results[i] \in HitsIn(rows, s[inside[i]])
      /\ \A k \in 1 .. Len(s) :
            HitsIn(rows, s[k]) = {} \/ \E i \in 1 .. Len(results) : inside[i] = k
    BY <1>2 DEF ResultsRight
<1>8. /\ place \in [1 .. Len(kept) -> 1 .. Len(results)]
      /\ \A i, j \in 1 .. Len(kept) : i < j => place[i] < place[j]
      /\ \A i \in 1 .. Len(kept) : kept[i] = results[place[i]]
      /\ BytesOf(kept, Len(kept)) >= 0
      /\ \A k \in 1 .. Len(results) :
            \/ \E i \in 1 .. Len(kept) : place[i] = k
            \/ \E m \in 0 .. Len(kept) :
                  /\ \A i \in 1 .. m : place[i] < k
                  /\ ~Admissible(BytesIn(results[k], BytesOf(kept, m)), BytesOf(kept, m))
    BY <1>5 DEF AnswerRight
<1>9. PICK at : at = [i \in 1 .. Len(kept) |-> inside[place[i]]]
    OBVIOUS
<1>10. at \in [1 .. Len(kept) -> 1 .. Len(s)]
    BY <1>7, <1>8, <1>9
<1>11. ASSUME NEW i \in 1 .. Len(kept), NEW j \in 1 .. Len(kept), i < j
       PROVE  at[i] < at[j]
    <2>1. place[i] \in 1 .. Len(results) /\ place[j] \in 1 .. Len(results)
        BY <1>8
    <2>2. place[i] < place[j]
        BY <1>8, <1>11
    <2>3. inside[place[i]] < inside[place[j]]
        BY <1>7, <2>1, <2>2
    <2> QED BY <1>9, <2>3
<1>12. ASSUME NEW i \in 1 .. Len(kept) PROVE Key(kept[i]) = Key(s[at[i]])
    <2>1. PICK k \in 1 .. Len(results) : k = place[i] /\ kept[i] = results[k]
        BY <1>8
    <2>2. results[k] \in HitsIn(rows, s[inside[k]]) /\ at[i] = inside[k]
        BY <1>7, <1>9, <2>1
    <2> QED BY <2>1, <2>2 DEF HitsIn
<1>13. Len(kept) <= Len(s)
    BY <1>3, <1>6, <1>10, <1>11, IncreasingIsShort
<1>14. ASSUME NEW k \in 1 .. Len(s), HitsIn(rows, s[k]) # {},
              ~\E i \in 1 .. Len(kept) : at[i] = k
       PROVE  \E m \in 0 .. Len(kept) :
                 /\ \A i \in 1 .. m : at[i] < k
                 /\ ~Admissible(BytesIn(ThatOf(HitsIn(rows, s[k])), BytesOf(kept, m)),
                                BytesOf(kept, m))
    <2>1. PICK x \in 1 .. Len(results) : inside[x] = k
        BY <1>7, <1>14
    <2>2. results[x] = ThatOf(HitsIn(rows, s[k]))
        BY <1>7, <2>1
    <2>3. ~\E i \in 1 .. Len(kept) : place[i] = x
        BY <1>9, <1>14, <2>1
    <2>4. PICK m \in 0 .. Len(kept) :
              /\ \A i \in 1 .. m : place[i] < x
              /\ ~Admissible(BytesIn(results[x], BytesOf(kept, m)), BytesOf(kept, m))
        BY <1>8, <2>3
    <2>5. ASSUME NEW i \in 1 .. m PROVE at[i] < k
        <3>1. i \in 1 .. Len(kept)
            BY <1>6
        <3>2. place[i] \in 1 .. Len(results) /\ place[i] < x
            BY <1>8, <2>4, <3>1
        <3>3. inside[place[i]] < inside[x]
            BY <1>7, <3>2
        <3> QED BY <1>9, <2>1, <3>1, <3>3
    <2> QED BY <2>2, <2>4, <2>5
<1>15. Traced(rows, s, kept, at)
    BY <1>8, <1>10, <1>11, <1>12, <1>13, <1>14 DEF Traced
<1> QED BY <1>1, <1>4, <1>15

-----------------------------------------------------------------------------
(* The selection is of what was found, the answer of what was read.        *)

Arranged ==
    /\ phase = "hydrating" =>
          request.api = "v4" /\ todo \in Seq({"hydrate_memories", "hydrate_chunks"})
    /\ phase = "answered" => todo = <<>>
    /\ phase \in {"hydrating", "answered"} /\ request.api = "v4" =>
          selected = SelectDiverse(Ordered(found), request)
    /\ phase = "answered" /\ request.api = "v4" => answer = FitSearchContext(Results)

LEMMA ArrangedKept ==
    ASSUME Arranged, UNCHANGED search PROVE Arranged'
<1>1. Results' = Results
    <2>1. PICK rows, s : rows = hydrated /\ s = selected
        OBVIOUS
    <2>2. Results = Hydrating!Folded(rows, <<>>, s)
        BY <2>1, ResultsFolded
    <2>3. Results' = Hydrating!Folded(hydrated', <<>>, selected')
        BY SMT DEF Results, Hydrating!Folded, HydrateOne, HitsFor, HitsIn, FoldLeft,
                   MapThenFoldSet, Max, Hydrating!MapThenFoldSet, Hydrating!Max
    <2> QED BY <2>1, <2>2, <2>3 DEF search
<1> QED BY <1>1 DEF Arranged, search

LEMMA ArrangedStep ==
    ASSUME Arranged, [Next]_vars PROVE Arranged'
<1>1. CASE UNCHANGED search
    BY <1>1, ArrangedKept
<1>2. ASSUME NEW r \in Requests, Begin(r) PROVE Arranged'
    <2>1. phase' = "ranking"
        BY <1>2 DEF Begin
    <2> QED BY <2>1 DEF Arranged
<1>3. CASE Rank
    <2>1. phase' = phase /\ todo # <<>> /\ Head(todo) \in Rankings
        BY <1>3 DEF Rank
    <2>2. phase # "answered"
        BY <2>1 DEF Arranged
    <2>3. phase # "hydrating"
        <3>1. todo \in Seq({"hydrate_memories", "hydrate_chunks"})
                  => Head(todo) \in {"hydrate_memories", "hydrate_chunks"}
            BY <2>1, HeadTailProperties
        <3> QED BY <2>1, <3>1 DEF Arranged, Rankings
    <2> QED BY <2>1, <2>2, <2>3 DEF Arranged
<1>4. CASE EndRanking
    <2>1. /\ phase' = "hydrating" /\ request.api = "v4" /\ request' = request
          /\ found' = found /\ selected' = SelectDiverse(Ordered(found), request)
          /\ todo' = <<"hydrate_memories", "hydrate_chunks">>
        BY <1>4 DEF EndRanking
    <2>2. <<"hydrate_memories", "hydrate_chunks">> \in Seq({"hydrate_memories", "hydrate_chunks"})
        OBVIOUS
    <2>3. PICK lists, r : lists = found /\ r = request
        OBVIOUS
    <2>4. selected' = SelectDiverse(Ordered(lists), r) /\ found' = lists /\ request' = r
        BY <2>1, <2>3
    <2> QED BY <2>1, <2>2, <2>4 DEF Arranged
<1>5. CASE HydrateMemories \/ HydrateChunks
    <2>1. /\ todo # <<>> /\ todo' = Tail(todo)
          /\ UNCHANGED <<phase, request, found, selected, answer>>
        BY <1>5 DEF HydrateMemories, HydrateChunks
    <2>2. phase # "answered"
        BY <2>1 DEF Arranged
    <2>3. todo \in Seq({"hydrate_memories", "hydrate_chunks"})
              => todo' \in Seq({"hydrate_memories", "hydrate_chunks"})
        BY <2>1, HeadTailProperties
    <2>4. PICK lists, r : lists = found /\ r = request
        OBVIOUS
    <2>5. found' = lists /\ request' = r
        BY <2>1, <2>4
    <2> QED BY <2>1, <2>2, <2>3, <2>4, <2>5 DEF Arranged
<1>6. CASE Answer
    <2>1. /\ todo = <<>> /\ phase' = "answered"
          /\ phase = (IF request.api = "v4" THEN "hydrating" ELSE "ranking")
          /\ (request.api = "v4" => answer' = FitSearchContext(Results))
          /\ UNCHANGED <<request, todo, found, selected, hydrated>>
        BY <1>6 DEF Answer
    <2>2. PICK rows, s, lists, r, results :
              /\ rows = hydrated /\ s = selected /\ lists = found /\ r = request
              /\ results = Results
        OBVIOUS
    <2>3. hydrated' = rows /\ selected' = s /\ found' = lists /\ request' = r
        BY <2>1, <2>2
    <2>4. results = Hydrating!Folded(rows, <<>>, s)
        BY <2>2, ResultsFolded
    <2>5. Results' = Hydrating!Folded(hydrated', <<>>, selected')
        BY SMT DEF Results, Hydrating!Folded, HydrateOne, HitsFor, HitsIn, FoldLeft,
                   MapThenFoldSet, Max, Hydrating!MapThenFoldSet, Hydrating!Max
    <2>6. Results' = results
        BY <2>3, <2>4, <2>5
    <2>7. r.api = "v4" => answer' = FitSearchContext(results)
        BY <2>1, <2>2
    <2>8. r.api = "v4" => s = SelectDiverse(Ordered(lists), r)
        BY <2>1, <2>2 DEF Arranged
    <2> QED BY <2>1, <2>3, <2>6, <2>7, <2>8 DEF Arranged
<1>7. CASE Fail
    <2>1. phase' = "failed"
        BY <1>7 DEF Fail
    <2> QED BY <2>1 DEF Arranged
<1> QED BY <1>1, <1>2, <1>3, <1>4, <1>5, <1>6, <1>7
    DEF Next, SearchStep, Statement, AskForHydration, Write, Submit, Finish, Publish, Hide,
        OtherRead, LeftBehind, vars, search

THEOREM SearchArranged == Spec => []Arranged
<1>1. Init => Arranged
    BY DEF Init, Arranged
<1> QED BY <1>1, ArrangedStep, PTL DEF Spec

\* What BestEvidenceFirst says of the lists, the rows and the answer.
BestOf(lists, r, rows, s, kept) ==
    LET F == Fused(lists)
        score(c) == Score(lists, Key(c))
        place(c) == {i \in DOMAIN kept : Key(kept[i]) = Key(c)}
        mayPrecede(b, c) ==
            \/ score(b) >= score(c)
            \/ ~r.aggregate /\ Further(lists, c) /\ ~Further(lists, b)
        gone(c) == HitsIn(rows, c) = {}
        tooLarge(c) ==
            \E k \in 0 .. Len(kept) :
                /\ \A i \in 1 .. k : \E b \in F : mayPrecede(b, c) /\ i \in place(b)
                /\ ~Admissible(BytesIn(ThatOf(HitsIn(rows, c)), BytesOf(kept, k)),
                               BytesOf(kept, k))
        excused(c) == gone(c) \/ RedundantFor(lists, r, c) \/ tooLarge(c) IN
    /\ Len(kept) <= r.limit
    /\ BytesOf(kept, Len(kept)) >= 0
    /\ \A c \in F : Cardinality(place(c)) <= 1
    /\ \A b, c \in F :
          ~mayPrecede(c, b) /\ place(c) # {} =>
              \/ excused(b)
              \/ \E i \in place(b), j \in place(c) : i < j
    /\ \A c \in F :
          \/ place(c) # {} \/ excused(c)
          \/ Len(s) = r.limit /\ ~\E i \in DOMAIN s : s[i] = c

LEMMA BestIsBest ==
    BestOf(found, request, hydrated, selected, answer) => BestEvidenceFirst
BY DEF BestOf, BestEvidenceFirst, HitsFor, HitsIn, RedundantFor, Further

LEMMA AnswersAreTheBest ==
    ASSUME SearchInv, Arranged, phase = "answered", request.api = "v4"
    PROVE  BestEvidenceFirst
<1>1. PICK lists \in Lists, r \in Request, rows \in SUBSET Hits :
          lists = found /\ r = request /\ rows = hydrated
    BY SearchAssumption DEF SearchInv, SearchTyped, CandidatesCited, Hydrated
<1> DEFINE F == Fused(lists)
<1>2. PICK s \in Seq(F) : s = selected /\ SelectionRight(lists, r, s)
    <2>1. selected = SelectDiverse(Ordered(lists), r)
        BY <1>1 DEF Arranged
    <2>2. SelectionRight(lists, r, SelectDiverse(Ordered(lists), r))
        BY SelectsTheBest
    <2> QED BY <2>1, <2>2 DEF SelectionRight
<1>3. PICK kept \in Seq(Hits) : kept = answer /\ \E at : Traced(rows, s, kept, at)
    <2>1. answer = FitSearchContext(Hydrating!Folded(rows, <<>>, s))
        BY <1>1, <1>2, ResultsFolded DEF Arranged
    <2> QED BY <2>1, AnswersAreTraced
<1>4. PICK at : Traced(rows, s, kept, at)
    BY <1>3
<1>5. PICK m \in Nat, n \in Nat : m = Len(kept) /\ n = Len(s)
    BY LenProperties
<1>6. /\ DOMAIN kept = 1 .. m /\ DOMAIN s = 1 .. n
      /\ \A k \in 1 .. n : s[k] \in F
    BY <1>5, LenProperties, ElementOfSeq
<1>7. /\ at \in [1 .. m -> 1 .. n]
      /\ \A i, j \in 1 .. m : i < j => at[i] < at[j]
      /\ \A i \in 1 .. m : Key(kept[i]) = Key(s[at[i]])
      /\ m <= n /\ BytesOf(kept, m) >= 0
    BY <1>4, <1>5 DEF Traced
<1>8. \A k \in 1 .. n :
          \/ \E i \in 1 .. m : at[i] = k
          \/ HitsIn(rows, s[k]) = {}
          \/ \E x \in 0 .. m :
                /\ \A i \in 1 .. x : at[i] < k
                /\ ~Admissible(BytesIn(ThatOf(HitsIn(rows, s[k])), BytesOf(kept, x)),
                               BytesOf(kept, x))
    BY <1>4, <1>5 DEF Traced
<1>9. /\ n <= r.limit
      /\ \A j, k \in 1 .. n : j < k => Better(lists, s[j], s[k])
      /\ \A c \in F :
            \/ \E i \in 1 .. n : s[i] = c
            \/ RedundantFor(lists, r, c)
            \/ n = r.limit /\ \A i \in 1 .. n : Better(lists, s[i], c)
    BY <1>2, <1>5 DEF SelectionRight
<1> DEFINE score(c) == Score(lists, Key(c))
           place(c) == {i \in DOMAIN kept : Key(kept[i]) = Key(c)}
           mayPrecede(b, c) ==
               \/ score(b) >= score(c)
               \/ ~r.aggregate /\ Further(lists, c) /\ ~Further(lists, b)
           gone(c) == HitsIn(rows, c) = {}
           redundant(c) == RedundantFor(lists, r, c)
           tooLarge(c) ==
               \E k \in 0 .. m :
                   /\ \A i \in 1 .. k : \E b \in F : mayPrecede(b, c) /\ i \in place(b)
                   /\ ~Admissible(BytesIn(ThatOf(HitsIn(rows, c)), BytesOf(kept, k)),
                                  BytesOf(kept, k))
           excused(c) == gone(c) \/ redundant(c) \/ tooLarge(c)
\* Places.
<1>10. ASSUME NEW c \in F, NEW i \in place(c)
       PROVE  i \in 1 .. m /\ at[i] \in 1 .. n /\ s[at[i]] = c
    <2>1. i \in 1 .. m /\ Key(kept[i]) = Key(c)
        BY <1>6
    <2>2. at[i] \in 1 .. n /\ Key(s[at[i]]) = Key(c)
        BY <1>7, <2>1
    <2>3. s[at[i]] \in F
        BY <1>6, <2>2
    <2> QED BY <2>1, <2>2, <2>3, FusedOnce
<1>11. ASSUME NEW i \in 1 .. m PROVE i \in place(s[at[i]]) /\ s[at[i]] \in F
    BY <1>6, <1>7
<1>12. ASSUME NEW j \in 1 .. n, NEW k \in 1 .. n
       PROVE  /\ s[j] = s[k] => j = k
              /\ Better(lists, s[j], s[k]) => j < k
              /\ j < k => score(s[j]) >= score(s[k])
    <2>1. s[j] \in F /\ s[k] \in F
        BY <1>6
    <2>2. /\ Better(lists, s[j], s[k]) => s[j] # s[k] /\ ~Better(lists, s[k], s[j])
          /\ Better(lists, s[k], s[j]) => s[k] # s[j]
          /\ Better(lists, s[j], s[k]) => score(s[j]) >= score(s[k])
        BY <2>1, BetterIsNotLess
    <2>3. /\ j < k => Better(lists, s[j], s[k])
          /\ k < j => Better(lists, s[k], s[j])
        BY <1>9
    <2> QED BY <2>2, <2>3
<1>13. ASSUME NEW c \in F PROVE Cardinality(place(c)) <= 1
    <2>1. \A i, j \in place(c) : i = j
        <3>1. SUFFICES ASSUME NEW i \in place(c), NEW j \in place(c) PROVE i = j
            OBVIOUS
        <3>2. /\ i \in 1 .. m /\ at[i] \in 1 .. n /\ s[at[i]] = c
              /\ j \in 1 .. m /\ at[j] \in 1 .. n /\ s[at[j]] = c
            BY <1>10
        <3>3. at[i] = at[j]
            BY <1>12, <3>2
        <3> HIDE DEF place
        <3>4. ~(at[i] < at[j]) /\ ~(at[j] < at[i])
            BY <3>2, <3>3
        <3>5. ~(i < j) /\ ~(j < i)
            BY <1>7, <3>2, <3>4
        <3> QED BY <3>2, <3>5
    <2> HIDE DEF place
    <2>2. CASE place(c) = {}
        BY <2>2, FS_EmptySet
    <2>3. CASE place(c) # {}
        <3>1. PICK i : place(c) = {i}
            BY <2>1, <2>3
        <3>2. Cardinality({i}) = 1
            BY FS_Singleton
        <3> QED BY <3>1, <3>2
    <2> QED BY <2>2, <2>3
\* What is missing.
<1>14. ASSUME NEW k \in 1 .. n, place(s[k]) = {}
       PROVE  excused(s[k])
    <2>1. ~\E i \in 1 .. m : at[i] = k
        BY <1>11, <1>14
    <2>2. CASE HitsIn(rows, s[k]) = {}
        BY <2>2
    <2>3. CASE HitsIn(rows, s[k]) # {}
        <3>1. PICK x \in 0 .. m :
                  /\ \A i \in 1 .. x : at[i] < k
                  /\ ~Admissible(BytesIn(ThatOf(HitsIn(rows, s[k])), BytesOf(kept, x)),
                                 BytesOf(kept, x))
            BY <1>8, <2>1, <2>3
        <3>2. ASSUME NEW i \in 1 .. x
              PROVE  \E b \in F : mayPrecede(b, s[k]) /\ i \in place(b)
            <4>1. i \in 1 .. m /\ at[i] \in 1 .. n /\ at[i] < k
                BY <1>7, <3>1
            <4>2. s[at[i]] \in F /\ i \in place(s[at[i]]) /\ s[k] \in F
                BY <1>6, <1>11, <4>1
            <4>3. score(s[at[i]]) >= score(s[k])
                BY <1>12, <4>1
            <4> QED BY <4>2, <4>3
        <3>3. tooLarge(s[k])
            BY <3>1, <3>2
        <3> QED BY <3>3
    <2> QED BY <2>2, <2>3
<1>15. ASSUME NEW b \in F, NEW c \in F, ~mayPrecede(c, b), place(c) # {}
       PROVE  excused(b) \/ \E i \in place(b), j \in place(c) : i < j
    <2>1. PICK j \in place(c) : j \in 1 .. m /\ at[j] \in 1 .. n /\ s[at[j]] = c
        BY <1>10, <1>15
    <2>2. Better(lists, b, c) /\ ~Better(lists, c, b)
        <3>1. score(b) \in Int /\ score(c) \in Int /\ ~(score(c) >= score(b))
            BY <1>15, BetterIsNotLess
        <3>2. score(b) > score(c)
            BY <3>1
        <3> QED BY <3>2, BetterIsNotLess
    <2>3. CASE \E k \in 1 .. n : s[k] = b
        <3>1. PICK k \in 1 .. n : s[k] = b
            BY <2>3
        <3>2. k < at[j]
            BY <1>12, <2>1, <2>2, <3>1
        <3>3. CASE place(b) = {}
            BY <1>14, <3>1, <3>3
        <3>4. CASE place(b) # {}
            <4>1. PICK i \in place(b) : i \in 1 .. m /\ at[i] \in 1 .. n /\ s[at[i]] = b
                BY <1>10, <3>4
            <4>2. at[i] = k
                BY <1>12, <3>1, <4>1
            <4>3. ~(j < i) /\ i # j
                BY <1>7, <2>1, <3>2, <4>1, <4>2
            <4>4. i < j
                BY <2>1, <4>1, <4>3
            <4> QED BY <2>1, <4>1, <4>4
        <3> QED BY <3>3, <3>4
    <2>4. CASE ~\E k \in 1 .. n : s[k] = b
        <3>1. ~\A k \in 1 .. n : Better(lists, s[k], b)
            BY <2>1, <2>2
        <3>2. redundant(b)
            BY <1>9, <2>4, <3>1
        <3> QED BY <3>2
    <2> QED BY <2>3, <2>4
<1>16. ASSUME NEW c \in F
       PROVE  \/ place(c) # {} \/ excused(c)
              \/ n = r.limit /\ ~\E i \in DOMAIN s : s[i] = c
    <2>1. CASE \E k \in 1 .. n : s[k] = c
        <3>1. PICK k \in 1 .. n : s[k] = c
            BY <2>1
        <3>2. place(s[k]) # {} \/ excused(s[k])
            BY <1>14
        <3> HIDE DEF place, excused
        <3> QED BY <3>1, <3>2
    <2>2. CASE ~\E k \in 1 .. n : s[k] = c
        BY <1>6, <1>9, <2>2
    <2> QED BY <2>1, <2>2
<1>17. m <= r.limit
    <2>1. r.limit \in Nat
        BY DEF Request
    <2> QED BY <1>7, <1>9, <2>1
<1>18. BestOf(lists, r, rows, s, kept)
    <2>1. Len(kept) <= r.limit /\ BytesOf(kept, Len(kept)) >= 0
        BY <1>5, <1>7, <1>17
    <2>2. \A b, c \in F : ~mayPrecede(c, b) /\ place(c) # {} =>
              excused(b) \/ \E i \in place(b), j \in place(c) : i < j
        BY <1>15
    <2>3. m = Len(kept) /\ n = Len(s)
        BY <1>5
    <2>4. \A c \in F : Cardinality(place(c)) <= 1
        BY <1>13
    <2>5. \A c \in F :
              \/ place(c) # {} \/ excused(c)
              \/ n = r.limit /\ ~\E i \in DOMAIN s : s[i] = c
        BY <1>16
    <2> QED BY <2>1, <2>2, <2>3, <2>4, <2>5 DEF BestOf
<1>19. BestOf(found, request, hydrated, selected, answer)
    BY <1>1, <1>2, <1>3, <1>18
<1> QED BY <1>19, BestIsBest

\* Whatever happens between the statements, an answer of /v4 lists candidates
\* by their joint evidence and leaves one out only for a reason
\* (fuse_candidates, select_diverse and fit_search_context in
\* crates/server/src/search_engine.rs).
THEOREM BestEvidenceComesFirst == Spec => []BestEvidenceFirst
<1>1. SearchInv /\ Arranged => BestEvidenceFirst
    BY AnswersAreTheBest DEF BestEvidenceFirst
<1> QED BY <1>1, SearchConsistent, SearchArranged, PTL
=============================================================================
