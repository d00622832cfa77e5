--------------------------- MODULE MemoryGraphProofs ---------------------------
(* The safety of the memory graph, for any documents, texts, bounds and ways of *)
(* forgetting.  First what each action does to the rows there were; then the    *)
(* invariant, whose parts about an open reconciliation say what its map of      *)
(* known memories is worth while its own proposals change the graph.            *)
EXTENDS MemoryGraph, FiniteSetTheorems, TLAPS

Types ==
    /\ count \in 0 .. MaxMemories
    /\ memories \in [Ids -> Memory \cup {NoMemory}]
    /\ \A m \in Rows : memories[m] \in Memory
    /\ relations \subseteq Relation
    /\ extractions \in [Docs -> Extraction]
    /\ tx \in Docs \cup {NoDoc}
    /\ exact \in [Facts -> 0 .. count]
    /\ learned \in [Facts -> 0 .. count]
    /\ first \in 0 .. count

\* An embedding is deactivated only with the version it is of.
LatestIsActive == \A m \in Rows : memories[m].latest => memories[m].active

\* Superseded by the open reconciliation itself.
UpdatedSince(m) ==
    \E r \in relations : r.parent = m /\ r.relation = "updates" /\ r.child > first

\* What exact says is still so, but for what its own reconciliation updated.
ExactIsSound ==
    tx # NoDoc =>
        \A f \in Facts :
            /\ exact[f] = 0 => Known(f) = {}
            /\ exact[f] # 0 => /\ FactOf(exact[f]) = f
                               /\ Current(exact[f]) \/ UpdatedSince(exact[f])

NothingLearnedBefore == tx = NoDoc => learned = Nowhere

GraphInv ==
    /\ Types
    /\ OneMemoryPerFact
    /\ NothingVanishes
    /\ LineageIsSound
    /\ LatestIsActive
    /\ ExactIsSound
    /\ NothingLearnedBefore
    /\ AnswersAreKept

-----------------------------------------------------------------------------
(* Rows.                                                                   *)

\* What no action changes in a row.
Same(new, old) ==
    /\ new \in Memory
    /\ new.content = old.content /\ new.parent = old.parent
    /\ new.root = old.root /\ new.version = old.version

LEMMA SourceAdded ==
    ASSUME NEW row \in Memory, NEW d \in Docs
    PROVE  LET new == [row EXCEPT !.sources = @ \cup {d}]
           IN  /\ Same(new, row)
               /\ new.latest = row.latest /\ new.forgotten = row.forgotten
               /\ new.active = row.active /\ new.sources = row.sources \cup {d}
BY DEF Memory, Same

LEMMA RowSuperseded ==
    ASSUME NEW row \in Memory
    PROVE  LET new == [row EXCEPT !.latest = FALSE, !.static = FALSE, !.active = FALSE]
           IN  /\ Same(new, row)
               /\ ~new.latest /\ new.forgotten = row.forgotten
               /\ new.sources = row.sources
BY DEF Memory, Same

LEMMA RowForgotten ==
    ASSUME NEW row \in Memory
    PROVE  LET new == [row EXCEPT !.forgotten = TRUE, !.latest = FALSE, !.static = FALSE,
                                  !.expiry = "past", !.active = FALSE]
           IN  Same(new, row) /\ ~new.latest /\ new.forgotten
BY DEF Memory, Same

LEMMA RowExpired ==
    ASSUME NEW row \in Memory
    PROVE  LET new == [row EXCEPT !.expiry = "past"]
           IN  /\ Same(new, row)
               /\ new.latest = row.latest /\ new.forgotten = row.forgotten
               /\ new.active = row.active
BY DEF Memory, Same

LEMMA GraphInit == Init => GraphInv
<1> SUFFICES ASSUME Init PROVE GraphInv
    OBVIOUS
<1>1. Rows = {}
    BY DEF Init, Rows
<1>2. Types
    BY <1>1, GraphAssumption DEF Init, Types, Nowhere, Extraction, Rows
<1>3. ExactIsSound /\ NothingLearnedBefore
    BY DEF Init, ExactIsSound, NothingLearnedBefore
<1>4. AnswersAreKept
    BY DEF Init, AnswersAreKept, Nowhere
<1> QED BY <1>1, <1>2, <1>3, <1>4
        DEF GraphInv, OneMemoryPerFact, NothingVanishes, LineageIsSound, LatestIsActive

-----------------------------------------------------------------------------
(* Steps outside a reconciliation that touch one row, or none.             *)

\* Flags are only taken away, and a version that is no longer the latest one is
\* forgotten.
LEMMA RowsKeep ==
    ASSUME GraphInv, tx = NoDoc,
           UNCHANGED <<count, relations, extractions, tx, exact, learned, first>>,
           memories' \in [Ids -> Memory \cup {NoMemory}],
           \A m \in Rows : /\ Same(memories'[m], memories[m])
                           /\ memories'[m].latest => /\ memories[m].latest
                                                     /\ memories'[m].active
                           /\ memories[m].forgotten => memories'[m].forgotten
                           /\ \/ memories'[m].latest = memories[m].latest
                              \/ memories'[m].forgotten
    PROVE  GraphInv'
<1>1. Rows' = Rows /\ \A m \in Rows : m \in Ids
    BY GraphAssumption DEF Rows, GraphInv, Types, Ids
<1>2. Types'
    BY <1>1 DEF GraphInv, Types, Same
<1>3. \A m \in Rows : (FactOf(m))' = FactOf(m) /\ ((Current(m))' => Current(m))
    BY <1>1 DEF FactOf, Same, Current, GraphInv, Types, Memory
<1>4. OneMemoryPerFact'
    BY <1>1, <1>3 DEF GraphInv, OneMemoryPerFact
<1>5. NothingVanishes'
    BY <1>1 DEF GraphInv, NothingVanishes
<1>6. LineageIsSound'
    <2>1. ASSUME NEW m \in Rows
          PROVE  LET row == memories'[m]
                 IN  \/ row.parent = 0 /\ row.root = 0 /\ row.version = 1
                     \/ /\ row.parent \in 1 .. m - 1
                        /\ row.version = memories'[row.parent].version + 1
                        /\ row.root \in 1 .. m - 1
                        /\ memories'[row.root].parent = 0
                        /\ \/ row.root = row.parent
                           \/ row.root = memories'[row.parent].root
        <3>1. \A k \in 1 .. m - 1 : k \in Rows
            BY <1>1, <2>1, GraphAssumption DEF Rows, GraphInv, Types
        <3> QED BY <2>1, <3>1 DEF GraphInv, LineageIsSound, Same
    <2> QED BY <1>1, <2>1 DEF LineageIsSound
<1>7. LatestIsActive'
    BY <1>1 DEF LatestIsActive
<1>8. ExactIsSound' /\ NothingLearnedBefore'
    BY DEF GraphInv, ExactIsSound, NothingLearnedBefore
<1>9. AnswersAreKept'
    BY DEF GraphInv, NothingLearnedBefore, AnswersAreKept, Nowhere
<1> QED BY <1>2, <1>4, <1>5, <1>6, <1>7, <1>8, <1>9 DEF GraphInv

LEMMA ForgetKeeps ==
    ASSUME GraphInv, NEW m \in Rows, ForgetMemory(m)
    PROVE  GraphInv'
<1>1. \A n \in Rows : n \in Ids /\ memories[n] \in Memory
    BY GraphAssumption DEF Rows, GraphInv, Types, Ids
<1>2. /\ Same(Forgotten(m), memories[m])
      /\ ~Forgotten(m).latest /\ Forgotten(m).forgotten
    BY <1>1, RowForgotten DEF Forgotten
<1>3. memories' = [memories EXCEPT ![m] = Forgotten(m)]
      /\ memories' \in [Ids -> Memory \cup {NoMemory}]
    BY <1>1, <1>2 DEF ForgetMemory, GraphInv, Types, Same
<1>4. \A n \in Rows : memories'[n] = IF n = m THEN Forgotten(m) ELSE memories[n]
    BY <1>1, <1>3 DEF GraphInv, Types
<1>5. \A n \in Rows : Same(memories[n], memories[n])
    BY <1>1 DEF Same
<1> QED BY <1>1, <1>2, <1>3, <1>4, <1>5, RowsKeep
        DEF ForgetMemory, GraphInv, LatestIsActive

LEMMA ExpireKeeps == ASSUME GraphInv, NEW m \in Ids, Expire(m) PROVE GraphInv'
<1>1. \A n \in Rows : n \in Ids /\ memories[n] \in Memory
    BY GraphAssumption DEF Rows, GraphInv, Types, Ids
<1>2. PICK new : new = [memories[m] EXCEPT !.expiry = "past"]
    OBVIOUS
<1>3. /\ Same(new, memories[m])
      /\ new.latest = memories[m].latest /\ new.forgotten = memories[m].forgotten
      /\ new.active = memories[m].active
    BY <1>1, <1>2, RowExpired DEF Expire
<1>4. memories' = [memories EXCEPT ![m] = new]
      /\ memories' \in [Ids -> Memory \cup {NoMemory}]
    BY <1>1, <1>2, <1>3 DEF Expire, GraphInv, Types, Same
<1>5. \A n \in Rows : memories'[n] = IF n = m THEN new ELSE memories[n]
    BY <1>1, <1>4 DEF GraphInv, Types
<1>6. \A n \in Rows : Same(memories[n], memories[n])
    BY <1>1 DEF Same
<1> QED BY <1>1, <1>3, <1>4, <1>5, <1>6, RowsKeep
        DEF Expire, GraphInv, LatestIsActive

-----------------------------------------------------------------------------
(* Extractions, and the ends of a reconciliation: no row changes.          *)

LEMMA ExtractionsKeep ==
    ASSUME GraphInv, tx = NoDoc, UNCHANGED <<count, memories, relations, tx, exact, learned,
                                             first>>,
           NEW d \in Docs, NEW extraction \in Extraction,
           extractions' = [extractions EXCEPT ![d] = extraction]
    PROVE  GraphInv'
<1>1. Rows' = Rows
    BY DEF Rows
<1>2. Types'
    BY <1>1 DEF GraphInv, Types
<1>3. /\ \A m : (FactOf(m))' = FactOf(m) /\ (Current(m))' = Current(m)
      /\ \A m : (UpdatedSince(m))' = UpdatedSince(m)
    BY DEF FactOf, Current, UpdatedSince
<1>4. OneMemoryPerFact' /\ NothingVanishes' /\ LineageIsSound' /\ LatestIsActive'
    BY <1>1, <1>3
    DEF GraphInv, OneMemoryPerFact, NothingVanishes, LineageIsSound, LatestIsActive
<1>5. ExactIsSound' /\ NothingLearnedBefore' /\ AnswersAreKept'
    BY DEF GraphInv, ExactIsSound, NothingLearnedBefore, AnswersAreKept, Nowhere
<1> QED BY <1>2, <1>4, <1>5 DEF GraphInv

LEMMA BeginKeeps == ASSUME GraphInv, NEW d \in Docs, Begin(d) PROVE GraphInv'
<1>1. Rows' = Rows
    BY DEF Begin, Rows
<1>2. ASSUME NEW f \in Facts
      PROVE  /\ exact'[f] \in 0 .. count
             /\ exact'[f] = 0 => Known(f) = {}
             /\ exact'[f] # 0 => exact'[f] \in Known(f)
    <2>1. Known(f) \subseteq 1 .. count
        BY DEF Known, Rows
    <2>2. CASE Known(f) = {}
        <3>1. exact'[f] = 0
            BY <2>2 DEF Begin
        <3> QED BY <2>2, <3>1 DEF GraphInv, Types
    <2>3. CASE Known(f) # {}
        <3>1. PICK m \in Known(f) : TRUE
            BY <2>3
        <3>2. \A n \in Known(f) : n = m
            BY <3>1 DEF GraphInv, OneMemoryPerFact, Known
        <3>3. memories[m].version <= memories[m].version
            BY <2>1, <3>1 DEF GraphInv, Types, Rows, Memory
        <3>4. \E k \in Known(f) : \A n \in Known(f) : memories[n].version <= memories[k].version
            BY <3>1, <3>2, <3>3
        <3>5. exact'[f] \in Known(f)
            BY <2>3, <3>4 DEF Begin
        <3> QED BY <2>1, <3>5 DEF GraphInv, Types
    <2> QED BY <2>2, <2>3
<1>3. exact' = [f \in Facts |-> exact'[f]]
    BY DEF Begin
<1>4. exact' \in [Facts -> 0 .. count]
    BY <1>2, <1>3
<1>5. Types'
    <2>1. /\ tx' \in Docs \cup {NoDoc} /\ first' = count
          /\ UNCHANGED <<count, memories, relations, extractions, learned>>
        BY DEF Begin
    <2>2. first' \in 0 .. count
        BY <2>1, GraphAssumption DEF GraphInv, Types
    <2> QED BY <1>1, <1>4, <2>1, <2>2 DEF GraphInv, Types
<1>6. /\ \A m : (FactOf(m))' = FactOf(m) /\ (Current(m))' = Current(m)
      /\ \A f : (Known(f))' = Known(f)
    BY DEF FactOf, Current, Known, Rows, Begin
<1>7. OneMemoryPerFact' /\ NothingVanishes' /\ LineageIsSound' /\ LatestIsActive'
    BY <1>1, <1>6
    DEF GraphInv, OneMemoryPerFact, NothingVanishes, LineageIsSound, LatestIsActive, Begin
<1>8. ExactIsSound'
    BY <1>2, <1>6 DEF ExactIsSound, Known
<1>9. learned' = Nowhere
    BY DEF Begin, GraphInv, NothingLearnedBefore
<1>10. AnswersAreKept' /\ NothingLearnedBefore'
    BY <1>9 DEF AnswersAreKept, NothingLearnedBefore, Nowhere
<1> QED BY <1>5, <1>7, <1>8, <1>10 DEF GraphInv

LEMMA CommitKeeps == ASSUME GraphInv, Commit PROVE GraphInv'
<1>1. Rows' = Rows /\ tx \in Docs
    BY DEF Commit, Rows, GraphInv, Types
<1>2. Types'
    <2>1. extractions' = [extractions EXCEPT ![tx] = "idle"] /\ "idle" \in Extraction
        BY DEF Commit, Extraction
    <2>2. exact' \in [Facts -> 0 .. count] /\ learned' \in [Facts -> 0 .. count]
          /\ first' \in 0 .. count
        BY DEF Commit, Nowhere, GraphInv, Types
    <2>3. extractions' \in [Docs -> Extraction]
        BY <2>1 DEF GraphInv, Types
    <2>4. /\ count' = count /\ memories' = memories /\ relations' = relations
          /\ tx' \in Docs \cup {NoDoc}
        BY DEF Commit
    <2> QED BY <1>1, <2>2, <2>3, <2>4 DEF GraphInv, Types
<1>3. \A m : (FactOf(m))' = FactOf(m) /\ (Current(m))' = Current(m)
    BY DEF FactOf, Current, Commit
<1>4. OneMemoryPerFact' /\ NothingVanishes' /\ LineageIsSound' /\ LatestIsActive'
    BY <1>1, <1>3
    DEF GraphInv, OneMemoryPerFact, NothingVanishes, LineageIsSound, LatestIsActive, Commit
<1>5. ExactIsSound' /\ NothingLearnedBefore' /\ AnswersAreKept'
    BY DEF Commit, ExactIsSound, NothingLearnedBefore, AnswersAreKept, Nowhere
<1> QED BY <1>2, <1>4, <1>5 DEF GraphInv

-----------------------------------------------------------------------------
(* The proposals of a reconciliation.                                      *)

LEMMA AddSourceKeeps == ASSUME GraphInv, NEW c \in Contents, AddSource(c) PROVE GraphInv'
<1> DEFINE fact == Normal[c]
<1>0. fact \in Facts
    BY GraphAssumption
<1> HIDE DEF fact
<1>1. PICK m : m = exact[fact]
    OBVIOUS
<1>2. /\ m # 0 /\ tx # NoDoc /\ tx \in Docs
      /\ memories' = [memories EXCEPT ![m] = [memories[m] EXCEPT !.sources = @ \cup {tx}]]
      /\ learned' = [learned EXCEPT ![fact] = m]
      /\ UNCHANGED <<count, relations, extractions, tx, exact, first>>
    <2>1. m # 0 /\ tx # NoDoc /\ tx \in Docs
        BY <1>1 DEF AddSource, Proposable, fact, GraphInv, Types
    <2>2. memories' = [memories EXCEPT ![m] = [memories[m] EXCEPT !.sources = @ \cup {tx}]]
        BY <1>1 DEF AddSource, fact
    <2>3. /\ learned' = [learned EXCEPT ![fact] = m]
          /\ UNCHANGED <<count, relations, extractions, tx, exact, first>>
        BY <1>1 DEF AddSource, fact
    <2> QED BY <2>1, <2>2, <2>3
<1>3. m \in Rows /\ Rows' = Rows
      /\ \A n \in Rows : n \in Ids /\ memories[n] \in Memory
    BY <1>0, <1>1, <1>2, GraphAssumption DEF Rows, GraphInv, Types, Ids
<1>4. PICK new : new = [memories[m] EXCEPT !.sources = @ \cup {tx}]
    OBVIOUS
<1>5. /\ Same(new, memories[m])
      /\ new.latest = memories[m].latest /\ new.forgotten = memories[m].forgotten
      /\ new.active = memories[m].active /\ new.sources = memories[m].sources \cup {tx}
    BY <1>2, <1>3, <1>4, SourceAdded
<1>6. /\ memories' \in [Ids -> Memory \cup {NoMemory}]
      /\ \A n \in Rows : memories'[n] = IF n = m THEN new ELSE memories[n]
    BY <1>2, <1>3, <1>4, <1>5 DEF GraphInv, Types, Same
<1>7. \A n \in Rows : /\ Same(memories'[n], memories[n])
                      /\ memories'[n].latest = memories[n].latest
                      /\ memories'[n].forgotten = memories[n].forgotten
                      /\ memories'[n].active = memories[n].active
                      /\ memories[n].sources \subseteq memories'[n].sources
    BY <1>3, <1>5, <1>6 DEF Same
<1>8. Types'
    <2>1. learned' \in [Facts -> 0 .. count]
        BY <1>0, <1>1, <1>2 DEF GraphInv, Types
    <2> QED BY <1>2, <1>3, <1>6, <1>7, <2>1 DEF GraphInv, Types, Same
<1>9. \A n \in Rows : (FactOf(n))' = FactOf(n) /\ ((Current(n))' <=> Current(n))
    BY <1>7 DEF FactOf, Same, Current
<1>10. \A f : (Known(f))' = Known(f)
    BY <1>3, <1>9 DEF Known
<1>11. \A n : (UpdatedSince(n))' = UpdatedSince(n)
    BY <1>2 DEF UpdatedSince
<1>12. OneMemoryPerFact'
    BY <1>3, <1>9 DEF GraphInv, OneMemoryPerFact
<1>13. NothingVanishes'
    BY <1>2, <1>3, <1>7 DEF GraphInv, NothingVanishes
<1>14. LineageIsSound'
    <2>1. ASSUME NEW n \in Rows
          PROVE  LET row == memories'[n]
                 IN  \/ row.parent = 0 /\ row.root = 0 /\ row.version = 1
                     \/ /\ row.parent \in 1 .. n - 1
                        /\ row.version = memories'[row.parent].version + 1
                        /\ row.root \in 1 .. n - 1
                        /\ memories'[row.root].parent = 0
                        /\ \/ row.root = row.parent
                           \/ row.root = memories'[row.parent].root
        <3>1. \A k \in 1 .. n - 1 : k \in Rows
            BY <2>1, GraphAssumption DEF Rows, GraphInv, Types
        <3> QED BY <1>7, <2>1, <3>1 DEF GraphInv, LineageIsSound, Same
    <2> QED BY <1>3, <2>1 DEF LineageIsSound
<1>15. LatestIsActive'
    BY <1>3, <1>7 DEF GraphInv, LatestIsActive
<1>16. \A f \in Facts : exact[f] # 0 => exact[f] \in Rows
    BY DEF GraphInv, Types, Rows
<1>17. ExactIsSound'
    BY <1>2, <1>9, <1>10, <1>11, <1>16 DEF GraphInv, ExactIsSound
<1>18. NothingLearnedBefore'
    BY <1>2 DEF NothingLearnedBefore
<1>19. AnswersAreKept'
    <2>1. ASSUME NEW f \in Facts, learned'[f] # 0
          PROVE  /\ (FactOf(learned[f]))' = f \/ f = fact
                 /\ LET n == learned'[f]
                    IN  /\ Normal[memories'[n].content] = f
                        /\ tx \in memories'[n].sources
                        /\ (Current(n) \/ UpdatedSince(n))
                        /\ n \in Rows
        <3>1. CASE f = fact
            <4>1. learned'[f] = m
                BY <1>0, <1>2, <3>1 DEF GraphInv, Types
            <4>2. FactOf(m) = f /\ (Current(m) \/ UpdatedSince(m))
                BY <1>0, <1>1, <1>2, <3>1 DEF GraphInv, ExactIsSound
            <4>3. Normal[memories'[m].content] = f /\ tx \in memories'[m].sources
                BY <1>3, <1>5, <1>6, <4>2 DEF Same, FactOf
            <4> QED BY <1>3, <3>1, <4>1, <4>2, <4>3
        <3>2. CASE f # fact
            <4>1. learned'[f] = learned[f]
                BY <1>2, <3>2 DEF GraphInv, Types
            <4>2. learned[f] \in Rows
                BY <2>1, <4>1 DEF GraphInv, Types, Rows
            <4>3. /\ FactOf(learned[f]) = f /\ tx \in memories[learned[f]].sources
                  /\ Current(learned[f]) \/ UpdatedSince(learned[f])
                BY <2>1, <4>1 DEF GraphInv, AnswersAreKept, UpdatedSince
            <4>4. Normal[memories'[learned[f]].content] = f
                BY <1>7, <4>2, <4>3 DEF Same, FactOf
            <4> QED BY <1>7, <4>1, <4>2, <4>3, <4>4 DEF FactOf
        <3> QED BY <3>1, <3>2
    <2> QED BY <1>2, <1>9, <1>11, <2>1 DEF AnswersAreKept, UpdatedSince, FactOf
<1> QED BY <1>8, <1>12, <1>13, <1>14, <1>15, <1>17, <1>18, <1>19 DEF GraphInv

\* The row a proposal becomes.
LEMMA RowInserted ==
    ASSUME GraphInv, NEW c \in Contents, NEW p \in Rows \cup {0}, tx \in Docs
    PROVE  /\ NewMemory(c, p) \in Memory
           /\ NewMemory(c, p).content = c /\ NewMemory(c, p).parent = p
           /\ NewMemory(c, p).latest /\ NewMemory(c, p).active
           /\ ~NewMemory(c, p).forgotten /\ tx \in NewMemory(c, p).sources
           /\ NewMemory(c, p).root = RootOf(p) /\ NewMemory(c, p).version = VersionOf(p)
<1>1. VersionOf(p) \in Nat /\ RootOf(p) \in 0 .. MaxMemories /\ p \in 0 .. MaxMemories
    <2>1. CASE p = 0
        BY <2>1, GraphAssumption DEF VersionOf, RootOf
    <2>2. CASE p \in Rows
        <3>1. memories[p] \in Memory /\ p # 0 /\ p \in 0 .. MaxMemories
            BY <2>2, GraphAssumption DEF GraphInv, Types, Rows
        <3> QED BY <3>1, GraphAssumption DEF VersionOf, RootOf, Memory
    <2> QED BY <2>1, <2>2
<1>2. \A b \in {"never", "later"} : b \in {"never", "later", "past"}
    OBVIOUS
<1> HIDE DEF VersionOf, RootOf
<1> QED BY <1>1, <1>2, GraphAssumption DEF NewMemory, Memory

LEMMA InsertKeeps ==
    ASSUME GraphInv, NEW c \in Contents, InsertSome(c)
    PROVE  GraphInv'
<1> DEFINE fact == Normal[c]
<1>0. fact \in Facts
    BY GraphAssumption
<1>1. PICK parents \in SUBSET (Named \X Relations) :
          \E primary \in Primaries(parents) : Insert(c, primary, parents)
    BY DEF InsertSome
<1>a. PICK primary \in Primaries(parents) : Insert(c, primary, parents)
    BY <1>1
<1>2. tx # NoDoc /\ tx \in Docs
    BY DEF InsertSome, Proposable, GraphInv, Types
<1>3. /\ \A p \in parents : p[1] \in Rows /\ p[2] \in Relations
      /\ \A m : <<m, "updates">> \in parents => m \in Rows
    BY <1>1 DEF Named
<1>4. primary \in Rows \cup {0}
    BY <1>3 DEF Primaries
<1>5. PICK new : new = count + 1
    OBVIOUS
<1>6. /\ count \in Nat /\ new \in Ids /\ new = count + 1 /\ new \notin Rows
      /\ count' = new /\ Rows' = Rows \cup {new}
      /\ \A m \in Rows : m \in Ids /\ m < new /\ memories[m] \in Memory
    BY <1>a, <1>5, GraphAssumption DEF Insert, GraphInv, Types, Rows, Ids
<1>7. PICK row : row = NewMemory(c, primary)
    OBVIOUS
<1>8. /\ row \in Memory /\ row.content = c /\ row.parent = primary
      /\ row.latest /\ row.active /\ ~row.forgotten /\ tx \in row.sources
      /\ row.root = RootOf(primary) /\ row.version = VersionOf(primary)
    BY <1>2, <1>4, <1>7, RowInserted
<1>9. memories' = [m \in Ids |->
          IF m = new THEN row
          ELSE IF <<m, "updates">> \in parents THEN Superseded(m)
          ELSE memories[m]]
    BY <1>a, <1>5, <1>7 DEF Insert
<1>10. /\ exact[fact] = 0
       /\ exact' = [exact EXCEPT ![fact] = new] /\ learned' = [learned EXCEPT ![fact] = new]
       /\ relations' = relations \cup Related(new, parents)
       /\ UNCHANGED <<extractions, tx, first>>
    BY <1>a, <1>5 DEF Insert
<1> HIDE DEF fact
<1>11. \A m \in Rows :
          /\ Same(memories'[m], memories[m])
          /\ memories'[m].latest => memories[m].latest /\ memories'[m].active
          /\ memories'[m].forgotten = memories[m].forgotten
          /\ memories'[m].sources = memories[m].sources
          /\ \/ memories'[m].latest = memories[m].latest
             \/ <<m, "updates">> \in parents
    <2>1. ASSUME NEW m \in Rows
          PROVE  \/ memories'[m] = memories[m]
                 \/ /\ memories'[m] = Superseded(m)
                    /\ <<m, "updates">> \in parents
        BY <1>6, <1>9
    <2>2. ASSUME NEW m \in Rows
          PROVE  /\ Same(Superseded(m), memories[m])
                 /\ ~Superseded(m).latest
                 /\ Superseded(m).forgotten = memories[m].forgotten
                 /\ Superseded(m).sources = memories[m].sources
        BY <1>6, RowSuperseded DEF Superseded
    <2>3. \A m \in Rows : Same(memories[m], memories[m])
        BY <1>6 DEF Same
    <2>4. \A m \in Rows : memories[m].latest => memories[m].active
        BY DEF GraphInv, LatestIsActive
    <2>5. ASSUME NEW m \in Rows, memories'[m] = memories[m]
          PROVE  /\ Same(memories'[m], memories[m])
                 /\ memories'[m].latest => memories[m].latest /\ memories'[m].active
                 /\ memories'[m].forgotten = memories[m].forgotten
                 /\ memories'[m].sources = memories[m].sources
                 /\ memories'[m].latest = memories[m].latest
        BY <2>3, <2>4, <2>5
    <2>6. ASSUME NEW m \in Rows, memories'[m] = Superseded(m)
          PROVE  /\ Same(memories'[m], memories[m])
                 /\ ~memories'[m].latest
                 /\ memories'[m].forgotten = memories[m].forgotten
                 /\ memories'[m].sources = memories[m].sources
        BY <2>2, <2>6
    <2> QED BY <2>1, <2>5, <2>6
<1>12. memories'[new] = row
    BY <1>6, <1>9
<1>13. Related(new, parents) \subseteq Relation
       /\ \A m : <<m, "updates">> \in parents =>
              \E r \in Related(new, parents) :
                  r.parent = m /\ r.relation = "updates" /\ r.child = new
    <2>1. \A p \in parents : p[1] \in Ids /\ p[2] \in Relations
        BY <1>3, <1>6
    <2>2. \A p \in parents :
              LET r == [parent |-> p[1], child |-> new, relation |-> p[2]]
              IN  /\ r \in Relation /\ r \in Related(new, parents)
                  /\ r.parent = p[1] /\ r.relation = p[2] /\ r.child = new
        BY <1>6, <2>1 DEF Relation, Related
    <2>3. Related(new, parents) \subseteq Relation
        BY <2>2 DEF Related
    <2>4. ASSUME NEW m, <<m, "updates">> \in parents
          PROVE  \E r \in Related(new, parents) :
                     r.parent = m /\ r.relation = "updates" /\ r.child = new
        <3>1. PICK p \in parents : p = <<m, "updates">>
            BY <2>4
        <3>2. p[1] = m /\ p[2] = "updates"
            BY <3>1
        <3> QED BY <2>2, <3>2
    <2> QED BY <2>3, <2>4
<1>14. \A m \in Rows :
          \/ memories'[m].latest \/ ~memories[m].latest
          \/ /\ (UpdatedSince(m))'
             /\ \E r \in relations' : r.parent = m /\ r.relation = "updates" /\ r.child > m
    <2>1. first' = first /\ first < new
        BY <1>6, <1>10 DEF GraphInv, Types
    <2>2. ASSUME NEW m \in Rows, ~memories'[m].latest, memories[m].latest
          PROVE  /\ (UpdatedSince(m))'
                 /\ \E r \in relations' :
                        r.parent = m /\ r.relation = "updates" /\ r.child > m
        <3>1. <<m, "updates">> \in parents
            BY <1>11, <2>2
        <3>2. PICK r \in Related(new, parents) :
                  r.parent = m /\ r.relation = "updates" /\ r.child = new
            BY <1>13, <3>1
        <3>3. r \in relations' /\ r.child > m /\ r.child > first'
            BY <1>6, <1>10, <2>1, <3>2 DEF GraphInv, Types, Rows
        <3> QED BY <3>2, <3>3 DEF UpdatedSince
    <2> QED BY <2>2
<1>15. \A m \in Rows : /\ (FactOf(m))' = FactOf(m)
                       /\ (Current(m))' => Current(m)
                       /\ Current(m) => (Current(m))' \/ (UpdatedSince(m))'
                       /\ UpdatedSince(m) => (UpdatedSince(m))'
    <2>1. \A m \in Rows : (FactOf(m))' = FactOf(m)
        BY <1>11 DEF FactOf, Same
    <2>2. \A m \in Rows : (Current(m))' => Current(m)
        BY <1>11 DEF Current
    <2>3. \A m \in Rows : Current(m) => (Current(m))' \/ (UpdatedSince(m))'
        BY <1>11, <1>14 DEF Current
    <2>4. \A m \in Rows : UpdatedSince(m) => (UpdatedSince(m))'
        BY <1>10 DEF UpdatedSince
    <2> QED BY <2>1, <2>2, <2>3, <2>4
<1>16. (FactOf(new))' = fact /\ (Current(new))'
    BY <1>8, <1>12 DEF FactOf, Current, fact
<1>17. Types'
    <2>1. memories' \in [Ids -> Memory \cup {NoMemory}]
        <3>1. \A m \in Ids \ Rows : m = new \/ memories'[m] = memories[m]
            BY <1>3, <1>9
        <3>2. \A m \in Ids : memories'[m] \in Memory \cup {NoMemory}
            BY <1>8, <1>11, <1>12, <3>1 DEF Same, GraphInv, Types
        <3>3. memories' = [m \in Ids |-> memories'[m]]
            BY <1>9
        <3> QED BY <3>2, <3>3
    <2>2. count' \in 0 .. MaxMemories
        BY <1>6, GraphAssumption DEF Ids
    <2>3. \A m \in Rows' : memories'[m] \in Memory
        BY <1>6, <1>8, <1>11, <1>12 DEF Same
    <2>4. relations' \subseteq Relation
        BY <1>10, <1>13 DEF GraphInv, Types
    <2>5. /\ exact' \in [Facts -> 0 .. count'] /\ learned' \in [Facts -> 0 .. count']
          /\ first' \in 0 .. count'
        <3>1. 0 .. count \subseteq 0 .. count' /\ new \in 0 .. count'
            BY <1>6
        <3>2. /\ exact \in [Facts -> 0 .. count] /\ learned \in [Facts -> 0 .. count]
              /\ first \in 0 .. count
            BY DEF GraphInv, Types
        <3> QED BY <1>10, <3>1, <3>2
    <2>6. extractions' \in [Docs -> Extraction] /\ tx' \in Docs \cup {NoDoc}
        BY <1>10 DEF GraphInv, Types
    <2> QED BY <2>1, <2>2, <2>3, <2>4, <2>5, <2>6 DEF Types
<1>18. \A m \in Rows : Current(m) => FactOf(m) # fact
    BY <1>0, <1>2, <1>10 DEF GraphInv, ExactIsSound, Known
<1>19. OneMemoryPerFact'
    <2>1. ASSUME NEW m \in Rows', NEW n \in Rows', (Current(m))', (Current(n))',
                 (FactOf(m))' = (FactOf(n))'
          PROVE  m = n
        <3>1. CASE m \in Rows /\ n \in Rows
            BY <1>15, <2>1, <3>1 DEF GraphInv, OneMemoryPerFact
        <3>2. CASE m = new \/ n = new
            BY <1>6, <1>15, <1>16, <1>18, <2>1, <3>2
        <3> QED BY <1>6, <3>1, <3>2
    <2> QED BY <2>1 DEF OneMemoryPerFact
<1>20. NothingVanishes'
    <2>1. ASSUME NEW m \in Rows
          PROVE  \/ memories'[m].latest \/ memories'[m].forgotten
                 \/ \E r \in relations' :
                        r.parent = m /\ r.relation = "updates" /\ r.child > m
        <3>1. \/ memories[m].latest \/ memories[m].forgotten
              \/ \E r \in relations : r.parent = m /\ r.relation = "updates" /\ r.child > m
            BY DEF GraphInv, NothingVanishes
        <3> QED BY <1>10, <1>11, <1>14, <3>1
    <2> QED BY <1>6, <1>8, <1>12, <2>1 DEF NothingVanishes
<1>21. LineageIsSound'
    <2> DEFINE Sound(m) ==
            LET line == memories'[m]
            IN  \/ line.parent = 0 /\ line.root = 0 /\ line.version = 1
                \/ /\ line.parent \in 1 .. m - 1
                   /\ line.version = memories'[line.parent].version + 1
                   /\ line.root \in 1 .. m - 1
                   /\ memories'[line.root].parent = 0
                   /\ \/ line.root = line.parent
                      \/ line.root = memories'[line.parent].root
    <2>1. ASSUME NEW m \in Rows PROVE Sound(m)
        <3>1. \A k \in 1 .. m - 1 : k \in Rows
            BY <2>1, GraphAssumption DEF Rows, GraphInv, Types
        <3>2. \A k \in Rows : /\ memories'[k].parent = memories[k].parent
                              /\ memories'[k].root = memories[k].root
                              /\ memories'[k].version = memories[k].version
            BY <1>11 DEF Same
        <3> QED BY <2>1, <3>1, <3>2 DEF GraphInv, LineageIsSound
    <2>2. Sound(new)
        <3>1. CASE primary = 0
            BY <1>8, <1>12, <3>1 DEF RootOf, VersionOf
        <3>2. CASE primary \in Rows
            <4>1. /\ primary \in 1 .. new - 1 /\ primary # 0 /\ primary \in Rows
                  /\ 1 .. new - 1 = Rows
                BY <1>6, <3>2 DEF Rows
            <4>2. /\ row.parent = primary
                  /\ row.version = memories[primary].version + 1
                  /\ row.root = IF memories[primary].root = 0 THEN primary
                                ELSE memories[primary].root
                BY <1>8, <4>1 DEF RootOf, VersionOf
            <4>3. \/ /\ memories[primary].parent = 0 /\ memories[primary].root = 0
                  \/ /\ memories[primary].root \in 1 .. primary - 1
                     /\ memories[memories[primary].root].parent = 0
                BY <4>1 DEF GraphInv, LineageIsSound
            <4>4. \A k \in 1 .. primary - 1 : k \in Rows
                BY <4>1, <1>6
            <4>5. row.root \in Rows /\ memories[row.root].parent = 0
                  /\ (row.root = primary \/ row.root = memories[primary].root)
                BY <4>1, <4>2, <4>3, <4>4
            <4>6. /\ memories'[primary].version = memories[primary].version
                  /\ memories'[primary].root = memories[primary].root
                  /\ memories'[row.root].parent = 0
                BY <1>11, <4>1, <4>5 DEF Same
            <4> QED BY <1>12, <4>1, <4>2, <4>5, <4>6
        <3> QED BY <1>4, <3>1, <3>2
    <2> QED BY <1>6, <2>1, <2>2 DEF LineageIsSound
<1>22. LatestIsActive'
    BY <1>6, <1>8, <1>11, <1>12 DEF LatestIsActive
<1>23. \A f \in Facts : /\ exact[f] # 0 => exact[f] \in Rows
                        /\ learned[f] # 0 => learned[f] \in Rows
    BY DEF GraphInv, Types, Rows
<1>24. \A f \in Facts : /\ exact'[f] = IF f = fact THEN new ELSE exact[f]
                        /\ learned'[f] = IF f = fact THEN new ELSE learned[f]
    BY <1>10 DEF GraphInv, Types
<1>25. ExactIsSound'
    <2>1. ASSUME NEW f \in Facts, exact'[f] = 0
          PROVE  (Known(f))' = {}
        <3>1. f # fact /\ Known(f) = {}
            BY <1>2, <1>6, <1>24, <2>1 DEF GraphInv, ExactIsSound
        <3>2. \A m \in Rows' : ~((FactOf(m))' = f /\ (Current(m))')
            BY <1>6, <1>15, <1>16, <3>1 DEF Known
        <3> QED BY <3>2 DEF Known
    <2>2. ASSUME NEW f \in Facts, exact'[f] # 0, NEW n, n = exact'[f]
          PROVE  (FactOf(n))' = f /\ ((Current(n))' \/ (UpdatedSince(n))')
        <3>1. CASE f = fact
            BY <1>16, <1>24, <2>2, <3>1
        <3>2. CASE f # fact
            <4>1. n = exact[f] /\ n \in Rows
                BY <1>23, <1>24, <2>2, <3>2
            <4>2. FactOf(n) = f /\ (Current(n) \/ UpdatedSince(n))
                BY <1>2, <2>2, <4>1, <1>24, <3>2 DEF GraphInv, ExactIsSound
            <4> QED BY <1>15, <4>1, <4>2
        <3> QED BY <3>1, <3>2
    <2>3. ASSUME NEW f \in Facts, exact'[f] # 0
          PROVE  /\ (FactOf(exact[f]))' = f
                 /\ (Current(exact[f]))' \/ (UpdatedSince(exact[f]))'
        BY <2>2, <2>3 DEF FactOf, Current, UpdatedSince
    <2> QED BY <2>1, <2>3 DEF ExactIsSound
<1>26. NothingLearnedBefore'
    BY <1>2, <1>10 DEF NothingLearnedBefore
<1>27. AnswersAreKept'
    <2>1. ASSUME NEW f \in Facts, learned'[f] # 0, NEW n, n = learned'[f]
          PROVE  /\ (FactOf(n))' = f /\ ((Current(n))' \/ (UpdatedSince(n))')
                 /\ tx' \in memories'[n].sources
        <3>1. CASE f = fact
            BY <1>8, <1>10, <1>12, <1>16, <1>24, <2>1, <3>1
        <3>2. CASE f # fact
            <4>1. n = learned[f] /\ n \in Rows /\ n # 0
                BY <1>23, <1>24, <2>1, <3>2
            <4>2. /\ FactOf(n) = f /\ (Current(n) \/ UpdatedSince(n))
                  /\ tx \in memories[n].sources
                BY <4>1 DEF GraphInv, AnswersAreKept, UpdatedSince
            <4> QED BY <1>10, <1>11, <1>15, <4>1, <4>2
        <3> QED BY <3>1, <3>2
    <2> QED BY <2>1 DEF AnswersAreKept, FactOf, Current, UpdatedSince
<1> QED BY <1>17, <1>19, <1>20, <1>21, <1>22, <1>25, <1>26, <1>27 DEF GraphInv

-----------------------------------------------------------------------------
LEMMA GraphStep == GraphInv /\ [Next]_vars => GraphInv'
<1> SUFFICES ASSUME GraphInv, [Next]_vars PROVE GraphInv'
    OBVIOUS
<1>0. {"idle", "asked", "stale"} \subseteq Extraction
    BY DEF Extraction
<1>1. ASSUME NEW d \in Docs, Extract(d) PROVE GraphInv'
    BY <1>0, <1>1, ExtractionsKeep DEF Extract
<1>2. ASSUME NEW d \in Docs, EditDocument(d) PROVE GraphInv'
    BY <1>0, <1>2, ExtractionsKeep DEF EditDocument
<1>3. ASSUME NEW d \in Docs, Refuse(d) PROVE GraphInv'
    BY <1>0, <1>3, ExtractionsKeep DEF Refuse
<1>4. ASSUME NEW c \in Contents, ForgetByContent(c) PROVE GraphInv'
    BY <1>4, ForgetKeeps DEF ForgetByContent
<1>5. ASSUME NEW m \in Ids, ForgetById(m) PROVE GraphInv'
    BY <1>5, ForgetKeeps DEF ForgetById
<1>6. CASE UNCHANGED vars
    BY <1>6 DEF vars, GraphInv, Types, OneMemoryPerFact, NothingVanishes, LineageIsSound,
                LatestIsActive, ExactIsSound, NothingLearnedBefore, AnswersAreKept, Rows,
                FactOf, Current, Known, UpdatedSince
<1> QED BY <1>1, <1>2, <1>3, <1>4, <1>5, <1>6, BeginKeeps, AddSourceKeeps, InsertKeeps,
           CommitKeeps, ExpireKeeps DEF Next

LEMMA GraphIsSound == Spec => []GraphInv
BY GraphInit, GraphStep, PTL DEF Spec

\* Whatever is extracted, proposed, edited, forgotten and expired in whatever
\* order, a fact never has two current memories.
THEOREM FactsAreUnique == Spec => []OneMemoryPerFact
<1>1. GraphInv => OneMemoryPerFact
    BY DEF GraphInv
<1> QED BY <1>1, GraphIsSound, PTL

\* A version is only ever replaced by a newer one or forgotten.
THEOREM VersionsAreAccountedFor == Spec => []NothingVanishes
<1>1. GraphInv => NothingVanishes
    BY DEF GraphInv
<1> QED BY <1>1, GraphIsSound, PTL

\* Versions of a memory form trees of older rows with one root, for any number
\* of parents a proposal may name.
THEOREM LineagesAreTrees == Spec => []LineageIsSound
<1>1. GraphInv => LineageIsSound
    BY DEF GraphInv
<1> QED BY <1>1, GraphIsSound, PTL

\* A reconciliation loses nothing of its answer.
THEOREM AnswersAreInTheGraph == Spec => []AnswersAreKept
<1>1. GraphInv => AnswersAreKept
    BY DEF GraphInv
<1> QED BY <1>1, GraphIsSound, PTL

\* Of memories with different facts, none of them excluded, a profile that is
\* not full shows all that have words: at most one of the rows read has none.
LEMMA ProfileShowsAll ==
    ASSUME GraphInv, NEW S \in SUBSET Rows, \A m \in S : Current(m),
           NEW excluded, \A m \in S : FactOf(m) \notin excluded,
           NEW shown \in Profiles(S, excluded)
    PROVE  /\ shown \subseteq S
           /\ \A m \in S : \/ m \in shown
                           \/ FactOf(m) = Wordless
                           \/ Cardinality(shown) = ProfileLimit
<1>1. PICK read \in SUBSET S :
          /\ read = S \/ Cardinality(read) = RowLimit
          /\ shown \subseteq read
          /\ Cardinality(shown) <= ProfileLimit
          /\ \/ Cardinality(shown) = ProfileLimit
             \/ \A m \in read : FactOf(m) \notin excluded \cup {Wordless} =>
                    \E n \in shown : FactOf(n) = FactOf(m)
    BY DEF Profiles
<1>2. \A m, n \in S : FactOf(m) = FactOf(n) => m = n
    BY DEF GraphInv, OneMemoryPerFact
<1>3. SUFFICES ASSUME NEW m \in S, m \notin shown, FactOf(m) # Wordless,
                      Cardinality(shown) # ProfileLimit
               PROVE  FALSE
    BY <1>1
\* Whatever was read and has words is shown.
<1>4. \A k \in read : k \in shown \/ FactOf(k) = Wordless
    BY <1>1, <1>2, <1>3
<1>5. m \notin read /\ Cardinality(read) = RowLimit
    BY <1>1, <1>3, <1>4
<1>6. IsFiniteSet(read) /\ IsFiniteSet(shown)
    <2>1. IsFiniteSet(1 .. count)
        BY FS_Interval, GraphAssumption DEF GraphInv, Types
    <2> QED BY <1>1, <2>1, FS_Subset DEF Rows
<1>7. \E w : read \subseteq shown \cup {w}
    <2>1. CASE \E w \in read : FactOf(w) = Wordless
        <3>1. PICK w \in read : FactOf(w) = Wordless
            BY <2>1
        <3> QED BY <1>1, <1>2, <1>4, <3>1
    <2>2. CASE ~\E w \in read : FactOf(w) = Wordless
        BY <1>4, <2>2
    <2> QED BY <2>1, <2>2
<1>8. PICK w : read \subseteq shown \cup {w}
    BY <1>7
<1>9. /\ IsFiniteSet(shown \cup {w})
      /\ Cardinality(shown \cup {w}) <= Cardinality(shown) + 1
    <2>1. Cardinality(shown) \in Nat
        BY <1>6, FS_CardinalityType
    <2>2. /\ IsFiniteSet(shown \cup {w})
          /\ \/ Cardinality(shown \cup {w}) = Cardinality(shown)
             \/ Cardinality(shown \cup {w}) = Cardinality(shown) + 1
        BY <1>6, FS_AddElement
    <2> QED BY <2>1, <2>2
<1>10. Cardinality(read) <= Cardinality(shown \cup {w})
    BY <1>8, <1>9, FS_Subset
<1>11. /\ Cardinality(read) \in Nat /\ Cardinality(shown) \in Nat
       /\ Cardinality(shown \cup {w}) \in Nat
    BY <1>6, <1>9, FS_CardinalityType
<1> QED BY <1>1, <1>3, <1>5, <1>9, <1>10, <1>11, GraphAssumption

\* What can be found and what a profile shows are the same, but for texts without
\* words and profiles that are full.
THEOREM SearchShowsTheProfile == Spec => []SearchAndProfileAgree
<1>1. GraphInv => SearchAndProfileAgree
    <2> SUFFICES ASSUME GraphInv, NEW static \in StaticProfiles,
                        NEW dynamic \in DynamicProfiles(static)
                 PROVE  /\ static \cup dynamic \subseteq Searchable
                        /\ \A m \in Searchable :
                              \/ m \in static \cup dynamic
                              \/ FactOf(m) = Wordless
                              \/ Cardinality(IF memories[m].static THEN static
                                             ELSE dynamic) = ProfileLimit
        BY DEF SearchAndProfileAgree
    <2>1. Searchable = {m \in Rows : Visible(m)}
        BY DEF GraphInv, LatestIsActive, Searchable, Visible, Current
    <2>2. /\ static \subseteq Static
          /\ \A m \in Static : \/ m \in static
                                \/ FactOf(m) = Wordless
                                \/ Cardinality(static) = ProfileLimit
        <3>1. PICK S : S = Static
            OBVIOUS
        <3>2. S \in SUBSET Rows /\ \A m \in S : Current(m)
            BY <3>1 DEF Static, Visible
        <3>3. static \in Profiles(S, {})
            BY <3>1 DEF StaticProfiles
        <3> QED BY <3>1, <3>2, <3>3, ProfileShowsAll
    <2>3. /\ dynamic \subseteq Dynamic
          /\ \A m \in Dynamic : \/ m \in dynamic
                                 \/ FactOf(m) = Wordless
                                 \/ Cardinality(dynamic) = ProfileLimit
        <3>1. PICK S, F : S = Dynamic /\ F = {FactOf(m) : m \in static}
            OBVIOUS
        <3>2. S \in SUBSET Rows /\ \A m \in S : Current(m)
            BY <3>1 DEF Dynamic, Visible
        <3>3. \A m \in S : FactOf(m) \notin F
            BY <2>2, <3>1 DEF GraphInv, OneMemoryPerFact, Static, Dynamic, Visible
        <3>4. dynamic \in Profiles(S, F)
            BY <3>1 DEF DynamicProfiles
        <3> QED BY <3>1, <3>2, <3>3, <3>4, ProfileShowsAll
    <2>4. \A m \in Searchable : IF memories[m].static THEN m \in Static ELSE m \in Dynamic
        BY <2>1 DEF Static, Dynamic
    <2>5. Static \cup Dynamic \subseteq Searchable
        BY <2>1 DEF Static, Dynamic
    <2> QED BY <2>1, <2>2, <2>3, <2>4, <2>5
<1> QED BY <1>1, GraphIsSound, PTL
================================================================================
