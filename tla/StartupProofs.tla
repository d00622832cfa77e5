----------------------------- MODULE StartupProofs -----------------------------
(* What the start of the service keeps over every sequence of starts, stops,    *)
(* snapshots and edits, for any documents, providers and snapshots.             *)
EXTENDS Startup, TLAPS

\* How far an import has come: it works on a snapshot that is not recorded yet,
\* and exports that one or a later one.
ImportOrder ==
    /\ hash <= snapshot /\ exported <= snapshot
    /\ \A s \in ledger : s <= snapshot
    /\ phase \in {"export", "import", "record"} => hash # 0 /\ snapshot \notin ledger
    /\ phase \in {"import", "record"} => hash <= exported
    /\ phase \in {"model", "serving"} /\ hash # 0 => hash \in ledger

OpenPhases == {"ledger", "export", "import", "record", "model", "serving"}

Basis ==
    /\ TypeOK
    /\ ImportOrder
    /\ phase \in OpenPhases => org # "none"

LEMMA BasisInit == Init => Basis
BY StartupAssumption
   DEF Init, Basis, TypeOK, ImportOrder, OpenPhases, NoMemory, NoChunks, Ordinals, Phases

LEMMA BasisStep == Basis /\ [Next]_vars => Basis'
<1> SUFFICES ASSUME Basis, [Next]_vars PROVE Basis'
    OBVIOUS
<1> USE StartupAssumption DEF Basis, TypeOK, ImportOrder, OpenPhases, Phases
<1>1. CASE Start
    BY <1>1 DEF Start, Goes, files, documents, old, memory, history
<1>2. CASE Stop
    BY <1>2 DEF Stop, Start, Goes, files, documents, old, memory, history
<1>3. CASE ReadKey
    BY <1>3 DEF ReadKey, Goes, files, documents, old, memory, history
<1>4. CASE CreateKeyFile
    BY <1>4 DEF CreateKeyFile, Goes, files, documents, old, memory, history
<1>5. CASE WriteKey
    BY <1>5 DEF WriteKey, Goes, files, documents, old, memory, history
<1>6. CASE RemoveEmptyKeyFile
    BY <1>6 DEF RemoveEmptyKeyFile, Goes, files, documents, old, memory, history
<1>7. CASE LoadCredentials
    BY <1>7 DEF LoadCredentials, StoredCredentials, Goes, files, documents, old, memory, history
<1>8. CASE SaveCredentials
    BY <1>8 DEF SaveCredentials, Goes, files, documents, old, memory, history
<1>9. CASE PromptForProvider
    BY <1>9 DEF PromptForProvider, Goes, files, documents, old, memory, history
<1>10. CASE LoadConfig
    BY <1>10 DEF LoadConfig, Goes, files, documents, old, memory, history
<1>11. CASE OpenStorage
    BY <1>11 DEF OpenStorage, Goes, files, documents, old, memory, history
<1>12. CASE CheckLedger
    BY <1>12 DEF CheckLedger, HasLegacyImport, Goes, files, documents, old, memory, history
<1>13. CASE ExportSnapshot
    BY <1>13 DEF ExportSnapshot, Goes, files, documents, old, memory, history
<1>14. CASE ImportExport
    BY <1>14 DEF ImportExport, Goes, files, documents, old, memory, history
<1>15. CASE RecordImport
    BY <1>15 DEF RecordImport, Goes, files, documents, old, memory, history
<1>16. CASE Serve
    BY <1>16 DEF Serve, Goes, files, documents, old, memory, history
<1>17. CASE \E d \in Own : Submit(d)
    BY <1>17 DEF Submit, Goes, files, documents, old, memory, history
<1>18. CASE \E d \in Own : Withdraw(d)
    BY <1>18 DEF Withdraw, Goes, files, documents, old, memory, history
<1>19. CASE \E d \in Imported, action \in {"edited", "deleted"} : Revise(d, action)
    <2>1. PICK d \in Imported, action \in {"edited", "deleted"} : Revise(d, action)
        BY <1>19
    <2>2. EditedChunks \in [Ordinals -> {"none", "legacy", "edited"}]
          /\ NoChunks \in [Ordinals -> {"none", "legacy", "edited"}]
        BY DEF EditedChunks, NoChunks
    <2>3. /\ text' \in [Imported -> {"absent", "legacy", "edited"}]
          /\ chunks' \in [Imported -> [Ordinals -> {"none", "legacy", "edited"}]]
          /\ intent' \in [Imported -> {"none", "edited", "deleted"}]
        BY <2>1, <2>2 DEF Revise
    <2>4. calm' \in [Imported -> BOOLEAN]
        BY <2>1 DEF Revise
    <2> QED BY <2>1, <2>3, <2>4 DEF Revise, Goes, files, documents, old, memory, history
<1>20. CASE OldServerWrites
    BY <1>20 DEF OldServerWrites, Goes, files, documents, old, memory, history
<1>21. CASE UNCHANGED vars
    BY <1>21 DEF vars, Goes, files, documents, old, memory, history
<1> QED
    BY <1>1, <1>2, <1>3, <1>4, <1>5, <1>6, <1>7, <1>8, <1>9, <1>10, <1>11,
       <1>12, <1>13, <1>14, <1>15, <1>16, <1>17, <1>18, <1>19, <1>20, <1>21 DEF
       Next

-----------------------------------------------------------------------------
\* What the credentials file holds.
Held == IF credentials = None THEN {} ELSE credentials

\* The key file says what was promised, and the process what the files say.
SettingsInv ==
    /\ promised.key # 0 => /\ keyFile \notin {None, <<>>}
                           /\ Head(keyFile) = promised.key
    /\ promised.values \subseteq Held
    /\ phase = "write_key" => keyFile = <<>>
    /\ phase \notin {"down", "key", "write_key"} =>
          keyFile \notin {None, <<>>} /\ key = Head(keyFile)
    /\ phase \in {"save", "paste"} => Held = {}
    /\ phase \in {"config", "write_config", "prompt", "open"} \cup OpenPhases =>
          values = Held

LEMMA SettingsInit == Init => SettingsInv
BY DEF Init, SettingsInv, OpenPhases

LEMMA SettingsStep == Basis /\ SettingsInv /\ [Next]_vars => SettingsInv'
<1> SUFFICES ASSUME TypeOK, SettingsInv, [Next]_vars PROVE SettingsInv'
    BY DEF Basis
<1> USE StartupAssumption DEF TypeOK, SettingsInv, OpenPhases, Held
<1>1. CASE Start
    BY <1>1 DEF Start, Goes, files, documents, old, memory, history
<1>2. CASE Stop
    BY <1>2 DEF Stop, Goes, files, documents, old, memory, history
<1>3. CASE ReadKey
    BY <1>3 DEF ReadKey, Goes, files, documents, old, memory, history
<1>4. CASE CreateKeyFile
    BY <1>4 DEF CreateKeyFile, Goes, files, documents, old, memory, history
<1>5. CASE WriteKey
    <2>1. /\ promised.key = 0 /\ promised' = promised /\ phase' = "credentials"
          /\ credentials' = credentials
        BY <1>5 DEF WriteKey, Goes, files, documents, old, memory, history
    <2>2. PICK k \in Nat : k = promised.key + 1
        OBVIOUS
    <2>3. keyFile' = <<k>> /\ key' = k
        BY <1>5, <2>2 DEF WriteKey
    <2>4. <<k>> \in Seq(Nat) /\ Head(<<k>>) = k /\ <<k>> # << >>
        OBVIOUS
    <2>5. <<k>> # None
        BY <2>4
    <2> QED BY <2>1, <2>3, <2>4, <2>5
<1>6. CASE RemoveEmptyKeyFile
    BY <1>6 DEF RemoveEmptyKeyFile, Goes, files, documents, old, memory, history
<1>7. CASE LoadCredentials
    BY <1>7 DEF LoadCredentials, StoredCredentials, Goes, files, documents, old, memory, history
<1>8. CASE SaveCredentials
    BY <1>8 DEF SaveCredentials, Goes, files, documents, old, memory, history
<1>9. CASE PromptForProvider
    BY <1>9 DEF PromptForProvider, Goes, files, documents, old, memory, history
<1>10. CASE LoadConfig
    BY <1>10 DEF LoadConfig, Goes, files, documents, old, memory, history
<1>11. CASE OpenStorage
    BY <1>11 DEF OpenStorage, Goes, files, documents, old, memory, history
<1>12. CASE CheckLedger
    BY <1>12 DEF CheckLedger, Goes, files, documents, old, memory, history
<1>13. CASE ExportSnapshot
    BY <1>13 DEF ExportSnapshot, Goes, files, documents, old, memory, history
<1>14. CASE ImportExport
    BY <1>14 DEF ImportExport, Goes, files, documents, old, memory, history
<1>15. CASE RecordImport
    BY <1>15 DEF RecordImport, Goes, files, documents, old, memory, history
<1>16. CASE Serve
    BY <1>16 DEF Serve, Goes, files, documents, old, memory, history
<1>17. CASE \E d \in Own : Submit(d)
    BY <1>17 DEF Submit, Goes, files, documents, old, memory, history
<1>18. CASE \E d \in Own : Withdraw(d)
    BY <1>18 DEF Withdraw, Goes, files, documents, old, memory, history
<1>19. CASE \E d \in Imported, action \in {"edited", "deleted"} : Revise(d, action)
    BY <1>19 DEF Revise, Goes, files, documents, old, memory, history
<1>20. CASE OldServerWrites
    BY <1>20 DEF OldServerWrites, Goes, files, documents, old, memory, history
<1>21. CASE UNCHANGED vars
    BY <1>21 DEF vars, Goes, files, documents, old, memory, history
<1> QED
    BY <1>1, <1>2, <1>3, <1>4, <1>5, <1>6, <1>7, <1>8, <1>9, <1>10, <1>11,
       <1>12, <1>13, <1>14, <1>15, <1>16, <1>17, <1>18, <1>19, <1>20, <1>21 DEF
       Next

\* What one serving promised, each later one finds.
THEOREM SettingsOutlive == Spec => SettingsOutliveTheProcess
<1> DEFINE Kept == Goes("model", "serving") =>
                      promised.key \in {0, key} /\ promised.values \subseteq values
<1>1. Init => Basis /\ SettingsInv
    BY BasisInit, SettingsInit
<1>2. Basis /\ SettingsInv /\ [Next]_vars => (Basis /\ SettingsInv)'
    BY BasisStep, SettingsStep
<1>3. SettingsInv /\ [Next]_vars => [Kept]_vars
    BY DEF SettingsInv, Goes, OpenPhases
<1> QED BY <1>1, <1>2, <1>3, PTL DEF Spec, SettingsOutliveTheProcess

-----------------------------------------------------------------------------
Complete(s) == \A d \in Snapshots[s] : text[d] # "absent" \/ intent[d] = "deleted"

\* An import that is done but not recorded has brought everything, unless the
\* snapshot was replaced since its fingerprint was taken.
ImportInv ==
    /\ snapshot \in ledger => Complete(snapshot)
    /\ phase = "record" /\ hash = snapshot => Complete(snapshot)

LEMMA ImportInit == Init => ImportInv
BY DEF Init, ImportInv

LEMMA ImportStep == Basis /\ ImportInv /\ [Next]_vars => ImportInv'
<1> SUFFICES ASSUME Basis, ImportInv, [Next]_vars PROVE ImportInv'
    OBVIOUS
<1> USE StartupAssumption DEF Basis, TypeOK, ImportOrder, ImportInv, Complete
<1>1. CASE Start
    BY <1>1 DEF Start, Goes, files, documents, old, memory, history
<1>2. CASE Stop
    BY <1>2 DEF Stop, Goes, files, documents, old, memory, history
<1>3. CASE ReadKey
    BY <1>3 DEF ReadKey, Goes, files, documents, old, memory, history
<1>4. CASE CreateKeyFile
    BY <1>4 DEF CreateKeyFile, Goes, files, documents, old, memory, history
<1>5. CASE WriteKey
    BY <1>5 DEF WriteKey, Goes, files, documents, old, memory, history
<1>6. CASE RemoveEmptyKeyFile
    BY <1>6 DEF RemoveEmptyKeyFile, Goes, files, documents, old, memory, history
<1>7. CASE LoadCredentials
    BY <1>7 DEF LoadCredentials, Goes, files, documents, old, memory, history
<1>8. CASE SaveCredentials
    BY <1>8 DEF SaveCredentials, Goes, files, documents, old, memory, history
<1>9. CASE PromptForProvider
    BY <1>9 DEF PromptForProvider, Goes, files, documents, old, memory, history
<1>10. CASE LoadConfig
    BY <1>10 DEF LoadConfig, Goes, files, documents, old, memory, history
<1>11. CASE OpenStorage
    BY <1>11 DEF OpenStorage, Goes, files, documents, old, memory, history
<1>12. CASE CheckLedger
    BY <1>12 DEF CheckLedger, Goes, files, documents, old, memory, history
<1>13. CASE ExportSnapshot
    BY <1>13 DEF ExportSnapshot, Goes, files, documents, old, memory, history
<1>14. CASE ImportExport
    BY <1>14 DEF ImportExport, Goes, files, documents, old, memory, history
<1>15. CASE RecordImport
    BY <1>15 DEF RecordImport, Goes, files, documents, old, memory, history
<1>16. CASE Serve
    BY <1>16 DEF Serve, Goes, files, documents, old, memory, history
<1>17. CASE \E d \in Own : Submit(d)
    BY <1>17 DEF Submit, Goes, files, documents, old, memory, history
<1>18. CASE \E d \in Own : Withdraw(d)
    BY <1>18 DEF Withdraw, Goes, files, documents, old, memory, history
<1>19. CASE \E d \in Imported, action \in {"edited", "deleted"} : Revise(d, action)
    BY <1>19 DEF Revise, Goes, files, documents, old, memory, history
<1>20. CASE OldServerWrites
    BY <1>20 DEF OldServerWrites, Goes, files, documents, old, memory, history
<1>21. CASE UNCHANGED vars
    BY <1>21 DEF vars, Goes, files, documents, old, memory, history
<1> QED
    BY <1>1, <1>2, <1>3, <1>4, <1>5, <1>6, <1>7, <1>8, <1>9, <1>10, <1>11,
       <1>12, <1>13, <1>14, <1>15, <1>16, <1>17, <1>18, <1>19, <1>20, <1>21 DEF
       Next

THEOREM ImportsAreComplete == Spec => []EverythingIsImported
<1>1. Init => Basis /\ ImportInv
    BY BasisInit, ImportInit
<1>2. Basis /\ ImportInv /\ [Next]_vars => (Basis /\ ImportInv)'
    BY BasisStep, ImportStep
<1>3. Basis /\ ImportInv => EverythingIsImported
    BY DEF Basis, ImportOrder, ImportInv, Complete, EverythingIsImported
<1> QED BY <1>1, <1>2, <1>3, PTL DEF Spec

-----------------------------------------------------------------------------
\* Calm is the time in which no import can run.
EditsInv ==
    /\ EditsSurviveImports
    /\ \A d \in Imported : calm[d] => snapshot \in ledger

LEMMA EditsInit == Init => EditsInv
BY DEF Init, EditsInv, EditsSurviveImports

LEMMA EditsStep == Basis /\ EditsInv /\ [Next]_vars => EditsInv'
<1> SUFFICES ASSUME Basis, EditsInv, [Next]_vars PROVE EditsInv'
    OBVIOUS
<1> USE StartupAssumption DEF Basis, TypeOK, ImportOrder, EditsInv, EditsSurviveImports
<1>1. CASE Start
    BY <1>1 DEF Start, Goes, files, documents, old, memory, history
<1>2. CASE Stop
    BY <1>2 DEF Stop, Goes, files, documents, old, memory, history
<1>3. CASE ReadKey
    BY <1>3 DEF ReadKey, Goes, files, documents, old, memory, history
<1>4. CASE CreateKeyFile
    BY <1>4 DEF CreateKeyFile, Goes, files, documents, old, memory, history
<1>5. CASE WriteKey
    BY <1>5 DEF WriteKey, Goes, files, documents, old, memory, history
<1>6. CASE RemoveEmptyKeyFile
    BY <1>6 DEF RemoveEmptyKeyFile, Goes, files, documents, old, memory, history
<1>7. CASE LoadCredentials
    BY <1>7 DEF LoadCredentials, Goes, files, documents, old, memory, history
<1>8. CASE SaveCredentials
    BY <1>8 DEF SaveCredentials, Goes, files, documents, old, memory, history
<1>9. CASE PromptForProvider
    BY <1>9 DEF PromptForProvider, Goes, files, documents, old, memory, history
<1>10. CASE LoadConfig
    BY <1>10 DEF LoadConfig, Goes, files, documents, old, memory, history
<1>11. CASE OpenStorage
    BY <1>11 DEF OpenStorage, Goes, files, documents, old, memory, history
<1>12. CASE CheckLedger
    BY <1>12 DEF CheckLedger, Goes, files, documents, old, memory, history
<1>13. CASE ExportSnapshot
    BY <1>13 DEF ExportSnapshot, Goes, files, documents, old, memory, history
<1>14. CASE ImportExport
    BY <1>14 DEF ImportExport, Goes, files, documents, old, memory, history
<1>15. CASE RecordImport
    BY <1>15 DEF RecordImport, Goes, files, documents, old, memory, history
<1>16. CASE Serve
    BY <1>16 DEF Serve, Goes, files, documents, old, memory, history
<1>17. CASE \E d \in Own : Submit(d)
    BY <1>17 DEF Submit, Goes, files, documents, old, memory, history
<1>18. CASE \E d \in Own : Withdraw(d)
    BY <1>18 DEF Withdraw, Goes, files, documents, old, memory, history
<1>19. CASE \E d \in Imported, action \in {"edited", "deleted"} : Revise(d, action)
    BY <1>19 DEF Revise, Goes, files, documents, old, memory, history
<1>20. CASE OldServerWrites
    BY <1>20 DEF OldServerWrites, Goes, files, documents, old, memory, history
<1>21. CASE UNCHANGED vars
    BY <1>21 DEF vars, Goes, files, documents, old, memory, history
<1> QED
    BY <1>1, <1>2, <1>3, <1>4, <1>5, <1>6, <1>7, <1>8, <1>9, <1>10, <1>11,
       <1>12, <1>13, <1>14, <1>15, <1>16, <1>17, <1>18, <1>19, <1>20, <1>21 DEF
       Next

THEOREM EditsAreKept == Spec => []EditsSurviveImports
<1>1. Init => Basis /\ EditsInv
    BY BasisInit, EditsInit
<1>2. Basis /\ EditsInv /\ [Next]_vars => (Basis /\ EditsInv)'
    BY BasisStep, EditsStep
<1>3. EditsInv => EditsSurviveImports
    BY DEF EditsInv
<1> QED BY <1>1, <1>2, <1>3, PTL DEF Spec

-----------------------------------------------------------------------------
\* The documents of home are in the local organization.  Its slug can only have
\* moved away from the process's organization while there were none.
ReachInv ==
    /\ home \subseteq Own
    /\ \A d \in home : owner[d] = local /\ owner[d] # "absent"
    /\ phase \in OpenPhases => local = org \/ home = {}

LEMMA ReachInit == Init => ReachInv
BY DEF Init, ReachInv, OpenPhases

LEMMA ReachStep == Basis /\ ReachInv /\ [Next]_vars => ReachInv'
<1> SUFFICES ASSUME Basis, ReachInv, [Next]_vars PROVE ReachInv'
    OBVIOUS
<1> USE DEF Basis, TypeOK, ReachInv, OpenPhases
<1>1. CASE Start
    BY <1>1 DEF Start, Goes, files, documents, old, memory, history
<1>2. CASE Stop
    BY <1>2 DEF Stop, Goes, files, documents, old, memory, history
<1>3. CASE ReadKey
    BY <1>3 DEF ReadKey, Goes, files, documents, old, memory, history
<1>4. CASE CreateKeyFile
    BY <1>4 DEF CreateKeyFile, Goes, files, documents, old, memory, history
<1>5. CASE WriteKey
    BY <1>5 DEF WriteKey, Goes, files, documents, old, memory, history
<1>6. CASE RemoveEmptyKeyFile
    BY <1>6 DEF RemoveEmptyKeyFile, Goes, files, documents, old, memory, history
<1>7. CASE LoadCredentials
    BY <1>7 DEF LoadCredentials, Goes, files, documents, old, memory, history
<1>8. CASE SaveCredentials
    BY <1>8 DEF SaveCredentials, Goes, files, documents, old, memory, history
<1>9. CASE PromptForProvider
    BY <1>9 DEF PromptForProvider, Goes, files, documents, old, memory, history
<1>10. CASE LoadConfig
    BY <1>10 DEF LoadConfig, Goes, files, documents, old, memory, history
<1>11. CASE OpenStorage
    BY <1>11 DEF OpenStorage, Goes, files, documents, old, memory, history
<1>12. CASE CheckLedger
    BY <1>12 DEF CheckLedger, Goes, files, documents, old, memory, history
<1>13. CASE ExportSnapshot
    BY <1>13 DEF ExportSnapshot, Goes, files, documents, old, memory, history
<1>14. CASE ImportExport
    BY <1>14 DEF ImportExport, SlugIsFree, Goes, files, documents, old, memory, history
<1>15. CASE RecordImport
    BY <1>15 DEF RecordImport, Goes, files, documents, old, memory, history
<1>16. CASE Serve
    BY <1>16 DEF Serve, Goes, files, documents, old, memory, history
<1>17. CASE \E d \in Own : Submit(d)
    BY <1>17 DEF Submit, Goes, files, documents, old, memory, history
<1>18. CASE \E d \in Own : Withdraw(d)
    BY <1>18 DEF Withdraw, Goes, files, documents, old, memory, history
<1>19. CASE \E d \in Imported, action \in {"edited", "deleted"} : Revise(d, action)
    BY <1>19 DEF Revise, Goes, files, documents, old, memory, history
<1>20. CASE OldServerWrites
    BY <1>20 DEF OldServerWrites, Goes, files, documents, old, memory, history
<1>21. CASE UNCHANGED vars
    BY <1>21 DEF vars, Goes, files, documents, old, memory, history
<1> QED
    BY <1>1, <1>2, <1>3, <1>4, <1>5, <1>6, <1>7, <1>8, <1>9, <1>10, <1>11,
       <1>12, <1>13, <1>14, <1>15, <1>16, <1>17, <1>18, <1>19, <1>20, <1>21 DEF
       Next

THEOREM LocalDocumentsAreReached == Spec => []LocalDocumentsStayReachable
<1>1. Init => Basis /\ ReachInv
    BY BasisInit, ReachInit
<1>2. Basis /\ ReachInv /\ [Next]_vars => (Basis /\ ReachInv)'
    BY BasisStep, ReachStep
<1>3. ReachInv => LocalDocumentsStayReachable
    BY DEF ReachInv, LocalDocumentsStayReachable, OpenPhases
<1> QED BY <1>1, <1>2, <1>3, PTL DEF Spec
================================================================================
