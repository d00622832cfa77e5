-------------------------------- MODULE Startup --------------------------------
(***************************************************************************)
(* The start of the service (start in supermemory/src/lib.rs) on the files *)
(* and the database it keeps, and what becomes of them over many starts:   *)
(* the API key, the provider credentials, the configuration, the           *)
(* organization local requests belong to, and the import of the old        *)
(* server's snapshot.                                                      *)
(*                                                                         *)
(* Stop ends the process at any step: a crash, a shutdown, and every error *)
(* return of start (a file that cannot be written, a configuration out of  *)
(* range, a port in use) leave the same state behind.  The old server may  *)
(* write its snapshot at any time.  One process runs at a time.            *)
(* SUPERMEMORY_API_KEY and provider keys in the environment are left out:  *)
(* they replace the files' values for one process.                         *)
(***************************************************************************)
EXTENDS Naturals, Sequences, FiniteSets

CONSTANTS
    Imported,       \* documents the old server has at some time
    Own,            \* documents submitted by local requests
    Providers,      \* the variables that hold provider keys
    None,           \* no file
    Snapshots       \* what each snapshot of the old server holds

ASSUME StartupAssumption ==
    /\ Snapshots \in Seq(SUBSET Imported)
    /\ None \notin Seq(Nat)
    /\ \A held \in SUBSET Providers : None # held

VARIABLES
    \* the data directory
    keyFile,         \* None, or the lines of api-key
    credentials,     \* env.enc: None or the variables it holds
    config,          \* config.toml: None, "empty" or "written"
    \* the database
    local,           \* the organization whose slug is "local"
    ledger,          \* legacy_imports
    text,            \* what the row of each imported document says
    chunks,          \* where each of its chunks comes from, by ordinal
    owner,           \* the organization of each document of its own
    \* the old server's data directory
    oldCredentials,  \* its env.enc
    oldSlugIsLocal,  \* is its organization's slug "local" too?
    snapshot,        \* which snapshot is there; 0: none yet
    \* the process
    phase,           \* the step of start it is at
    key,             \* api_key
    values,          \* provider_values
    org,             \* storage.local_organization_id()
    hash,            \* source_hash
    exported,        \* the snapshot in the temporary export
    \* history
    promised,        \* the key and the variables of the last serving
    intent,          \* what the user last did to each imported document
    calm,            \* ... is the snapshot of then, imported by then, still there?
    home             \* own documents submitted where the next start will look

files == <<keyFile, credentials, config>>
documents == <<text, chunks, owner>>
old == <<oldCredentials, oldSlugIsLocal>>
memory == <<key, values, org, hash, exported>>
history == <<promised, intent, calm, home>>
vars == <<files, local, ledger, documents, old, snapshot, phase, memory, history>>

-----------------------------------------------------------------------------
\* An old document has two chunks, an edited one is shorter.
Ordinals == 0 .. 1

NoChunks == [o \in Ordinals |-> "none"]
EditedChunks == [o \in Ordinals |-> IF o = 0 THEN "edited" ELSE "none"]

Phases == {"down", "key", "write_key", "credentials", "save", "config", "write_config",
           "prompt", "paste", "open", "ledger", "export", "import", "record", "model",
           "serving"}

TypeOK ==
    /\ keyFile = None \/ (keyFile \in Seq(Nat) /\ Len(keyFile) <= 1)
    /\ credentials \in {None} \cup SUBSET Providers
    /\ oldCredentials \in {None} \cup SUBSET Providers
    /\ config \in {None, "empty", "written"}
    /\ {local, org} \subseteq {"none", "new", "old"}
    /\ ledger \subseteq DOMAIN Snapshots
    /\ text \in [Imported -> {"absent", "legacy", "edited"}]
    /\ chunks \in [Imported -> [Ordinals -> {"none", "legacy", "edited"}]]
    /\ owner \in [Own -> {"absent", "new", "old"}]
    /\ {snapshot, hash, exported} \subseteq 0 .. Len(Snapshots)
    /\ phase \in Phases
    /\ key \in Nat
    /\ values \in SUBSET Providers
    /\ promised \in [key : Nat, values : SUBSET Providers]
    /\ intent \in [Imported -> {"none", "edited", "deleted"}]
    /\ calm \in [Imported -> BOOLEAN]
    /\ home \in SUBSET Own

NoMemory == key = 0 /\ values = {} /\ org = "none" /\ hash = 0 /\ exported = 0

Init ==
    /\ keyFile = None /\ credentials = None /\ config = None
    /\ local = "none" /\ ledger = {}
    /\ text = [d \in Imported |-> "absent"]
    /\ chunks = [d \in Imported |-> NoChunks]
    /\ owner = [d \in Own |-> "absent"]
    /\ oldCredentials \in {None} \cup SUBSET Providers
    /\ oldSlugIsLocal \in BOOLEAN
    /\ snapshot = 0
    /\ phase = "down" /\ NoMemory
    /\ promised = [key |-> 0, values |-> {}]
    /\ intent = [d \in Imported |-> "none"]
    /\ calm = [d \in Imported |-> FALSE]
    /\ home = {}

Goes(from, to) == phase = from /\ phase' = to

Start ==
    /\ Goes("down", "key")
    /\ UNCHANGED <<files, local, ledger, documents, old, snapshot, memory, history>>

Stop ==
    /\ phase # "down"
    /\ phase' = "down"
    /\ key' = 0 /\ values' = {} /\ org' = "none" /\ hash' = 0 /\ exported' = 0
    /\ UNCHANGED <<files, local, ledger, documents, old, snapshot, history>>

-----------------------------------------------------------------------------
(* load_or_create_api_key.  An empty file is refused: no step leads on.    *)

ReadKey ==
    /\ Goes("key", "credentials")
    /\ keyFile \notin {None, <<>>}
    /\ key' = Head(keyFile)
    /\ UNCHANGED <<files, local, ledger, documents, old, snapshot, values, org, hash,
                   exported, history>>

CreateKeyFile ==
    /\ Goes("key", "write_key")
    /\ keyFile = None
    /\ keyFile' = <<>>
    /\ UNCHANGED <<credentials, config, local, ledger, documents, old, snapshot, memory,
                   history>>

\* A random key, none that was there before.
WriteKey ==
    /\ Goes("write_key", "credentials")
    /\ key' = promised.key + 1
    /\ keyFile' = <<key'>>
    /\ UNCHANGED <<credentials, config, local, ledger, documents, old, snapshot, values,
                   org, hash, exported, history>>

\* The error's advice: "remove it to generate a replacement".
RemoveEmptyKeyFile ==
    /\ phase = "down"
    /\ keyFile = <<>>
    /\ keyFile' = None
    /\ UNCHANGED <<credentials, config, local, ledger, documents, old, snapshot, phase,
                   memory, history>>

-----------------------------------------------------------------------------
(* credentials::load_or_import and prompt_for_provider.  encrypt_file      *)
(* writes a temporary nobody reads and renames it: the file changes in one *)
(* step, or not at all.                                                    *)

\* Mutation of StoredCredentials: the old store is read first.
StoredCredentialsOfOld ==
    IF oldCredentials # None THEN oldCredentials ELSE credentials

StoredCredentials ==
    IF credentials # None THEN credentials ELSE oldCredentials

LoadCredentials ==
    /\ phase = "credentials"
    /\ values' = IF StoredCredentials = None THEN {} ELSE StoredCredentials
    /\ phase' = IF credentials = None /\ oldCredentials # None THEN "save" ELSE "config"
    /\ UNCHANGED <<files, local, ledger, documents, old, snapshot, key, org, hash,
                   exported, history>>

SaveCredentials ==
    /\ \/ Goes("save", "config")
       \/ Goes("paste", "open")
    /\ credentials' = values
    /\ UNCHANGED <<keyFile, config, local, ledger, documents, old, snapshot, memory,
                   history>>

\* Asked only when no provider is configured; the answer may be "skip", and
\* without a terminal nobody is asked.
PromptForProvider ==
    /\ phase = "prompt"
    /\ \/ phase' = "open" /\ UNCHANGED values
       \/ /\ values = {}
          /\ \E p \in Providers : values' = {p}
          /\ phase' = "paste"
    /\ UNCHANGED <<files, local, ledger, documents, old, snapshot, key, org, hash,
                   exported, history>>

\* model_config::load_or_create: an empty file reads as the defaults.
LoadConfig ==
    /\ \/ Goes("config", "prompt") /\ config # None /\ UNCHANGED config
       \/ Goes("config", "write_config") /\ config = None /\ config' = "empty"
       \/ Goes("write_config", "prompt") /\ config' = "written"
    /\ UNCHANGED <<keyFile, credentials, local, ledger, documents, old, snapshot, memory,
                   history>>

-----------------------------------------------------------------------------
(* Storage::open and migrate_legacy_snapshot.                              *)

\* Seeds the local organization in the transaction of the migrations.
OpenStorage ==
    /\ Goes("open", "ledger")
    /\ local' = IF local = "none" THEN "new" ELSE local
    /\ org' = local'
    /\ UNCHANGED <<files, ledger, documents, old, snapshot, key, values, hash, exported,
                   history>>

\* Mutation of HasLegacyImport: every start imports.
HasLegacyImportNever(source) == FALSE

HasLegacyImport(source) == source \in ledger

\* Mutation of CheckLedger: the fingerprint is recorded before the import.
CheckLedgerRecordingFirst ==
    /\ phase = "ledger"
    /\ hash' = snapshot
    /\ phase' = IF snapshot = 0 \/ HasLegacyImport(snapshot) THEN "model" ELSE "export"
    /\ ledger' = IF snapshot = 0 THEN ledger ELSE ledger \cup {snapshot}
    /\ UNCHANGED <<files, local, documents, old, snapshot, key, values, org, exported,
                   history>>

CheckLedger ==
    /\ phase = "ledger"
    /\ hash' = snapshot
    /\ phase' = IF snapshot = 0 \/ HasLegacyImport(snapshot) THEN "model" ELSE "export"
    /\ UNCHANGED <<files, local, ledger, documents, old, snapshot, key, values, org,
                   exported, history>>

\* Reads the file a second time.
ExportSnapshot ==
    /\ Goes("export", "import")
    /\ exported' = snapshot
    /\ UNCHANGED <<files, local, ledger, documents, old, snapshot, key, values, org, hash,
                   history>>

\* Mutation of SlugIsFree: whatever the local organization holds.
SlugIsFreeAlways == local = org

\* The local organization gives its slug away as long as it holds nothing.
SlugIsFree == local = org /\ \A d \in Own : owner[d] # local

\* One transaction.  Rows that are there already are left as they are; the old
\* organization's row is one of them, or finds its slug free, or is ignored,
\* and then the documents that refer to it fail the transaction.
ImportExport ==
    /\ Goes("import", "record")
    /\ IF oldSlugIsLocal /\ local = "new"
       THEN SlugIsFree /\ local' = "old"
       ELSE UNCHANGED local
    /\ text' = [d \in Imported |->
                   IF d \in Snapshots[exported] /\ text[d] = "absent"
                   THEN "legacy" ELSE text[d]]
    /\ chunks' = [d \in Imported |-> [o \in Ordinals |->
                     IF d \in Snapshots[exported] /\ chunks[d][o] = "none"
                     THEN "legacy" ELSE chunks[d][o]]]
    /\ UNCHANGED <<files, ledger, owner, old, snapshot, memory, history>>

\* After the export was removed.
RecordImport ==
    /\ Goes("record", "model")
    /\ ledger' = ledger \cup {hash}
    /\ UNCHANGED <<files, local, documents, old, snapshot, memory, history>>

\* The model is loaded, the port bound.
Serve ==
    /\ Goes("model", "serving")
    /\ promised' = [key |-> key, values |-> values]
    /\ UNCHANGED <<files, local, ledger, documents, old, snapshot, memory, intent, calm,
                   home>>

-----------------------------------------------------------------------------
(* What happens while the service runs.  A revised document is indexed     *)
(* again, one that turns out empty is deleted (JobQueue): here each is one *)
(* step.  Imported documents are reached with the imported keys.           *)

Submit(d) ==
    /\ phase = "serving"
    /\ owner[d] = "absent"
    /\ owner' = [owner EXCEPT ![d] = org]
    /\ home' = IF local = org THEN home \cup {d} ELSE home
    /\ UNCHANGED <<files, local, ledger, text, chunks, old, snapshot, phase, memory,
                   promised, intent, calm>>

Withdraw(d) ==
    /\ phase = "serving"
    /\ owner[d] = org
    /\ owner' = [owner EXCEPT ![d] = "absent"]
    /\ home' = home \ {d}
    /\ UNCHANGED <<files, local, ledger, text, chunks, old, snapshot, phase, memory,
                   promised, intent, calm>>

Revise(d, action) ==
    /\ phase = "serving"
    /\ text[d] # "absent"
    /\ text' = [text EXCEPT ![d] = IF action = "edited" THEN "edited" ELSE "absent"]
    /\ chunks' = [chunks EXCEPT ![d] = IF action = "edited" THEN EditedChunks ELSE NoChunks]
    /\ intent' = [intent EXCEPT ![d] = action]
    /\ calm' = [calm EXCEPT ![d] = snapshot \in ledger]
    /\ UNCHANGED <<files, local, ledger, owner, old, snapshot, phase, memory, promised,
                   home>>

OldServerWrites ==
    /\ snapshot < Len(Snapshots)
    /\ snapshot' = snapshot + 1
    /\ calm' = [d \in Imported |-> FALSE]
    /\ UNCHANGED <<files, local, ledger, documents, old, phase, memory, promised, intent,
                   home>>

Next ==
    \/ Start \/ Stop
    \/ ReadKey \/ CreateKeyFile \/ WriteKey \/ RemoveEmptyKeyFile
    \/ LoadCredentials \/ SaveCredentials \/ PromptForProvider \/ LoadConfig
    \/ OpenStorage \/ CheckLedger \/ ExportSnapshot \/ ImportExport \/ RecordImport
    \/ Serve
    \/ \E d \in Own : Submit(d) \/ Withdraw(d)
    \/ \E d \in Imported, action \in {"edited", "deleted"} : Revise(d, action)
    \/ OldServerWrites

Spec == Init /\ [][Next]_vars

-----------------------------------------------------------------------------
(* Properties.                                                             *)

\* A recorded import is a complete one, wherever earlier starts were cut off:
\* each document of the snapshot is there unless the user deleted it.  And no
\* service runs on a snapshot that was found at its start and not recorded.
\* (README: "On first startup, the service imports compatible data".)
EverythingIsImported ==
    /\ snapshot \in ledger =>
          \A d \in Snapshots[snapshot] : text[d] # "absent" \/ intent[d] = "deleted"
    /\ phase = "serving" /\ hash # 0 => hash \in ledger

\* No later start undoes what the user did to an imported document.  Its new
\* text stays whatever the old server writes.  A deletion, and the absence of
\* chunks of the old text, last until the old server writes a new snapshot.
EditsSurviveImports ==
    \A d \in Imported :
        /\ intent[d] = "edited" => text[d] = "edited"
        /\ calm[d] /\ intent[d] = "edited" => chunks[d] = EditedChunks
        /\ calm[d] /\ intent[d] = "deleted" => text[d] = "absent"

\* A document a local request submitted is in the organization that local
\* requests have at every later serving, also when an import in between brings
\* an organization of the same slug.  (Not covered: what is submitted in the
\* very run whose start moved the slug.)
LocalDocumentsStayReachable ==
    phase = "serving" => \A d \in home : owner[d] = org

\* The key and the provider keys one serving had are there at each later one.
SettingsOutliveTheProcess ==
    [][Goes("model", "serving") =>
          /\ promised.key \in {0, key}
          /\ promised.values \subseteq values]_vars
================================================================================
