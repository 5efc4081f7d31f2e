------------------------------ MODULE DataDir ------------------------------
(* The data directory under the commands that share it: serve, migrate,     *)
(* backup and import.  The first three take the instance lock, import does  *)
(* not.  A step is what one command does to the files between two points at *)
(* which another may act or the process may die.                            *)
EXTENDS Naturals, FiniteSets

CONSTANTS
    Items,          \* messages: of the old inbox, imported, or received later
    History,        \* those the legacy inbox holds at first
    MaxImports,     \* imports
    MaxServes,      \* starts of serve
    MaxKills,       \* processes killed
    MaxRefusals     \* file operations that fail while a migration publishes

ASSUME DirAssumption ==
    /\ History \subseteq Items /\ Items # {}
    /\ {MaxImports, MaxServes, MaxKills, MaxRefusals} \subseteq Nat

VARIABLES
    inbox,      \* messages.db: whether it exists, its rows in the main file and in the WAL
    store,      \* v2/store.sqlite3: where it comes from, its rows, whether they left its WAL
    blobs,      \* v2/blobs: where it comes from
    stage,      \* store.tmp and blobs.tmp
    lock,       \* the command that holds instance.lock, or "free"
    serve, migrate, backup, importer,   \* the processes
    saved,      \* the backup directory: the database copy and the manifest; history: the
                \* rows the inbox held when it was begun
    base,       \* history: the rows of the inbox when a migration was last validated
    botched,    \* history: a rollback could not remove the store it had published
    left        \* the runs, kills and refusals that remain

dirVars == <<inbox, store, blobs, stage, lock, serve, migrate, backup, importer,
             saved, base, botched, left>>

Legacy == inbox.main \cup inbox.wal
NoStage == [store |-> FALSE, blobs |-> FALSE, rows |-> {}]
NoStore == [from |-> "none", rows |-> {}, full |-> FALSE]
IdleMigrate == [at |-> "idle", main |-> {}, wal |-> {}, snapshot |-> {}]

DirTypeOK ==
    /\ inbox \in [file : BOOLEAN, main : SUBSET Items, wal : SUBSET Items]
    /\ store \in [from : {"none", "serve", "migrate"}, rows : SUBSET Items, full : BOOLEAN]
    /\ store.from = "none" => store = NoStore
    /\ blobs \in {"none", "serve", "migrate"}
    /\ stage \in [store : BOOLEAN, blobs : BOOLEAN, rows : SUBSET Items]
    /\ lock \in {"free", "serve", "migrate", "backup"}
    /\ serve \in [at : {"down", "locked", "app", "stack", "blobs", "up"},
                  mode : {"legacy", "shadow", "primary"}]
    /\ migrate.at \in {"idle", "locked", "cleared", "half", "seen", "copied", "built", "valid",
                       "blobs", "synced", "store", "undo", "undoBlobs", "cleanup"}
    /\ migrate \in [at : STRING, main : SUBSET Items, wal : SUBSET Items, snapshot : SUBSET Items]
    /\ backup \in [at : {"idle", "locked", "main", "copied"}, main : SUBSET Items]
    /\ importer \in [at : {"idle", "wrote", "syncs"}, row : Items]
    /\ saved \in [rows : SUBSET Items, due : SUBSET Items, manifest : BOOLEAN]
    /\ base \subseteq Items /\ botched \in BOOLEAN
    /\ left \in [imports : 0..MaxImports, serves : 0..MaxServes,
                 kills : 0..MaxKills, refusals : 0..MaxRefusals]

DirInit ==
    /\ inbox = [file |-> History # {}, main |-> History, wal |-> {}]
    /\ store = NoStore /\ blobs = "none" /\ stage = NoStage
    /\ lock = "free"
    /\ serve = [at |-> "down", mode |-> "legacy"]
    /\ migrate = IdleMigrate
    /\ backup = [at |-> "idle", main |-> {}]
    /\ importer = [at |-> "idle", row |-> CHOOSE i \in Items : TRUE]
    /\ saved = [rows |-> {}, due |-> {}, manifest |-> FALSE]
    /\ base = {} /\ botched = FALSE
    /\ left = [imports |-> MaxImports, serves |-> MaxServes, kills |-> MaxKills,
               refusals |-> MaxRefusals]

-----------------------------------------------------------------------------
(* serve.                                                                   *)

\* requireV2PrimaryStore: a store of more than one page is taken for migrated; otherwise
\* there must be no legacy inbox that has a size.
Migrated == store.from # "none" /\ store.full
PrimaryAdmitted == Migrated \/ ~inbox.file

\* acquireServeInstanceLock, then resolveV2RuntimeMode, which may refuse to go on.
ServeStarts ==
    /\ serve.at = "down" /\ lock = "free" /\ left.serves > 0
    /\ left' = [left EXCEPT !.serves = @ - 1]
    /\ \E m \in {"legacy", "shadow", "primary"} :
          /\ m = "primary" => PrimaryAdmitted
          /\ serve' = [at |-> "locked", mode |-> m]
    /\ lock' = "serve"
    /\ UNCHANGED <<inbox, store, blobs, stage, migrate, backup, importer, saved, base, botched>>

\* app.New opens, and creates, the legacy inbox.
OpenApp ==
    /\ serve.at = "locked"
    /\ inbox' = [inbox EXCEPT !.file = TRUE]
    /\ serve' = [serve EXCEPT !.at = IF serve.mode = "legacy" THEN "up" ELSE "app"]
    /\ UNCHANGED <<store, blobs, stage, lock, migrate, backup, importer, saved, base, botched, left>>

\* sqlite.Open: a new database is one page and its WAL.
Provisioned == IF store.from = "none" THEN [NoStore EXCEPT !.from = "serve"] ELSE store

\* newV2Stack: the store first, then the directory of blobs.
OpenStore ==
    /\ serve.at = "app"
    /\ store' = Provisioned
    /\ serve' = [serve EXCEPT !.at = "stack"]
    /\ UNCHANGED <<inbox, blobs, stage, lock, migrate, backup, importer, saved, base, botched, left>>
OpenBlobs ==
    /\ serve.at = "stack"
    /\ blobs' = IF blobs = "none" THEN "serve" ELSE blobs
    /\ serve' = [serve EXCEPT !.at = "up"]
    /\ UNCHANGED <<inbox, store, stage, lock, migrate, backup, importer, saved, base, botched, left>>

\* A message arrives: legacy and shadow daemons write the inbox, the latter and
\* primary ones the store.
Receive(i) ==
    /\ serve.at = "up" /\ i \notin Legacy \cup store.rows
    /\ inbox' = IF serve.mode = "primary" THEN inbox ELSE [inbox EXCEPT !.wal = @ \cup {i}]
    /\ store' = IF serve.mode = "legacy" THEN store ELSE [store EXCEPT !.rows = @ \cup {i}]
    /\ UNCHANGED <<blobs, stage, lock, serve, migrate, backup, importer, saved, base, botched, left>>

\* SQLite copies a long WAL into the database file.
Checkpoint ==
    /\ serve.at = "up"
    /\ inbox' = [inbox EXCEPT !.main = Legacy, !.wal = {}]
    /\ store' = IF serve.mode = "legacy" THEN store ELSE [store EXCEPT !.full = TRUE]
    /\ UNCHANGED <<blobs, stage, lock, serve, migrate, backup, importer, saved, base, botched, left>>

\* serve closes its databases, whose WAL goes with the last connection, and the lock.
ServeStops ==
    /\ serve.at = "up"
    /\ inbox' = [inbox EXCEPT !.main = Legacy, !.wal = {}]
    /\ store' = IF serve.mode = "legacy" THEN store ELSE [store EXCEPT !.full = TRUE]
    /\ serve' = [serve EXCEPT !.at = "down"]
    /\ lock' = "free"
    /\ UNCHANGED <<blobs, stage, migrate, backup, importer, saved, base, botched, left>>

-----------------------------------------------------------------------------
(* migrate.                                                                 *)

\* refuseCanonicalV2State: nothing that bears a final name is ever overwritten.
Canonical == store.from # "none" \/ blobs # "none"
MigrateAdmitted == inbox.file /\ ~Canonical

GoesTo(at) == migrate' = [migrate EXCEPT !.at = at]

\* The lock, the first look at the target, the removal of an interrupted stage.
MigrateStarts ==
    /\ migrate.at = "idle" /\ lock = "free" /\ MigrateAdmitted
    /\ lock' = "migrate" /\ GoesTo("locked")
    /\ UNCHANGED <<inbox, store, blobs, stage, serve, backup, importer, saved, base, botched, left>>
ClearStage ==
    /\ migrate.at = "locked"
    /\ stage' = NoStage /\ GoesTo(IF Canonical THEN "cleanup" ELSE "cleared")
    /\ UNCHANGED <<inbox, store, blobs, lock, serve, backup, importer, saved, base, botched, left>>

\* captureSourceFileEvidence hashes the database file, then the WAL.
HashDatabase ==
    /\ migrate.at = "cleared"
    /\ migrate' = [migrate EXCEPT !.at = "half", !.main = inbox.main]
    /\ UNCHANGED <<inbox, store, blobs, stage, lock, serve, backup, importer, saved, base, botched, left>>
HashWal ==
    /\ migrate.at = "half"
    /\ migrate' = [migrate EXCEPT !.at = "seen", !.wal = inbox.wal]
    /\ UNCHANGED <<inbox, store, blobs, stage, lock, serve, backup, importer, saved, base, botched, left>>

\* A mutant: the evidence is taken for the report and not for a gate.
UnchangedUnasked == TRUE
Unchanged == inbox.main = migrate.main /\ inbox.wal = migrate.wal

\* stageLegacySourceSnapshot copies both and compares each copy with its hash.
CopySource ==
    /\ migrate.at = "seen"
    /\ \/ Unchanged
          /\ migrate' = [migrate EXCEPT !.at = "copied", !.snapshot = migrate.main \cup migrate.wal]
       \/ ~Unchanged /\ GoesTo("cleanup")
    /\ UNCHANGED <<inbox, store, blobs, stage, lock, serve, backup, importer, saved, base, botched, left>>

\* Transform writes the staged store and blobs, and checkpoints and syncs the database.
BuildStage ==
    /\ migrate.at = "copied"
    /\ stage' = [store |-> TRUE, blobs |-> TRUE, rows |-> migrate.snapshot]
    /\ GoesTo("built")
    /\ UNCHANGED <<inbox, store, blobs, lock, serve, backup, importer, saved, base, botched, left>>

\* validateTarget: the gates, among them that the source is what it was.  A migration
\* with --check, or one that fails a gate, goes no further.
ValidateStage ==
    /\ migrate.at = "built"
    /\ \/ Unchanged /\ GoesTo("valid") /\ base' = Legacy
       \/ GoesTo("cleanup") /\ UNCHANGED base
    /\ UNCHANGED <<inbox, store, blobs, stage, lock, serve, backup, importer, saved, botched, left>>

\* publishStagedMigration: the blobs first, the store as the commit point, a sync of the
\* directory after each.  Whatever is refused is rolled back.
Refusal == left.refusals > 0 /\ left' = [left EXCEPT !.refusals = @ - 1]
PublishBlobs ==
    /\ migrate.at = "valid"
    /\ \/ ~Canonical /\ blobs' = "migrate" /\ stage' = [stage EXCEPT !.blobs = FALSE]
          /\ GoesTo("blobs") /\ UNCHANGED left
       \/ ((Canonical /\ UNCHANGED left) \/ Refusal)
          /\ GoesTo("cleanup") /\ UNCHANGED <<blobs, stage>>
    /\ UNCHANGED <<inbox, store, lock, serve, backup, importer, saved, base, botched>>
SyncBlobs ==
    /\ migrate.at = "blobs"
    /\ \/ GoesTo("synced") /\ UNCHANGED left
       \/ GoesTo("undoBlobs") /\ Refusal
    /\ UNCHANGED <<inbox, store, blobs, stage, lock, serve, backup, importer, saved, base, botched>>
PublishStore ==
    /\ migrate.at = "synced"
    /\ \/ /\ store' = [from |-> "migrate", rows |-> stage.rows, full |-> TRUE]
          /\ stage' = [stage EXCEPT !.store = FALSE]
          /\ GoesTo("store") /\ UNCHANGED left
       \/ Refusal /\ GoesTo("undoBlobs") /\ UNCHANGED <<store, stage>>
    /\ UNCHANGED <<inbox, blobs, lock, serve, backup, importer, saved, base, botched>>
SyncStore ==
    /\ migrate.at = "store"
    /\ \/ GoesTo("cleanup") /\ UNCHANGED left
       \/ GoesTo("undo") /\ Refusal
    /\ UNCHANGED <<inbox, store, blobs, stage, lock, serve, backup, importer, saved, base, botched>>

\* The rollback removes the store, then the blobs, and passes over what it cannot remove.
RemoveStore ==
    /\ migrate.at = "undo" /\ GoesTo("undoBlobs")
    /\ \/ store' = NoStore /\ UNCHANGED <<left, botched>>
       \/ Refusal /\ botched' = TRUE /\ UNCHANGED store
    /\ UNCHANGED <<inbox, blobs, stage, lock, serve, backup, importer, saved, base>>
RemoveBlobs ==
    /\ migrate.at = "undoBlobs" /\ GoesTo("cleanup")
    /\ \/ blobs' = "none" /\ UNCHANGED left
       \/ Refusal /\ UNCHANGED blobs
    /\ UNCHANGED <<inbox, store, stage, lock, serve, backup, importer, saved, base, botched>>
\* The deferred removal of the stage, and the lock.
MigrateEnds ==
    /\ migrate.at = "cleanup"
    /\ stage' = NoStage /\ lock' = "free" /\ migrate' = IdleMigrate
    /\ UNCHANGED <<inbox, store, blobs, serve, backup, importer, saved, base, botched, left>>

-----------------------------------------------------------------------------
(* backup and import.                                                       *)

BackupStarts ==
    /\ backup.at = "idle" /\ lock = "free" /\ inbox.file /\ saved.due = {}
    /\ lock' = "backup" /\ backup' = [backup EXCEPT !.at = "locked"]
    /\ saved' = [saved EXCEPT !.due = Legacy]
    /\ UNCHANGED <<inbox, store, blobs, stage, serve, migrate, importer, base, botched, left>>
\* VACUUM INTO reads one snapshot; when SQLite is out of memory for it, the files are
\* copied one after the other.
VacuumInto ==
    /\ backup.at = "locked"
    /\ saved' = [saved EXCEPT !.rows = Legacy] /\ backup' = [backup EXCEPT !.at = "copied"]
    /\ UNCHANGED <<inbox, store, blobs, stage, lock, serve, migrate, importer, base, botched, left>>
CopyDatabase ==
    /\ backup.at = "locked"
    /\ backup' = [at |-> "main", main |-> inbox.main]
    /\ UNCHANGED <<inbox, store, blobs, stage, lock, serve, migrate, importer, saved, base, botched, left>>
CopyWal ==
    /\ backup.at = "main"
    /\ saved' = [saved EXCEPT !.rows = backup.main \cup inbox.wal]
    /\ backup' = [backup EXCEPT !.at = "copied"]
    /\ UNCHANGED <<inbox, store, blobs, stage, lock, serve, migrate, importer, base, botched, left>>
\* The manifest comes last, by rename, when everything else has been copied and checked.
WriteManifest ==
    /\ backup.at = "copied"
    /\ saved' = [saved EXCEPT !.manifest = TRUE]
    /\ backup' = [at |-> "idle", main |-> {}] /\ lock' = "free"
    /\ UNCHANGED <<inbox, store, blobs, stage, serve, migrate, importer, base, botched, left>>

\* import writes the legacy inbox, looks for a store, and copies its platform there.
ImportWrites(i) ==
    /\ importer.at = "idle" /\ left.imports > 0 /\ i \notin Legacy
    /\ left' = [left EXCEPT !.imports = @ - 1]
    /\ inbox' = [inbox EXCEPT !.file = TRUE, !.wal = @ \cup {i}]
    /\ importer' = [at |-> "wrote", row |-> i]
    /\ UNCHANGED <<store, blobs, stage, lock, serve, migrate, backup, saved, base, botched>>
\* A WAL is folded into its database when nobody else has it open.
InboxClosed == IF serve.at \in {"down", "locked"} THEN [inbox EXCEPT !.main = Legacy, !.wal = {}]
               ELSE inbox
StoreInUse == serve.mode # "legacy" /\ serve.at \in {"stack", "up"}
ImportLooks ==
    /\ importer.at = "wrote"
    /\ \/ store.from # "none" /\ importer' = [importer EXCEPT !.at = "syncs"] /\ UNCHANGED inbox
       \/ store.from = "none" /\ importer' = [importer EXCEPT !.at = "idle"] /\ inbox' = InboxClosed
    /\ UNCHANGED <<store, blobs, stage, lock, serve, migrate, backup, saved, base, botched, left>>
\* SyncInto opens the store, which creates one that was rolled back meanwhile.
SyncInto ==
    /\ importer.at = "syncs"
    /\ store' = [Provisioned EXCEPT !.rows = @ \cup {importer.row}, !.full = @ \/ ~StoreInUse]
    /\ importer' = [importer EXCEPT !.at = "idle"]
    /\ inbox' = InboxClosed
    /\ UNCHANGED <<blobs, stage, lock, serve, migrate, backup, saved, base, botched, left>>

\* Any of the processes dies; its lock goes with its descriptor.
Kill(p) ==
    /\ left.kills > 0 /\ left' = [left EXCEPT !.kills = @ - 1]
    /\ lock' = IF lock = p THEN "free" ELSE lock
    /\ \/ p = "serve" /\ serve.at # "down" /\ serve' = [serve EXCEPT !.at = "down"]
          /\ UNCHANGED <<migrate, backup, importer>>
       \/ p = "migrate" /\ migrate.at # "idle" /\ migrate' = IdleMigrate
          /\ UNCHANGED <<serve, backup, importer>>
       \/ p = "backup" /\ backup.at # "idle" /\ backup' = [at |-> "idle", main |-> {}]
          /\ UNCHANGED <<serve, migrate, importer>>
       \/ p = "import" /\ importer.at # "idle" /\ importer' = [importer EXCEPT !.at = "idle"]
          /\ UNCHANGED <<serve, migrate, backup>>
    /\ UNCHANGED <<inbox, store, blobs, stage, saved, base, botched>>

ServeStep == ServeStarts \/ OpenApp \/ OpenStore \/ OpenBlobs \/ Checkpoint \/ ServeStops
             \/ \E i \in Items : Receive(i)
MigrateStep ==
    \/ MigrateStarts \/ ClearStage \/ HashDatabase \/ HashWal \/ CopySource \/ BuildStage
    \/ ValidateStage \/ PublishBlobs \/ SyncBlobs \/ PublishStore \/ SyncStore
    \/ RemoveStore \/ RemoveBlobs \/ MigrateEnds
BackupStep == BackupStarts \/ VacuumInto \/ CopyDatabase \/ CopyWal \/ WriteManifest
ImportStep == ImportLooks \/ SyncInto \/ \E i \in Items : ImportWrites(i)
DirNext ==
    \/ ServeStep \/ MigrateStep \/ BackupStep \/ ImportStep
    \/ \E p \in {"serve", "migrate", "backup", "import"} : Kill(p)
DirSpec == DirInit /\ [][DirNext]_dirVars

-----------------------------------------------------------------------------
\* publishStagedMigration calls the store rename its commit point: whenever a migrated
\* store bears its final name, its blobs do too, and it holds every row the inbox had
\* when the migration was validated, whatever was imported, refused or killed.
PublishedWhole ==
    store.from = "migrate" /\ ~botched => blobs = "migrate" /\ base \subseteq store.rows

\* requireV2PrimaryStore turns serve away with "run: openmessage migrate": then migrate,
\* when nobody else is at work, is not turned away too.
RefusalIsCurable ==
    lock = "free" /\ ~PrimaryAdmitted => MigrateAdmitted

\* What requireV2PrimaryStore says it is for: a store that shadow mode left is no cutover
\* evidence while messages.db still holds history.
PrimaryHasHistory ==
    serve.at = "up" /\ serve.mode = "primary" => History \subseteq store.rows

\* A backup that has its manifest holds what the inbox held when it was begun.
BackupIsWhole == saved.manifest => saved.due \subseteq saved.rows
=============================================================================
