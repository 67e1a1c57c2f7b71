------------------------------- MODULE Backup -------------------------------
(* Plain backups of the desktop client (apps/desktop/src-tauri/src/        *)
(* services/backup.rs): the streaming export of every storage, the import  *)
(* of a backup file into the local database or into a server, the import   *)
(* of an Apple Passwords file, and the commands of services/storage.rs     *)
(* that empty the database between them.  The user and the sync loop write *)
(* items while a command runs, and the program can be killed at any step.  *)
(* One backup command runs at a time.                                      *)
EXTENDS Integers, Sequences, FiniteSets, SequencesExt

CONSTANTS
  LocalStorage,      \* the storage with the nil id, of kind LocalOnly
  RemoteStorage,     \* the ids a storage of kind Remote can have
  Installations,     \* the storages of this kind that a new installation may sign in to
  ItemPath,          \* paths the user writes at
  CsvRows,           \* the rows of an Apple Passwords file, a sequence
  NoTitle,           \* the title of a CSV row without one
  NoCursor,
  FirstDatabases,    \* the databases and servers a behaviour starts from
  ExportPage,        \* EXPORT_PAGE_LIMIT
  NameTries,         \* attempts of the loop that names an imported vault
  MaxBackupCalls,    \* bound: commands begun
  MaxIntrusions,     \* bound: writes of the user and of the sync loop, kills and
                     \* failing requests, together
  MaxResets          \* bound: emptied databases and new installations

ASSUME BackupAssumption ==
  /\ LocalStorage \notin RemoteStorage /\ Installations \subseteq SUBSET RemoteStorage
  /\ {ExportPage, NameTries} \subseteq Nat \ {0}
  /\ {MaxBackupCalls, MaxIntrusions, MaxResets} \subseteq Nat

VARIABLES
  storages,      \* table storages: the ids
  vaults,        \* table local_vaults
  rows,          \* table items_cache
  queued,        \* items with a row in pending_changes
  remote,        \* the vaults of the server: personal and shared
  file,          \* the backup file
  exporter,      \* a running plain_export
  importer,      \* a running plain_import or apple_import
  fresh,         \* the next id
  clock,
  written,       \* ids written since the running command began
  vaultRaced,      \* the user has created a vault while an import ran
  backupCalls, backupWrites, backupKills, resets

database == <<storages, vaults, rows, queued>>
backupBounds == <<backupCalls, backupWrites, backupKills, resets, vaultRaced>>
backupVars == <<database, remote, file, exporter, importer, fresh, clock, written, backupBounds>>

Storage == {LocalStorage} \union RemoteStorage
Resting == [pc |-> "idle"]
Busy == exporter # Resting \/ importer # Resting

-----------------------------------------------------------------------------
(* The local database.                                                     *)

LocalVault(id, storage, name, kind) ==
  [id |-> id, storage |-> storage, name |-> name, kind |-> kind]

\* LocalVaultRepo::get_by_name and get_by_id.
VaultsNamed(storage, name) == { v \in vaults : v.storage = storage /\ v.name = name }
VaultsWithId(storage, id) == { v \in vaults : v.storage = storage /\ v.id = id }

\* LocalVaultRepo::create: the primary key and UNIQUE (storage_id, name).
VaultInsertable(v) == \A w \in vaults : w.id # v.id /\ <<w.storage, w.name>> # <<v.storage, v.name>>

\* LocalItemRepo::get_active_by_vault_path.
LocalAt(vault, path) == { r \in rows : r.vault = vault /\ r.path = path /\ ~r.deleted }

Slots(set) == { <<r.vault, r.path>> : r \in { x \in set : ~x.deleted } }

\* ORDER BY updated_at DESC, id DESC.
Later(r, s) == r.time > s.time \/ (r.time = s.time /\ r.id > s.id)

\* The WHERE clause of list_by_vault_paged: (updated_at, id) below the cursor.
AfterCursor(r, cursor) == cursor = NoCursor \/ Later(cursor, r)

\* LocalItemRepo::list_by_vault_paged with include_deleted.
ListPage(vault, cursor) ==
  LET found == { r \in rows : r.vault = vault /\ AfterCursor(r, cursor) }
      sorted == SetToSortSeq(found, Later)
  IN SubSeq(sorted, 1, IF Len(sorted) < ExportPage THEN Len(sorted) ELSE ExportPage)

\* delete_by_storage of the item, vault and pending tables.
Emptied(gone) ==
  LET lost == { v.id : v \in { w \in vaults : w.storage \in gone } }
  IN /\ rows' = { r \in rows : r.vault \notin lost }
     /\ queued' = { i \in queued : \A r \in rows : r.id = i => r.vault \notin lost }
     /\ vaults' = { v \in vaults : v.storage \notin gone }

\* Bound: another write, kill or failing request.
MayIntrude == backupWrites + backupKills < MaxIntrusions

-----------------------------------------------------------------------------
(* plain_export.                                                           *)

\* The storages and their vaults are listed, and File::create empties the
\* file that is there before anything is written.
BeginExport ==
  /\ ~Busy
  /\ backupCalls < MaxBackupCalls
  /\ LET listed == { v \in vaults : v.storage \in storages }
         ordered == SetToSortSeq(listed, LAMBDA v, w : v.id < w.id)
     IN /\ exporter' = [pc |-> "run", queue |-> ordered, cursor |-> NoCursor, began |-> rows]
        /\ file' = [whole |-> FALSE, storages |-> storages, vaults |-> ordered, items |-> <<>>]
  /\ backupCalls' = backupCalls + 1
  /\ written' = {}
  /\ UNCHANGED <<database, remote, importer, fresh, clock, backupWrites, backupKills, resets, vaultRaced>>

\* ExportItemStreamer: the cursor is the last item of the page.
NextCursor(page, vault, cursor) == Last(page)

\* next_item reads a page and the writer takes its items one by one; nothing
\* else touches the buffer, so a page is one step.
ExportRead ==
  /\ exporter.pc = "run"
  /\ exporter.queue # <<>>
  /\ LET vault == Head(exporter.queue).id
         page == ListPage(vault, exporter.cursor)
     IN IF page = <<>>
        THEN /\ exporter' = [exporter EXCEPT !.queue = Tail(@), !.cursor = NoCursor]
             /\ UNCHANGED file
        ELSE /\ exporter' = [exporter EXCEPT !.cursor = NextCursor(page, vault, @)]
             /\ file' = [file EXCEPT !.items = @ \o page]
  /\ UNCHANGED <<database, remote, importer, fresh, clock, written, backupBounds>>

\* The closing bracket and the flush.
ExportEnd ==
  /\ exporter.pc = "run"
  /\ exporter.queue = <<>>
  /\ exporter' = [exporter EXCEPT !.pc = "done"]
  /\ file' = [file EXCEPT !.whole = TRUE]
  /\ UNCHANGED <<database, remote, importer, fresh, clock, written, backupBounds>>

-----------------------------------------------------------------------------
(* plain_import: the target, the storages and the vaults.                  *)

\* A target of "local" is no target, and no target is the only remote
\* storage when there is exactly one.
Resolved(target) ==
  LET known == storages \intersect RemoteStorage
  IN IF target = LocalStorage /\ Cardinality(known) = 1 THEN CHOOSE s \in known : TRUE ELSE target

GoesRemote(target) == Resolved(target) \in storages \intersect RemoteStorage

StartImport(kind, target, pc) ==
  /\ ~Busy
  /\ backupCalls < MaxBackupCalls
  /\ importer' = [pc |-> pc, kind |-> kind, chosen |-> target, target |-> Resolved(target),
                  todo |-> <<>>, map |-> <<>>, names |-> {}, plan |-> <<>>, had |-> Slots(rows)]
  /\ backupCalls' = backupCalls + 1
  /\ written' = {}

\* A file that is not whole does not parse and a file of another version is
\* refused: both end the command before it writes.
BeginImport(target) ==
  /\ file.whole
  /\ ~GoesRemote(target)
  /\ StartImport("plain", target, "storages")
  /\ UNCHANGED <<database, remote, file, exporter, fresh, clock, backupWrites, backupKills, resets, vaultRaced>>

\* A storage that exists is kept, a local one is created, and any other
\* remote storage of the file is imported into the local one.
MappedStorage(s) == IF s \in storages \/ s = LocalStorage THEN s ELSE LocalStorage

ImportStorages ==
  /\ importer.pc = "storages"
  /\ storages' = storages \union (file.storages \intersect {LocalStorage})
  /\ importer' = [importer EXCEPT !.pc = "vault", !.todo = file.vaults]
  /\ UNCHANGED <<vaults, rows, queued, remote, file, exporter, fresh, clock, written, backupBounds>>

ToVault(v) == importer' = [importer EXCEPT !.todo = Tail(@), !.map = (Head(importer.todo).id :> v) @@ @]

\* The vault of that name in the target storage, else the one of that id.
Reusable(v) ==
  LET named == VaultsNamed(MappedStorage(v.storage), v.name)
  IN IF named # {} THEN named ELSE VaultsWithId(MappedStorage(v.storage), v.id)

LookupVault ==
  /\ importer.pc = "vault"
  /\ importer.todo # <<>>
  /\ LET v == Head(importer.todo) IN
     \/ /\ Reusable(v) = {}
        /\ importer' = [importer EXCEPT !.pc = "create"]
     \/ \E w \in Reusable(v) : ToVault(w.id)
  /\ UNCHANGED <<database, remote, file, exporter, fresh, clock, written, backupBounds>>

\* "name (import n)".
ImportName(name, n) == IF n = 0 THEN name ELSE Append(name, n)

Stopped(pc) == importer' = [importer EXCEPT !.pc = pc]

\* The backup's id in the backup's storage, a new id anywhere else; six
\* names, and any error but the name's ends the import.
CreateVault ==
  /\ importer.pc = "create"
  /\ LET v == Head(importer.todo)
         s == MappedStorage(v.storage)
         id == IF s = v.storage THEN v.id ELSE fresh
         Try(n) == LocalVault(id, s, ImportName(v.name, n), v.kind)
         free == { n \in 0 .. NameTries - 1 : VaultsNamed(s, ImportName(v.name, n)) = {} }
     IN IF free # {} /\ (\A w \in vaults : w.id # id)
        THEN \E n \in free :
               /\ \A m \in free : n <= m
               /\ vaults' = vaults \union {Try(n)}
               /\ importer' = [importer EXCEPT !.pc = "vault", !.todo = Tail(@),
                                               !.map = (v.id :> id) @@ @]
        ELSE Stopped("failed") /\ UNCHANGED vaults
  /\ fresh' = fresh + 1
  /\ UNCHANGED <<storages, rows, queued, remote, file, exporter, clock, written, backupBounds>>

\* The items of the file that the import puts: not the deleted ones, nor
\* those whose storage or vault the file does not list.
Planned(map) ==
  LET kept == SelectSeq(file.items, LAMBDA r : ~r.deleted /\ r.vault \in DOMAIN map)
  IN [i \in DOMAIN kept |-> [vault |-> map[kept[i].vault], path |-> kept[i].path,
                             payload |-> kept[i].payload]]

ToItems(plan) == [importer EXCEPT !.pc = "item", !.todo = plan, !.plan = plan]

VaultsDone ==
  /\ importer.pc = "vault"
  /\ importer.todo = <<>>
  /\ importer' = ToItems(Planned(importer.map))
  /\ UNCHANGED <<database, remote, file, exporter, fresh, clock, written, backupBounds>>

-----------------------------------------------------------------------------
(* Items: the lookup, the INSERT and the change queue are three statements.*)

NextItem == importer' = [importer EXCEPT !.pc = "item", !.todo = Tail(@)]

\* A lookup that counts the trash leaves the item of the file out.
OccupiedByTrash(e) == { r \in rows : r.vault = e.vault /\ r.path = e.path }

Occupied(e) == LocalAt(e.vault, e.path)

LookupItem ==
  /\ importer.pc = "item"
  /\ importer.todo # <<>>
  /\ IF Occupied(Head(importer.todo)) # {} THEN NextItem ELSE Stopped("put")
  /\ UNCHANGED <<database, remote, file, exporter, fresh, clock, written, backupBounds>>

\* put_item: a path taken since the lookup is "item_exists" when its own
\* lookup sees it and a failing INSERT, which ends the import, when not.
PutItem ==
  /\ importer.pc = "put"
  /\ LET e == Head(importer.todo) IN
     \/ /\ LocalAt(e.vault, e.path) # {}
        /\ NextItem \/ Stopped("failed")
        /\ UNCHANGED <<rows, fresh, clock>>
     \/ /\ LocalAt(e.vault, e.path) = {}
        /\ rows' = rows \union {[id |-> fresh, vault |-> e.vault, path |-> e.path,
                                 payload |-> e.payload, deleted |-> FALSE, time |-> clock]}
        /\ fresh' = fresh + 1
        /\ clock' = clock + 1
        /\ Stopped("track")
  /\ UNCHANGED <<storages, vaults, queued, remote, file, exporter, written, backupBounds>>

\* The history row and track_pending: nothing is queued for the nil storage.
TrackItem ==
  /\ importer.pc = "track"
  /\ LET e == Head(importer.todo)
         storage == (CHOOSE v \in vaults : v.id = e.vault).storage
     IN queued' = queued \union (IF storage = LocalStorage THEN {} ELSE {fresh - 1})
  /\ NextItem
  /\ UNCHANGED <<storages, vaults, rows, remote, file, exporter, fresh, clock, written, backupBounds>>

\* The counters are answered; a remote import syncs first.
ItemsDone ==
  /\ importer.pc = "item"
  /\ importer.todo = <<>>
  /\ Stopped(IF importer.kind = "remote" THEN "sync" ELSE "done")
  /\ UNCHANGED <<database, remote, file, exporter, fresh, clock, written, backupBounds>>

-----------------------------------------------------------------------------
(* plain_import_remote.                                                    *)

BeginRemoteImport(target) ==
  /\ file.whole
  /\ GoesRemote(target)
  /\ StartImport("remote", target, "list")
  /\ UNCHANGED <<database, remote, file, exporter, fresh, clock, backupWrites, backupKills, resets, vaultRaced>>

\* GET /v1/vaults and /v1/vaults/personal/status: shared vaults by name,
\* and the personal one, without which the import ends.
ListRemote ==
  /\ importer.pc = "list"
  /\ IF \E v \in remote : v.kind = "personal"
     THEN importer' = [importer EXCEPT !.pc = "remote", !.todo = file.vaults,
                                       !.names = { v \in remote : v.kind = "shared" }]
     ELSE Stopped("failed")
  /\ UNCHANGED <<database, remote, file, exporter, fresh, clock, written, backupBounds>>

\* A personal vault of the file is the account's, a shared one is found by
\* the name that was listed or created; else POST /v1/vaults, with another
\* slug while the server answers slug_taken.
RemoteVaultFor ==
  /\ importer.pc = "remote"
  /\ importer.todo # <<>>
  /\ LET v == Head(importer.todo)
         known == { w \in importer.names : w.name = v.name }
         created == [id |-> fresh, name |-> v.name, kind |-> "shared"]
     IN \/ /\ v.kind = "personal"
           /\ ToVault((CHOOSE w \in remote : w.kind = "personal").id)
           /\ UNCHANGED <<remote, fresh>>
        \/ /\ v.kind = "shared" /\ known # {}
           /\ \E w \in known : ToVault(w.id)
           /\ UNCHANGED <<remote, fresh>>
        \/ /\ v.kind = "shared" /\ known = {}
           /\ remote' = remote \union {created}
           /\ fresh' = fresh + 1
           /\ importer' = [importer EXCEPT !.todo = Tail(@), !.names = @ \union {created},
                                           !.map = (v.id :> fresh) @@ @]
  /\ UNCHANGED <<database, file, exporter, clock, written, backupBounds>>

\* The details of every target, and a local row for each that has none.
RemoteDetails ==
  /\ importer.pc = "remote"
  /\ importer.todo = <<>>
  /\ LET targets == { w \in remote : w.id \in { importer.map[i] : i \in DOMAIN importer.map } }
         missing == { w \in targets : VaultsWithId(importer.target, w.id) = {} }
         made == { LocalVault(w.id, importer.target, w.name, w.kind) : w \in missing }
     IN IF \A v \in made : VaultInsertable(v)
        THEN /\ vaults' = vaults \union made
             /\ importer' = ToItems(Planned(importer.map))
        ELSE Stopped("failed") /\ UNCHANGED vaults
  /\ UNCHANGED <<storages, rows, queued, remote, file, exporter, fresh, clock, written, backupBounds>>

\* remote_sync answers, or the import is "sync_failed".
SyncImported ==
  /\ importer.pc = "sync"
  /\ Stopped("done") \/ Stopped("failed")
  /\ UNCHANGED <<database, remote, file, exporter, fresh, clock, written, backupBounds>>

\* A request fails before or after the server has acted.
RequestFails ==
  /\ importer.pc \in {"list", "remote"}
  /\ MayIntrude
  /\ \/ UNCHANGED <<remote, fresh>>
     \/ /\ importer.todo # <<>> /\ Head(importer.todo).kind = "shared"
        /\ \A w \in importer.names : w.name # Head(importer.todo).name
        /\ remote' = remote \union {[id |-> fresh, name |-> Head(importer.todo).name, kind |-> "shared"]}
        /\ fresh' = fresh + 1
  /\ Stopped("failed")
  /\ backupKills' = backupKills + 1
  /\ UNCHANGED <<database, file, exporter, clock, written, backupCalls, backupWrites, resets, vaultRaced>>

-----------------------------------------------------------------------------
(* apple_import.                                                           *)

LocalPersonal == <<"Personal (Local)">>

AppleItems(vault) ==
  LET titled == SelectSeq(CsvRows, LAMBDA r : r.path # NoTitle)
  IN [i \in DOMAIN titled |-> [vault |-> vault, path |-> titled[i].path, payload |-> titled[i].payload]]

\* The personal vault of the target: the local one is created when it is
\* missing, the server's gets its local row; personal vaults that the server
\* has disabled and failing requests end the import.
BeginApple(target) ==
  /\ StartImport("apple", target, "apple")
  /\ UNCHANGED <<database, remote, file, exporter, fresh, clock, backupWrites, backupKills, resets, vaultRaced>>

AppleLocal ==
  /\ importer.pc = "apple"
  /\ importer.target \notin storages \intersect RemoteStorage
  /\ LET found == VaultsNamed(LocalStorage, LocalPersonal)
     IN IF found # {}
        THEN /\ \E v \in found : importer' = ToItems(AppleItems(v.id))
             /\ UNCHANGED <<vaults, fresh>>
        ELSE /\ vaults' = vaults \union {LocalVault(fresh, LocalStorage, LocalPersonal, "personal")}
             /\ fresh' = fresh + 1
             /\ importer' = ToItems(AppleItems(fresh))
  /\ UNCHANGED <<storages, rows, queued, remote, file, exporter, clock, written, backupBounds>>

AppleRemote ==
  /\ importer.pc = "apple"
  /\ importer.target \in storages \intersect RemoteStorage
  /\ LET local == { v \in vaults : v.storage = importer.target /\ v.kind = "personal" }
         server == { w \in remote : w.kind = "personal" }
         made == { LocalVault(w.id, importer.target, w.name, "personal") : w \in server }
     IN \/ /\ local # {}
           /\ \E v \in local : importer' = ToItems(AppleItems(v.id))
           /\ UNCHANGED vaults
        \/ /\ local = {} /\ server # {} /\ \A v \in made : VaultInsertable(v)
           /\ vaults' = vaults \union made
           /\ \E v \in made : importer' = ToItems(AppleItems(v.id))
        \/ Stopped("failed") /\ UNCHANGED vaults
  /\ UNCHANGED <<storages, rows, queued, remote, file, exporter, fresh, clock, written, backupBounds>>

-----------------------------------------------------------------------------
(* The end of a command, and what happens beside it.                       *)

CloseCommand ==
  /\ \/ exporter.pc = "done" /\ exporter' = Resting /\ UNCHANGED importer
     \/ importer.pc \in {"done", "failed"} /\ importer' = Resting /\ UNCHANGED exporter
  /\ UNCHANGED <<database, remote, file, fresh, clock, written, backupBounds>>

\* A kill, or a page that cannot be read or decrypted, or a file that cannot
\* be written: the command is gone and the file stays as it is.
KillDesktop ==
  /\ Busy
  /\ {exporter.pc, importer.pc} \intersect {"done", "failed"} = {}
  /\ MayIntrude
  /\ exporter' = Resting
  /\ importer' = Resting
  /\ backupKills' = backupKills + 1
  /\ UNCHANGED <<database, remote, file, fresh, clock, written, backupCalls, backupWrites, resets, vaultRaced>>

Touch(id) ==
  /\ Busy
  /\ {exporter.pc, importer.pc} \intersect {"done", "failed"} = {}
  /\ MayIntrude
  /\ backupWrites' = backupWrites + 1
  /\ clock' = clock + 1
  /\ written' = written \union {id}
  /\ UNCHANGED <<storages, queued, remote, file, exporter, importer, backupCalls, backupKills, resets>>

\* An edit, a move to the trash or a pulled change: the row gets a new time.
RewriteItem ==
  \E r \in rows, deleted \in BOOLEAN :
    /\ ~r.deleted
    /\ rows' = (rows \ {r}) \union
               {[r EXCEPT !.payload = 0, !.deleted = deleted, !.time = clock]}
    /\ UNCHANGED <<vaults, fresh, vaultRaced>>
    /\ Touch(r.id)

AddItem ==
  \E v \in vaults, path \in ItemPath :
    /\ LocalAt(v.id, path) = {}
    /\ rows' = rows \union {[id |-> fresh, vault |-> v.id, path |-> path, payload |-> 0,
                             deleted |-> FALSE, time |-> clock]}
    /\ fresh' = fresh + 1
    /\ UNCHANGED <<vaults, vaultRaced>>
    /\ Touch(fresh)

\* vault_create in the local storage, under a name the file has too.
AddVault ==
  \E v \in ToSet(file.vaults) :
    LET added == LocalVault(fresh, LocalStorage, v.name, "personal") IN
    /\ LocalStorage \in storages
    /\ VaultInsertable(added)
    /\ vaults' = vaults \union {added}
    /\ fresh' = fresh + 1
    /\ vaultRaced' = TRUE
    /\ UNCHANGED rows
    /\ Touch(fresh)

\* Bound: what a database may be before the first command, FirstDatabases says.
MayReset == backupCalls > 0 /\ resets < MaxResets

\* The tables of the storages in cleared lose their rows; the storages in gone
\* are removed, whose vaults nothing but the list of storages leads to.
ClearTables(cleared, gone) ==
  /\ ~Busy
  /\ MayReset
  /\ Emptied(cleared)
  /\ storages' = storages \ gone
  /\ resets' = resets + 1
  /\ UNCHANGED <<remote, file, exporter, importer, fresh, clock, written, backupCalls,
                 backupWrites, backupKills, vaultRaced>>

StorageDelete(s) == s \in storages /\ ClearTables({s}, {s})
StorageDisconnect(s) == s \in storages /\ ClearTables({s}, {s})

\* With erase_cache; without, only the tokens go.
StorageSignOut(s) == s \in storages \intersect RemoteStorage /\ ClearTables({s}, {})

LocalClearData(also_clear_remote_cache, also_remove_connections) ==
  LET local == storages \intersect {LocalStorage}
  IN  ClearTables(IF also_clear_remote_cache THEN storages ELSE local,
                  IF also_remove_connections THEN storages ELSE local)

LocalFactoryReset == ClearTables(storages, storages)

\* Another installation: the local storage of the migration, perhaps a
\* server under an id of its own.
Reinstall ==
  /\ ~Busy
  /\ MayReset
  /\ \E servers \in Installations :
       /\ Cardinality(servers) <= 1
       /\ storages' = {LocalStorage} \union servers
  /\ vaults' = {} /\ rows' = {} /\ queued' = {}
  /\ resets' = resets + 1
  /\ UNCHANGED <<remote, file, exporter, importer, fresh, clock, written, backupCalls, backupWrites, backupKills, vaultRaced>>

-----------------------------------------------------------------------------
BackupInit ==
  /\ \E db \in FirstDatabases :
       /\ storages = db.storages /\ vaults = db.vaults /\ rows = db.rows /\ remote = db.remote
  /\ queued = {}
  /\ file = [whole |-> FALSE, storages |-> {}, vaults |-> <<>>, items |-> <<>>]
  /\ exporter = Resting /\ importer = Resting
  /\ fresh = 10 /\ clock = 5
  /\ written = {}
  /\ backupCalls = 0 /\ backupWrites = 0 /\ backupKills = 0 /\ resets = 0
  /\ vaultRaced = FALSE

ImportStep ==
  \/ ImportStorages \/ LookupVault \/ CreateVault \/ VaultsDone
  \/ LookupItem \/ PutItem \/ TrackItem \/ ItemsDone
  \/ ListRemote \/ RemoteVaultFor \/ RemoteDetails \/ SyncImported
  \/ AppleLocal \/ AppleRemote

BackupNext ==
  \/ BeginExport \/ ExportRead \/ ExportEnd
  \/ \E target \in Storage : BeginImport(target) \/ BeginRemoteImport(target) \/ BeginApple(target)
  \/ ImportStep \/ RequestFails \/ CloseCommand \/ KillDesktop
  \/ RewriteItem \/ AddItem \/ AddVault \/ Reinstall
  \/ \E s \in Storage : StorageDelete(s) \/ StorageDisconnect(s) \/ StorageSignOut(s)
  \/ \E cache, connections \in BOOLEAN : LocalClearData(cache, connections)
  \/ LocalFactoryReset

-----------------------------------------------------------------------------
(* Properties.                                                             *)

\* The keys of the local tables: one vault per id and per name of a storage,
\* one item per id, one active item per path, no item without its vault.
BackupTypeOK ==
  /\ storages \subseteq Storage
  /\ \A v, w \in vaults : v # w => v.id # w.id /\ <<v.storage, v.name>> # <<w.storage, w.name>>
  /\ \A r, s \in rows : r # s => r.id # s.id /\ (r.deleted \/ s.deleted \/ <<r.vault, r.path>> # <<s.vault, s.path>>)
  /\ \A r \in rows : \E v \in vaults : v.id = r.vault
  /\ exporter.pc \in {"idle", "run", "done"}
  /\ importer.pc \in {"idle", "storages", "vault", "create", "item", "put", "track", "list",
                      "remote", "sync", "apple", "done", "failed"}

\* An export that ends has every item of the listed storages that nothing
\* wrote meanwhile, as it was and exactly once, whatever the pages, the
\* equal times and the writes beside it (ExportItemStreamer and
\* list_by_vault_paged).
ExportIsComplete ==
  exporter.pc = "done" =>
    \A r \in exporter.began :
      (r.id \notin written /\ \E v \in ToSet(file.vaults) : v.id = r.vault) =>
        Cardinality({ i \in DOMAIN file.items : file.items[i] = r }) = 1

\* An import that answers OK has an active item for every item of the file
\* that was not deleted, in the vault its vault was mapped to, and when the
\* slot was free, wanted once and not written by the user it has the payload
\* of the file: also after a kill half way and a second run (plain_import,
\* apple_import, put_item).
ImportRestores ==
  importer.pc = "done" =>
    /\ importer.kind # "apple" =>
         \A i \in DOMAIN file.items : ~file.items[i].deleted => file.items[i].vault \in DOMAIN importer.map
    /\ \A i \in DOMAIN importer.plan :
         LET e == importer.plan[i]
             there == { r \in rows : r.vault = e.vault /\ r.path = e.path }
             alone == \A j \in DOMAIN importer.plan :
                        <<importer.plan[j].vault, importer.plan[j].path>> = <<e.vault, e.path>> => i = j
         IN \/ \E r \in there : r.id \in written
            \/ /\ \E r \in there : ~r.deleted
               /\ (alone /\ <<e.vault, e.path>> \notin importer.had) =>
                    \E r \in there : ~r.deleted /\ r.payload = e.payload

\* Imports make no second copy of a vault: no name with "(import n)" comes
\* into being, however often an import is killed and run again, unless the
\* user creates a vault of that name between the lookup and the INSERT (the
\* lookup by name of plain_import before LocalVaultRepo::create).
VaultsNotMultiplied == ~vaultRaced => \A v \in vaults : Len(v.name) = 1

\* A backup is worth its name: an export is complete, an import restores the
\* file and makes nothing twice (plain_export, plain_import, apple_import).
BackupIsFaithful == ExportIsComplete /\ ImportRestores /\ VaultsNotMultiplied

\* What the choice "Local (this device)" says: an import with that target puts
\* no item into a vault of a server.
LocalTargetStaysLocal ==
  (importer.pc = "track" /\ importer.chosen = LocalStorage) =>
    \A v \in vaults : v.id = Head(importer.todo).vault => v.storage = LocalStorage
=============================================================================
