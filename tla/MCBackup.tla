------------------------------ MODULE MCBackup ------------------------------
(* Instance of Backup: the databases a behaviour starts from and the file  *)
(* of another password manager.                                            *)
EXTENDS Backup

CONSTANTS bl, r1, r2

\* Two vaults of a name in two storages, and one vault with a trash.
StoredItem(id, v, path, t, d) ==
  [id |-> id, vault |-> v, path |-> path, payload |-> id, deleted |-> d, time |-> t]
ServerVaults == {[id |-> 3, name |-> <<"own">>, kind |-> "personal"]}
Databases ==
  { [storages |-> {bl, r1}, remote |-> ServerVaults,
     vaults |-> {LocalVault(1, bl, <<"home">>, "shared"), LocalVault(2, r1, <<"home">>, "shared")},
     rows |-> {StoredItem(1, 1, "p", 2, FALSE), StoredItem(3, 2, "p", 1, FALSE)}],
    [storages |-> {bl}, remote |-> ServerVaults,
     vaults |-> {LocalVault(1, bl, <<"home">>, "personal")},
     rows |-> {StoredItem(1, 1, "p", 2, FALSE), StoredItem(2, 1, "q", 2, TRUE),
               StoredItem(3, 1, "q", 2, FALSE)}] }
ServersSignedIn == {{}, {r1}, {r1, r2}}
Csv == <<[path |-> "p", payload |-> 8], [path |-> NoTitle, payload |-> 9]>>

BackupSpec == BackupInit /\ [][BackupNext]_backupVars
=============================================================================
