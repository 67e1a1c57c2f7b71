---------------------------- MODULE MCVaultDoors ----------------------------
(***************************************************************************)
(* One instance of the modules about the doors to the vaults of a server:  *)
(* ItemsApi, ItemFiles, SharedVault, VaultAdmin, ServiceTokens,            *)
(* AccessRules and Backup.  They share no state here; part says which of   *)
(* them moves in a behaviour.                                              *)
(***************************************************************************)
EXTENDS MCItemsApi, ItemFiles, SharedVault, VaultAdmin, ServiceTokens, MCAccessRules, MCBackup

CONSTANTS u1, g1, g2

VARIABLE part

doorVars == <<part, vars, fileVars, sharedVars, adminVars, tokenVars, accessVars, backupVars>>

\* SharedVault: what is interleaved with what.
OperationMenus ==
  { {"ensure", "get"}, {"ensure", "set"}, {"rotate", "delete"}, {"create", "field"},
    {"move", "delete"}, {"update", "delete", "read"}, {"field", "update"}, {"rotate", "update"},
    {"create", "list"} }

\* ItemFiles: uploads to two items, one item in two representations, and one
\* item that is uploaded to, edited, deleted and restored.
FileMenu(ops, items, modes) == [ops |-> ops, items |-> items, modes |-> modes]
FileOperationMenus ==
  { FileMenu({"upload", "download"}, {g1, g2}, {"plain"}),
    FileMenu({"upload", "download"}, {g1}, Representation) }
  \cup { FileMenu(ops, {g1}, {"plain"}) :
           ops \in {{"upload", "edit"}, {"upload", "delete"}, {"edit", "delete", "restore"}} }

\* VaultAdmin: the administrators are one user in two sessions.
OneUser == [c \in Admin |-> u1]

\* A part that does not move keeps one of its initial states.
SharedAtRest == sharedMenu = (CHOOSE m \in SharedMenus : TRUE) /\ itemRows = <<>>
FilesAtRest ==
  /\ fileMenu = (CHOOSE m \in FileMenus : TRUE)
  /\ \A i \in FileItem : fileRows[i].payload = [seal |-> 1, state |-> "pending",
                                              file |-> CHOOSE f \in FileId : TRUE]
RulesAtRest == question = (CHOOSE r \in RoleQuestions : TRUE) /\ verdict = Unanswered
BackupAtRest == storages = {bl}

DoorsInit ==
  /\ part \in {"items", "files", "shared", "admin", "tokens", "rules", "backup"}
  /\ Init /\ VaultAdminInit /\ ServiceTokensInit
  /\ ItemFilesInit /\ (part # "files" => FilesAtRest)
  /\ SharedVaultInit /\ (part # "shared" => SharedAtRest)
  /\ IF part = "rules" THEN AccessInit ELSE RulesAtRest
  /\ BackupInit /\ (part # "backup" => BackupAtRest)

DoorsNext ==
  /\ UNCHANGED part
  /\ \/ /\ part = "items" /\ Next
        /\ UNCHANGED <<fileVars, sharedVars, adminVars, tokenVars, accessVars, backupVars>>
     \/ /\ part = "files" /\ ItemFilesNext
        /\ UNCHANGED <<vars, sharedVars, adminVars, tokenVars, accessVars, backupVars>>
     \/ /\ part = "shared" /\ SharedVaultNext
        /\ UNCHANGED <<vars, fileVars, adminVars, tokenVars, accessVars, backupVars>>
     \/ /\ part = "admin" /\ VaultAdminNext
        /\ UNCHANGED <<vars, fileVars, sharedVars, tokenVars, accessVars, backupVars>>
     \/ /\ part = "tokens" /\ ServiceTokensNext
        /\ UNCHANGED <<vars, fileVars, sharedVars, adminVars, accessVars, backupVars>>
     \/ /\ part = "rules" /\ Decide
        /\ UNCHANGED <<vars, fileVars, sharedVars, adminVars, tokenVars, backupVars>>
     \/ /\ part = "backup" /\ BackupNext
        /\ UNCHANGED <<vars, fileVars, sharedVars, adminVars, tokenVars, accessVars>>

DoorsSpec == DoorsInit /\ [][DoorsNext]_doorVars

-----------------------------------------------------------------------------
\* The tables of all parts keep their types and their keys (PRIMARY KEY and
\* UNIQUE of the migrations), and what a handler has read is a row of them.
DoorsTypeOK ==
  /\ TypeOK /\ ItemFilesTypeOK /\ SharedVaultTypeOK /\ VaultAdminTypeOK
  /\ ServiceTokensTypeOK /\ BackupTypeOK

\* The payload that a write of the items API or of an upload replaces is in the
\* history (update_item, restore_item_version, update_file_upload_state).
ReplacedPayloadKept == [][ReplacementKept /\ FileReplacementKept]_doorVars
=============================================================================
