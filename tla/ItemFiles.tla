------------------------------- MODULE ItemFiles -------------------------------
(***************************************************************************)
(* The files of file_secret items in a server encrypted vault:             *)
(* upload_item_file, update_file_upload_state, download_item_file, and     *)
(* what update_item, delete_item and restore_item_version do to the rows   *)
(* of table attachments (domains/items/service.rs).  A handler is a row of *)
(* statements without a transaction.  An upload writes the file, and then  *)
(* turns the payload of the item from pending to ready with an update that *)
(* reads the row twice more.                                               *)
(*                                                                         *)
(* A payload is one encryption (seal) of a state and a file id.  The       *)
(* INSERT into the history and its pruning are one step here; ItemsApi     *)
(* takes them apart.                                                       *)
(***************************************************************************)
EXTENDS Naturals, FiniteSets

CONSTANTS
  FileItem,        \* items of type file_secret
  FileId,          \* the ids clients choose for files
  FileCaller,      \* concurrent requests
  NoFile,          \* no row in attachments
  FileMenus,       \* what is interleaved: operations, items and representations
  GraceDays,       \* attachments_gc_grace_days
  FileHistoryKeep, \* ITEM_HISTORY_LIMIT
  MaxFileCalls, MaxFileDrops

ASSUME ItemFilesAssumption ==
  /\ FileItem # {} /\ FileId # {}
  /\ \A m \in FileMenus : m.items \subseteq FileItem /\ m.modes \subseteq {"plain", "opaque"}
  /\ FileHistoryKeep \in Nat \ {0}
  /\ {GraceDays, MaxFileCalls, MaxFileDrops} \subseteq Nat

VARIABLES
  fileRows,        \* table items
  fileHistory,     \* table item_history
  attachments,     \* table attachments
  fileCall,        \* per caller, the handler that runs
  uploads,         \* what uploads have sent
  uploaded,        \* the item and file of every upload that was answered
  downloaded,      \* what downloads have answered
  purged,          \* files that purge_deleted_before has removed
  deletesLost,     \* deletions that marked the files and did not write the item
  fileMenu, seals, fileNow, fileCalls, fileDrops

fileVars == <<fileRows, fileHistory, attachments, fileCall, uploads, uploaded, downloaded, purged,
              deletesLost, fileMenu, seals, fileNow, fileCalls, fileDrops>>
fileAnswers == <<uploads, uploaded, downloaded>>

Representation == {"plain", "opaque"}

\* deleted_at IS NULL; the clock starts at 1.
NotDeleted == 0

FilePayload == [seal : Nat, state : {"pending", "ready"}, file : FileId]
FileRow == [payload : FilePayload, version : Nat, row_version : Nat, active : BOOLEAN]
Attachment == [item : FileItem, content : Nat, mode : Representation, created_at : Nat,
               deleted_at : Nat]

ASSUME NoFileAssumption == NoFile \notin Attachment

NoFileRow == [payload |-> [seal |-> 0, state |-> "pending", file |-> CHOOSE f \in FileId : TRUE],
              version |-> 0, row_version |-> 0, active |-> FALSE]
NoFileCall == [op |-> "none", at |-> "idle", item |-> CHOOSE i \in FileItem : TRUE,
               file |-> CHOOSE f \in FileId : TRUE, mode |-> "plain", content |-> 0, now |-> 0,
               row |-> NoFileRow, payload |-> NoFileRow.payload, version |-> 0]

\* Every handler here takes version and row_version one further.
ItemFilesTypeOK ==
  /\ fileRows \in [FileItem -> FileRow]
  /\ \A i \in FileItem : fileRows[i].version = fileRows[i].row_version
  /\ fileHistory \subseteq [item : FileItem, version : Nat, payload : FilePayload]
  /\ \A h, k \in fileHistory : h.item = k.item /\ h.version = k.version => h = k
  /\ attachments \in [FileId -> Attachment \cup {NoFile}]
  /\ fileCall \in [FileCaller ->
       [op : {"none", "upload", "edit", "delete", "restore", "download"},
        at : {"idle", "item", "file", "insert", "state", "read", "history", "mark", "purge",
              "clear", "write", "list"},
        item : FileItem, file : FileId, mode : Representation, content : Nat, now : Nat,
        row : FileRow, payload : FilePayload, version : Nat]]

\* Items wait for their file; one of them, the first, may have got it.
InitialFiles(expected, menu, done, first) ==
  /\ fileMenu = menu
  /\ \A i \in FileItem \ (menu.items \ {first}) : expected[i] = NoFileRow.payload.file
  /\ fileRows = [i \in FileItem |->
       [payload |-> [seal |-> 1, file |-> expected[i],
                     state |-> IF done /\ i = first THEN "ready" ELSE "pending"],
        version |-> 1, row_version |-> 1, active |-> TRUE]]
  /\ attachments = [f \in FileId |->
       IF done /\ f = expected[first]
       THEN [item |-> first, content |-> 0, mode |-> "plain", created_at |-> 0,
             deleted_at |-> NotDeleted]
       ELSE NoFile]
  /\ fileHistory = {[item |-> i, version |-> 1, payload |-> fileRows[i].payload] : i \in FileItem}
  /\ uploads = IF done THEN {[item |-> first, content |-> 0, mode |-> "plain"]} ELSE {}
  /\ uploaded = {} /\ downloaded = {} /\ purged = {} /\ deletesLost = 0
  /\ fileCall = [c \in FileCaller |-> NoFileCall]
  /\ seals = 1 /\ fileNow = 1 /\ fileCalls = 0 /\ fileDrops = 0

ItemFilesInit ==
  \E expected \in [FileItem -> FileId], menu \in FileMenus, done \in BOOLEAN :
    \E first \in menu.items : InitialFiles(expected, menu, done, first)

-----------------------------------------------------------------------------
(* Table attachments.                                                      *)

\* AttachmentRepo::get_by_id
FileKnown(f) == attachments[f] # NoFile

\* AttachmentRepo::create: the id is the primary key.
InsertFails(f) == FileKnown(f)

\* list_by_item
ListByItem(i) == {f \in FileId : FileKnown(f) /\ attachments[f].item = i /\ attachments[f].deleted_at = NotDeleted}

\* mark_deleted_by_item
MarkDeletedByItem(i, now) ==
  [f \in FileId |-> IF f \in ListByItem(i)
                    THEN [attachments[f] EXCEPT !.deleted_at = now]
                    ELSE attachments[f]]

\* Faulty: a restored item does not get its file back.
ClearNothing(i) == attachments

\* clear_deleted_by_item
ClearDeletedByItem(i) ==
  [f \in FileId |-> IF FileKnown(f) /\ attachments[f].item = i
                    THEN [attachments[f] EXCEPT !.deleted_at = NotDeleted]
                    ELSE attachments[f]]

\* purge_deleted_before: deleted_at < now - grace, in all items.
Purgeable(now) ==
  {f \in FileId : FileKnown(f) /\ attachments[f].deleted_at # NotDeleted
                    /\ attachments[f].deleted_at + GraceDays < now}

-----------------------------------------------------------------------------
(* Calls.                                                                  *)

AtFile(c, at) == fileCall[c].at = at
GotoFile(c, at) == fileCall' = [fileCall EXCEPT ![c].at = at]
EndFile(c) == fileCall' = [fileCall EXCEPT ![c] = NoFileCall]

StartFile(c, call) ==
  /\ AtFile(c, "idle") /\ call.op \in fileMenu.ops /\ fileCalls < MaxFileCalls
  /\ fileCalls' = fileCalls + 1
  /\ fileCall' = [fileCall EXCEPT ![c] = call]
  /\ UNCHANGED <<fileMenu, fileRows, fileHistory, attachments, uploaded, downloaded, purged, deletesLost,
                 fileNow, fileDrops>>

\* The request has a representation, an id and the bytes.
BeginUpload(c, i, f, mode) ==
  /\ StartFile(c, [NoFileCall EXCEPT !.op = "upload", !.at = "item", !.item = i, !.file = f,
                                     !.mode = mode, !.content = fileCalls + 1])
  /\ uploads' = uploads \cup {[item |-> i, content |-> fileCalls + 1, mode |-> mode]}
  /\ UNCHANGED seals

\* An edit sends back the state and file the client has read, or waits for a
\* new file.
BeginFileEdit(c, i, f, keeps) ==
  /\ StartFile(c, [NoFileCall EXCEPT !.op = "edit", !.at = "read", !.item = i,
       !.payload = IF keeps THEN [fileRows[i].payload EXCEPT !.seal = seals + 1]
                   ELSE [seal |-> seals + 1, state |-> "pending", file |-> f]])
  /\ seals' = seals + 1
  /\ UNCHANGED uploads

BeginFileDelete(c, i) ==
  /\ StartFile(c, [NoFileCall EXCEPT !.op = "delete", !.at = "read", !.item = i])
  /\ UNCHANGED <<uploads, seals>>

\* list_item_versions: what a client picks the version to restore from.
ListItemVersions(i) == {h.version : h \in {h \in fileHistory : h.item = i}}

BeginFileRestore(c, i, version) ==
  /\ version \in ListItemVersions(i)
  /\ StartFile(c, [NoFileCall EXCEPT !.op = "restore", !.at = "read", !.item = i,
                                     !.version = version])
  /\ UNCHANGED <<uploads, seals>>

\* download_item_file reads the item, deleted or not.
BeginDownload(c, i, mode) ==
  /\ StartFile(c, [NoFileCall EXCEPT !.op = "download", !.at = "list", !.item = i, !.mode = mode,
                                     !.row = fileRows[i]])
  /\ UNCHANGED <<uploads, seals>>

\* upload_item_file reads the item, deleted or not.
UploadReadsItem(c) ==
  /\ AtFile(c, "item")
  /\ fileCall' = [fileCall EXCEPT ![c].at = "file", ![c].row = fileRows[fileCall[c].item]]
  /\ UNCHANGED <<fileMenu, fileRows, fileHistory, attachments, fileAnswers, purged, deletesLost, seals,
                 fileNow, fileCalls, fileDrops>>

\* The id of the item's own file is an answer, a deleted one too; the id of
\* another item's file is a conflict.  A new file must be the one the payload
\* waits for.
UploadLooksUpFile(c) ==
  /\ AtFile(c, "file")
  /\ LET f == fileCall[c].file
         i == fileCall[c].item
         expected == fileCall[c].row.payload
     IN  IF FileKnown(f)
         THEN /\ uploaded' = uploaded \cup IF attachments[f].item = i THEN {<<i, f>>} ELSE {}
              /\ EndFile(c)
         ELSE /\ IF expected.state = "pending" /\ expected.file = f THEN GotoFile(c, "insert")
                 ELSE EndFile(c)
              /\ UNCHANGED uploaded
  /\ UNCHANGED <<fileMenu, fileRows, fileHistory, attachments, uploads, downloaded, purged, deletesLost,
                 seals, fileNow, fileCalls, fileDrops>>

\* The bytes are stored, those of a plain upload encrypted with the key of the
\* vault.
InsertAttachment(c) ==
  /\ AtFile(c, "insert")
  /\ LET f == fileCall[c].file
     IN  IF InsertFails(f)
         THEN EndFile(c) /\ UNCHANGED attachments
         ELSE /\ attachments' = [attachments EXCEPT ![f] =
                   [item |-> fileCall[c].item, content |-> fileCall[c].content,
                    mode |-> fileCall[c].mode, created_at |-> fileCall[c].content,
                    deleted_at |-> NotDeleted]]
              /\ GotoFile(c, "state")
  /\ UNCHANGED <<fileMenu, fileRows, fileHistory, fileAnswers, purged, deletesLost, seals, fileNow,
                 fileCalls, fileDrops>>

\* update_file_upload_state reads the payload and makes it ready; what else is
\* in the payload is not told apart here.
ReadUploadState(c) ==
  /\ AtFile(c, "state")
  /\ seals' = seals + 1
  /\ fileCall' = [fileCall EXCEPT ![c].at = "read",
       ![c].payload = [seal |-> seals + 1, state |-> "ready", file |-> fileCall[c].file]]
  /\ UNCHANGED <<fileMenu, fileRows, fileHistory, attachments, fileAnswers, purged, deletesLost, fileNow,
                 fileCalls, fileDrops>>

\* update_item and delete_item read the item.
ReadFileRow(c, now) ==
  /\ AtFile(c, "read") /\ fileCall[c].op # "restore"
  /\ LET row == fileRows[fileCall[c].item]
     IN  fileCall' = [fileCall EXCEPT ![c].at = "history", ![c].row = row, ![c].now = now,
                        ![c].payload = IF fileCall[c].op = "delete" THEN row.payload ELSE @]
  /\ fileNow' = now
  /\ UNCHANGED <<fileMenu, fileRows, fileHistory, attachments, fileAnswers, purged, deletesLost, seals,
                 fileCalls, fileDrops>>

\* get_by_item_version, which finds nothing when the version was pruned.
GetByItemVersion(i, version) == {h \in fileHistory : h.item = i /\ h.version = version}

\* restore_item_version reads the item and the version; one with the checksum
\* of the row is not restored.
ReadVersion(c) ==
  /\ AtFile(c, "read") /\ fileCall[c].op = "restore"
  /\ LET row == fileRows[fileCall[c].item]
         found == {h \in GetByItemVersion(fileCall[c].item, fileCall[c].version) :
                     h.payload # row.payload}
     IN  \/ found = {} /\ EndFile(c)
         \/ \E h \in found :
              fileCall' = [fileCall EXCEPT ![c].at = "history", ![c].row = row,
                             ![c].now = fileNow, ![c].payload = h.payload]
  /\ UNCHANGED <<fileMenu, fileRows, fileHistory, attachments, fileAnswers, purged, deletesLost, seals,
                 fileNow, fileCalls, fileDrops>>

\* What the history gets.
SavedPayload(c) == fileCall[c].row.payload

\* INSERT into the history, which refuses a version twice, and prune_by_item.
SaveFileVersion(c) ==
  /\ AtFile(c, "history")
  /\ LET i == fileCall[c].item
         saved == IF \E h \in fileHistory : h.item = i /\ h.version = fileCall[c].row.version
                  THEN fileHistory
                  ELSE fileHistory \cup {[item |-> i, version |-> fileCall[c].row.version,
                                         payload |-> SavedPayload(c)]}
     IN  fileHistory' =
           {h \in saved : h.item = i =>
              Cardinality({k \in saved : k.item = i /\ k.version > h.version}) < FileHistoryKeep}
  /\ GotoFile(c, CASE fileCall[c].op = "delete" -> "mark"
                   [] fileCall[c].op = "restore" -> "clear"
                   [] OTHER -> "write")
  /\ UNCHANGED <<fileMenu, fileRows, attachments, fileAnswers, purged, deletesLost, seals, fileNow,
                 fileCalls, fileDrops>>

\* delete_item marks the files of the item before it writes the item.
MarkFiles(c) ==
  /\ AtFile(c, "mark")
  /\ attachments' = MarkDeletedByItem(fileCall[c].item, fileCall[c].now)
  /\ GotoFile(c, "purge")
  /\ UNCHANGED <<fileMenu, fileRows, fileHistory, fileAnswers, purged, deletesLost, seals, fileNow,
                 fileCalls, fileDrops>>

PurgeFiles(c) ==
  /\ AtFile(c, "purge")
  /\ LET gone == Purgeable(fileCall[c].now)
     IN  /\ attachments' = [f \in FileId |-> IF f \in gone THEN NoFile ELSE attachments[f]]
         /\ purged' = purged \cup gone
  /\ GotoFile(c, "write")
  /\ UNCHANGED <<fileMenu, fileRows, fileHistory, fileAnswers, deletesLost, seals, fileNow, fileCalls,
                 fileDrops>>

\* restore_item_version gives the item its files back before it writes it.
ClearFiles(c) ==
  /\ AtFile(c, "clear")
  /\ attachments' = ClearDeletedByItem(fileCall[c].item)
  /\ GotoFile(c, "write")
  /\ UNCHANGED <<fileMenu, fileRows, fileHistory, fileAnswers, purged, deletesLost, seals, fileNow,
                 fileCalls, fileDrops>>

WrittenFileRow(c) ==
  [fileCall[c].row EXCEPT !.payload = fileCall[c].payload, !.version = @ + 1,
     !.row_version = @ + 1,
     !.active = (@ \/ fileCall[c].op = "restore") /\ fileCall[c].op # "delete"]

\* ItemRepo::update: WHERE id AND row_version.
FileRowUnchanged(c) == fileRows[fileCall[c].item].row_version = fileCall[c].row.row_version

WriteFileRow(c, op) ==
  /\ AtFile(c, "write") /\ fileCall[c].op = op
  /\ fileRows' = IF FileRowUnchanged(c)
                 THEN [fileRows EXCEPT ![fileCall[c].item] = WrittenFileRow(c)]
                 ELSE fileRows
  /\ EndFile(c)
  /\ UNCHANGED <<fileMenu, fileHistory, attachments, uploads, downloaded, purged, seals, fileNow, fileCalls,
                 fileDrops>>

\* An upload whose update is refused is answered all the same.
WriteUploadState(c) ==
  /\ WriteFileRow(c, "upload")
  /\ uploaded' = uploaded \cup {<<fileCall[c].item, fileCall[c].file>>}
  /\ UNCHANGED deletesLost

\* update_item and restore_item_version answer row_version_conflict.
WriteFileEdit(c) == WriteFileRow(c, "edit") /\ UNCHANGED <<uploaded, deletesLost>>
WriteFileRestore(c) == WriteFileRow(c, "restore") /\ UNCHANGED <<uploaded, deletesLost>>

\* So does delete_item, whose marks stay.
WriteFileDelete(c) ==
  /\ WriteFileRow(c, "delete")
  /\ deletesLost' = IF FileRowUnchanged(c) THEN deletesLost ELSE deletesLost + 1
  /\ UNCHANGED uploaded

\* The file the payload names if the item has it, or else its newest one.
FileToShow(c, files) ==
  LET named == fileCall[c].row.payload.file
  IN  IF named \in files THEN named
      ELSE CHOOSE f \in files :
             \A g \in files : attachments[g].created_at <= attachments[f].created_at

\* An opaque download gets the bytes as they are stored, a plain one the
\* decrypted bytes of a plain upload.
DownloadFile(c) ==
  /\ AtFile(c, "list")
  /\ LET files == ListByItem(fileCall[c].item)
         shown == attachments[FileToShow(c, files)]
     IN  downloaded' = downloaded \cup
           IF files # {} /\ (fileCall[c].mode = "opaque" \/ shown.mode = "plain")
           THEN {[item |-> fileCall[c].item, content |-> shown.content, mode |-> shown.mode]}
           ELSE {}
  /\ EndFile(c)
  /\ UNCHANGED <<fileMenu, fileRows, fileHistory, attachments, uploads, uploaded, purged, deletesLost, seals,
                 fileNow, fileCalls, fileDrops>>

\* The server stops, or the client is gone and the handler is dropped.
DropFileCall(c) ==
  /\ ~AtFile(c, "idle") /\ fileDrops < MaxFileDrops
  /\ fileDrops' = fileDrops + 1
  /\ deletesLost' = IF fileCall[c].op = "delete" THEN deletesLost + 1 ELSE deletesLost
  /\ EndFile(c)
  /\ UNCHANGED <<fileMenu, fileRows, fileHistory, attachments, fileAnswers, purged, seals, fileNow,
                 fileCalls>>

-----------------------------------------------------------------------------
FileBegin(c) ==
  \/ \E i \in fileMenu.items, f \in FileId :
       \/ \E mode \in fileMenu.modes : BeginUpload(c, i, f, mode)
       \/ \E keeps \in BOOLEAN : BeginFileEdit(c, i, f, keeps)
  \/ \E i \in fileMenu.items :
       BeginFileDelete(c, i) \/ \E mode \in fileMenu.modes : BeginDownload(c, i, mode)
  \/ \E i \in fileMenu.items : \E version \in ListItemVersions(i) : BeginFileRestore(c, i, version)

FileStep(c) ==
  \/ UploadReadsItem(c) \/ UploadLooksUpFile(c) \/ InsertAttachment(c) \/ ReadUploadState(c)
  \/ \E now \in {fileNow, fileNow + GraceDays + 1} :
       (now = fileNow \/ fileCall[c].op = "delete") /\ ReadFileRow(c, now)
  \/ ReadVersion(c)
  \/ SaveFileVersion(c) \/ MarkFiles(c) \/ PurgeFiles(c) \/ ClearFiles(c)
  \/ WriteUploadState(c) \/ WriteFileEdit(c) \/ WriteFileRestore(c) \/ WriteFileDelete(c)
  \/ DownloadFile(c)

ItemFilesNext == \E c \in FileCaller : FileBegin(c) \/ FileStep(c) \/ DropFileCall(c)

ItemFilesSpec == ItemFilesInit /\ [][ItemFilesNext]_fileVars

-----------------------------------------------------------------------------
(* Properties.                                                             *)

\* An item that is there and says its file is ready has the file, whatever
\* uploads, edits, deletions and restores have been interleaved or dropped,
\* unless the file was purged after its grace period or a deletion marked it
\* and then lost the item to another handler.
ReadyFileHeld ==
  deletesLost = 0 =>
    \A i \in FileItem :
      fileRows[i].active /\ fileRows[i].payload.state = "ready"
        /\ (\A c \in FileCaller : fileCall[c].op # "delete") =>
      fileRows[i].payload.file \in ListByItem(i) \cup purged

\* An upload that was answered has stored a file of its item under the id,
\* also when uploads to two items raced for the id.
AnsweredUploadHeld ==
  \A u \in uploaded :
    u[2] \in purged \/ (FileKnown(u[2]) /\ attachments[u[2]].item = u[1])

\* A download answers with the bytes of an upload to the same item, in the
\* representation they were sent in.
DownloadIsOfItem == downloaded \subseteq uploads

\* The files of an item are there, are its own and are what was sent:
\* upload_item_file, download_item_file, and the marks of delete_item and
\* restore_item_version against each other.
FilesHeld == ReadyFileHeld /\ AnsweredUploadHeld /\ DownloadIsOfItem

\* The payload that a write replaces is in the history, also when the upload
\* that makes the item ready overtakes an edit.
FileReplacementKept ==
  \A i \in FileItem :
    fileRows'[i].payload # fileRows[i].payload =>
      [item |-> i, version |-> fileRows[i].version, payload |-> fileRows[i].payload]
        \in fileHistory'
================================================================================
