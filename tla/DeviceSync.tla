----------------------------- MODULE DeviceSync -----------------------------
(***************************************************************************)
(* Devices that edit a vault offline and synchronise it with the server:   *)
(* the local store and its queue of pending changes (LocalServices), the   *)
(* desktop's remote_sync loop, and the server's push and pull as seen from *)
(* the outside.                                                            *)
(*                                                                         *)
(* A push is handled in one step here: SyncPush models its statements and  *)
(* shows that it is all or nothing.  Every edit stores a payload of its    *)
(* own, the number of the edit, so that a payload tells which edit it is.  *)
(***************************************************************************)
EXTENDS ItemRows, Sequences, SequencesExt

CONSTANTS
  Device,        \* devices of the account
  UserOp,        \* what the user of each device does there
  UserPath,      \* paths users choose
  ConflictPath,  \* the path a conflict copy of each item gets
  EditDuringSync,  \* whether users also edit while a sync is going on
  PageLimit,     \* the pull limit (100 in the code)
  MaxEdits,      \* bound on user operations
  MaxFaults,     \* bound on crashes, lost requests and lost responses
  CrashInEdit    \* whether the app may also die in the middle of an edit

ASSUME DeviceAssumption ==
  /\ UserOp \in [Device -> SUBSET {"put", "update", "delete", "restore", "purge", "resolve"}]
  /\ UserPath \subseteq Path
  /\ ConflictPath \in [Item -> Path]
  /\ \A i \in Item : ConflictPath[i] \notin UserPath
  /\ EditDuringSync \in BOOLEAN /\ CrashInEdit \in BOOLEAN
  /\ PageLimit \in Nat \ {0}
  /\ MaxEdits \in Nat /\ MaxFaults \in Nat
  /\ Payload = 1 .. MaxEdits

VARIABLES
  db,       \* the server's tables
  nextSeq,  \* the next sequence number of the change feed
  local,    \* per device, its items
  pending,  \* per device, the change queued for each item
  cursor,   \* per device, the stored sync cursor
  sync,     \* per device, the sync in progress
  wire,     \* requests the server may still receive although nobody waits
  edits,    \* how many user operations there were
  faults,   \* how many faults there were
  newest    \* per device, the last payload saved there and not deleted since

serverVars == <<db, nextSeq>>
deviceVars == <<local, pending, cursor, sync>>
vars == <<serverVars, deviceVars, wire, edits, faults, newest>>

-----------------------------------------------------------------------------
(* State *)

\* LocalItem: deleted stands for deleted_at.
LocalItem == [path : Path, payload : Payload, version : Nat, deleted : BOOLEAN,
              status : {"synced", "modified", "conflict", "tombstone", "local_deleted"}]

\* LocalPendingChange: base 0 stands for no base_seq.
PendingChange == [id : Nat, item : Item, op : Op, path : Path,
                  payload : Payload \cup {None}, base : Nat]

\* The two sides of a sync conversation.
NoAnswer == [applied |-> {}, conflicts |-> {}, new_cursor |-> 0]

Answer == [applied : SUBSET [item : Item, seq : Nat, deleted : BOOLEAN],
           conflicts : SUBSET Item, new_cursor : Nat]

PulledChange == [item : Item, op : FeedOp, seq : Nat, path : Path, payload : Payload]

NoSync == [pc |-> "idle", sent |-> <<>>, answer |-> NoAnswer, todo |-> {},
           page |-> <<>>, more |-> FALSE, cursor |-> 0]

SyncState == [pc : {"idle", "push", "answer", "pull", "page"},
              sent : Seq(PendingChange), answer : Answer, todo : SUBSET Item,
              page : Seq(PulledChange), more : BOOLEAN, cursor : Nat]

TypeOK ==
  /\ db \in Tables
  /\ nextSeq \in Nat
  /\ local \in [Device -> [Item -> LocalItem \cup {NoRow}]]
  /\ pending \in [Device -> [Item -> PendingChange \cup {None}]]
  /\ cursor \in [Device -> Nat]
  /\ sync \in [Device -> SyncState]
  /\ \A r \in wire : r \in Seq(PendingChange)
  /\ edits \in 0 .. MaxEdits
  /\ faults \in 0 .. MaxFaults
  /\ newest \in [Device -> [Item -> Payload \cup {None}]]

Init ==
  /\ db = EmptyTables
  /\ nextSeq = 1
  /\ local = [d \in Device |-> [i \in Item |-> NoRow]]
  /\ pending = [d \in Device |-> [i \in Item |-> None]]
  /\ cursor = [d \in Device |-> 0]
  /\ sync = [d \in Device |-> NoSync]
  /\ wire = {}
  /\ edits = 0
  /\ faults = 0
  /\ newest = [d \in Device |-> [i \in Item |-> None]]

-----------------------------------------------------------------------------
(* The user: LocalServices and items_resolve_conflict *)

\* idx_items_cache_storage_vault_path: no other active item has the path.
PathFree(d, i, path) ==
  \A j \in Item \ {i} :
    IsRow(local[d][j]) => local[d][j].deleted \/ local[d][j].path # path

Edit(d, op) == /\ op \in UserOp[d]
               /\ EditDuringSync \/ sync[d].pc = "idle"
               /\ edits < MaxEdits
               /\ edits' = edits + 1

PendingOf(i, op, row, base) ==
  [id |-> edits + 1, item |-> i, op |-> op, path |-> row.path,
   payload |-> IF op = "delete" THEN None ELSE row.payload, base |-> base]

IsNew(c) == c # None /\ c.op = "create"

\* Faulty: the change queued first stays as it is.
TrackedFirst(first, c) == IF first = None THEN c ELSE first

\* track_pending: the queued change of the item is replaced; a create stays
\* a create, and otherwise the base of the first change is kept.
Tracked(first, c) ==
  IF first = None THEN c
  ELSE IF IsNew(first) THEN [c EXCEPT !.op = "create", !.base = 0]
  ELSE IF first.base > 0 THEN [c EXCEPT !.base = first.base]
  ELSE c

SetLocal(d, i, row) == local' = [local EXCEPT ![d][i] = row]
SetPending(d, i, c) == pending' = [pending EXCEPT ![d][i] = c]

\* The app dies: whatever sync is going on ends, its request may still arrive.
Crash(d) ==
  /\ faults < MaxFaults
  /\ faults' = faults + 1
  /\ sync' = [sync EXCEPT ![d] = NoSync]
  /\ \/ wire' = wire
     \/ sync[d].pc = "push" /\ wire' = wire \cup {sync[d].sent}

\* The item and its queue entry are written one after the other, without a
\* transaction: torn are the pairs in between, where the app may die.
Save(d, i, row, c, torn) ==
  \/ /\ SetLocal(d, i, row)
     /\ SetPending(d, i, c)
     /\ UNCHANGED <<sync, wire, faults>>
  \/ /\ CrashInEdit
     /\ \E t \in torn : SetLocal(d, i, t.row) /\ SetPending(d, i, t.pending)
     /\ Crash(d)

Torn(row, c) == [row |-> row, pending |-> c]

\* The item first; track_pending then removes the queued change before it
\* adds the merged one.
SaveTracked(d, i, row, c) ==
  Save(d, i, row, Tracked(pending[d][i], c), {Torn(row, pending[d][i]), Torn(row, None)})

\* Ids are UUIDs: never one that anybody has used.
Unused(i) == /\ ~IsRow(db.items[i])
             /\ \A d \in Device : ~IsRow(local[d][i]) /\ pending[d][i] = None
             /\ \A d \in Device : \A n \in DOMAIN sync[d].sent : sync[d].sent[n].item # i
             /\ \A r \in wire : \A n \in DOMAIN r : r[n].item # i

PutItem(d, i, path) ==
  LET row == [path |-> path, payload |-> edits + 1, version |-> 1,
              deleted |-> FALSE, status |-> "modified"]
  IN
  /\ Edit(d, "put")
  /\ Unused(i) /\ PathFree(d, i, path)
  /\ Save(d, i, row, PendingOf(i, "create", row, 0), {Torn(row, None)})
  /\ newest' = [newest EXCEPT ![d][i] = edits + 1]
  /\ UNCHANGED <<serverVars, cursor>>

UpdateItem(d, i, path) ==
  LET row == [local[d][i] EXCEPT !.path = path, !.payload = edits + 1,
                                 !.version = @ + 1, !.status = "modified"]
  IN
  /\ Edit(d, "update")
  /\ IsRow(local[d][i]) /\ ~local[d][i].deleted
  /\ path \in UserPath \cup {local[d][i].path}
  /\ path # local[d][i].path => PathFree(d, i, path)
  /\ SaveTracked(d, i, row, PendingOf(i, "update", row, local[d][i].version))
  /\ newest' = [newest EXCEPT ![d][i] = edits + 1]
  /\ UNCHANGED <<serverVars, cursor>>

\* An item the server has not been told of is only unqueued and marked.
DeleteItem(d, i) ==
  LET old == local[d][i]
      new == IsNew(pending[d][i])
      row == [old EXCEPT !.version = @ + 1, !.deleted = TRUE,
                         !.status = IF new THEN "local_deleted" ELSE "tombstone"]
  IN
  /\ Edit(d, "delete")
  /\ IsRow(old)
  /\ IF new THEN Save(d, i, row, None, {Torn(old, None)})
            ELSE SaveTracked(d, i, row, PendingOf(i, "delete", row, old.version))
  /\ newest' = [newest EXCEPT ![d][i] = None]
  /\ UNCHANGED <<serverVars, cursor>>

\* restore_item: a queued delete is dropped and a restore is queued instead,
\* based on the version that the delete has already counted up.
RestoreItem(d, i, path) ==
  LET old == local[d][i]
      new == IsNew(pending[d][i]) \/ old.status = "local_deleted"
      row == [old EXCEPT !.path = path, !.deleted = FALSE, !.status = "modified",
                         !.version = @ + 1]
      c   == IF new THEN PendingOf(i, "create", row, 0)
             ELSE PendingOf(i, "restore", row, old.version)
  IN
  /\ Edit(d, "restore")
  /\ IsRow(old) /\ old.deleted
  /\ PathFree(d, i, path)
  /\ PathFree(d, i, old.path) => path = old.path
  /\ Save(d, i, row, c, {Torn(old, None), Torn(row, None)})
  /\ UNCHANGED <<serverVars, cursor, newest>>

\* The queue entry goes first, then the item.
PurgeItem(d, i) ==
  /\ Edit(d, "purge")
  /\ IsRow(local[d][i]) /\ local[d][i].deleted
  /\ Save(d, i, NoRow, None, {Torn(local[d][i], None)})
  /\ newest' = [newest EXCEPT ![d][i] = None]
  /\ UNCHANGED <<serverVars, cursor>>

\* items_resolve_conflict queues the item as a new one, under its own id.
ResolveConflict(d, i) ==
  LET old == local[d][i]
      row == [old EXCEPT !.status = "modified"]
  IN
  /\ Edit(d, "resolve")
  /\ IsRow(old) /\ old.status = "conflict" /\ ~old.deleted
  /\ Save(d, i, row, PendingOf(i, "create", row, 0), {Torn(old, None), Torn(row, None)})
  /\ UNCHANGED <<serverVars, cursor, newest>>

-----------------------------------------------------------------------------
(* The server: a push in one step, and a page of the feed *)

\* apply_change on what the push has done so far.  A change that conflicts
\* is noted; an error (a restore onto a taken path) fails the request.
ApplyChange(acc, c) ==
  LET i        == c.item
      done     == acc.writes
      existing == RowIn(db, done, i)
      ch       == [item |-> i, op |-> c.op, path |-> c.path, payload |-> c.payload,
                   checksum |-> c.payload]
      conflict == \/ StaleBase(c.base, MaxSeqOf(ChangesIn(db, done), i))
                  \/ (c.op = "create") = IsRow(existing)
                  \/ c.op \in {"create", "update"} /\ PathConflict(db, done, c.path, i)
      row      == NewRow(ch, existing, existing)
      taken    == row.status = "active" /\ PathConflict(db, done, row.path, i)
      saved    == IF KeepsHistory(ch, existing) THEN SaveHistory(db, done, i, existing) ELSE done
  IN
  IF acc.failed THEN acc
  ELSE IF conflict THEN [acc EXCEPT !.conflicts = @ \cup {i}]
  ELSE IF taken THEN [acc EXCEPT !.failed = TRUE]
  ELSE [acc EXCEPT !.seq = @ + 1,
          !.applied = @ \cup {[item |-> i, seq |-> acc.seq,
                               deleted |-> row.status = "tombstone"]},
          !.writes = [saved EXCEPT !.rows[i] = row,
                   !.changes = @ \cup {[seq |-> acc.seq, item |-> i,
                                        op |-> FeedOpOf(c.op), version |-> row.version]}]]

Pushed(batch) ==
  FoldLeft(ApplyChange, [writes |-> NothingPending, seq |-> nextSeq, conflicts |-> {},
                         applied |-> {}, failed |-> FALSE], batch)

Committed(result) == ~result.failed /\ result.conflicts = {}

\* sync_push: the batch is committed whole or rolled back.
HandlePush(batch) ==
  /\ nextSeq' = Pushed(batch).seq
  /\ db' = IF Committed(Pushed(batch)) THEN Merged(db, Pushed(batch).writes) ELSE db

\* sync_pull: the next changes, each with its item's row as it is now.
FeedAfter(seq) ==
  SetToSortSeq({c \in db.changes : c.seq > seq}, LAMBDA c, e : c.seq < e.seq)

PulledOf(c) == [item |-> c.item, op |-> c.op, seq |-> c.seq,
                path |-> db.items[c.item].path, payload |-> db.items[c.item].payload]

-----------------------------------------------------------------------------
(* remote_sync, for one vault *)

StartSync(d) ==
  LET queued == {pending[d][i] : i \in Item} \ {None}
  IN
  /\ sync[d].pc = "idle"
  /\ sync' = [sync EXCEPT ![d] =
       [NoSync EXCEPT !.pc = IF queued = {} THEN "pull" ELSE "push",
                      !.sent = SetToSortSeq(queued, LAMBDA c, e : c.id < e.id),
                      !.cursor = cursor[d]]]
  /\ UNCHANGED <<serverVars, local, pending, cursor, wire, edits, faults, newest>>

\* The server handles the push and the device gets its answer, or an error
\* status, with which remote_sync gives up.  The answer's cursor is 0 when
\* the server fails to read it.
PushRequest(d) ==
  LET result == Pushed(sync[d].sent)
      applied == IF Committed(result) THEN result.applied ELSE {}
  IN
  /\ sync[d].pc = "push"
  /\ HandlePush(sync[d].sent)
  /\ \E unread \in {0, 1} :
       /\ faults + unread <= MaxFaults
       /\ faults' = faults + unread
       /\ sync' = [sync EXCEPT ![d] =
            IF result.failed THEN NoSync
            ELSE [@ EXCEPT !.pc = "answer",
                           !.answer = [applied |-> applied, conflicts |-> result.conflicts,
                                       new_cursor |-> IF unread = 1 THEN 0
                                                      ELSE LastSeq(db'.changes)],
                           !.todo = {a.item : a \in applied} \cup result.conflicts]]
  /\ UNCHANGED <<local, pending, cursor, wire, edits, newest>>

\* A request nobody waits for any more reaches the server.
LateRequest(r) ==
  /\ HandlePush(r)
  /\ wire' = wire \ {r}
  /\ UNCHANGED <<deviceVars, edits, faults, newest>>

\* apply_push_applied, for one item: the row is confirmed as it is now.
Confirmed(row, a) ==
  [row EXCEPT !.version = a.seq, !.deleted = a.deleted,
              !.status = IF a.deleted THEN "tombstone" ELSE "synced"]

\* Faulty: the copy is not marked as a conflict.
ConflictCopySilent(row, c) ==
  IF c.payload = None THEN row
  ELSE [row EXCEPT !.path = ConflictPath[c.item], !.payload = c.payload]

\* handle_sync_conflict: the change sent becomes a conflict copy under the
\* item's own id.  A delete has no payload and leaves the item as it is.
ConflictCopy(row, c) ==
  IF c.payload = None THEN row
  ELSE [row EXCEPT !.path = ConflictPath[c.item], !.payload = c.payload,
                   !.status = "conflict"]

\* The conflict copy of an item that was purged meanwhile: a new item.
CopyAnew(c) ==
  [path |-> ConflictPath[c.item], payload |-> c.payload, version |-> c.base + 1,
   deleted |-> FALSE, status |-> "conflict"]

\* The unique index of the local table lets the row in.
Accepted(d, i, row) == row.deleted \/ PathFree(d, i, row.path)

\* The answer is worked off item by item.  Applied: an item purged meanwhile
\* is skipped, and a write the index refuses ends apply_push_applied early.
ApplyApplied(d, i) ==
  LET ack == CHOOSE e \in sync[d].answer.applied : e.item = i
      row == Confirmed(local[d][i], ack)
  IN
  /\ sync[d].pc = "answer"
  /\ i \in sync[d].todo \ sync[d].answer.conflicts
  /\ IF ~IsRow(local[d][i])
     THEN sync' = [sync EXCEPT ![d].todo = @ \ {i}] /\ UNCHANGED local
     ELSE IF Accepted(d, i, row)
          THEN sync' = [sync EXCEPT ![d].todo = @ \ {i}] /\ SetLocal(d, i, row)
          ELSE sync' = [sync EXCEPT ![d].todo = {}] /\ UNCHANGED local
  /\ UNCHANGED <<serverVars, pending, cursor, wire, edits, faults, newest>>

\* In conflict.  The model runs out of ids where the code does not.
ApplyConflict(d, i) ==
  LET sent == CHOOSE c \in Range(sync[d].sent) : c.item = i
  IN
  /\ sync[d].pc = "answer"
  /\ i \in sync[d].todo \cap sync[d].answer.conflicts
  /\ sync' = [sync EXCEPT ![d].todo = @ \ {i}]
  /\ \/ IsRow(local[d][i]) /\ SetLocal(d, i, ConflictCopy(local[d][i], sent))
     \/ /\ ~IsRow(local[d][i]) /\ sent.payload # None
        /\ \E j \in Item : Unused(j) /\ SetLocal(d, j, CopyAnew(sent))
     \/ /\ ~IsRow(local[d][i])
        /\ sent.payload = None \/ \A j \in Item : ~Unused(j)
        /\ UNCHANGED local
  /\ UNCHANGED <<serverVars, pending, cursor, wire, edits, faults, newest>>

Unqueue(d, ids) ==
  pending' = [pending EXCEPT ![d] = [i \in Item |->
                IF @[i] # None /\ @[i].id \in ids THEN None ELSE @[i]]]

SentIds(d, items) == {c.id : c \in {e \in Range(sync[d].sent) : e.item \in items}}

AppliedItems(d) == {a.item : a \in sync[d].answer.applied}

\* Faulty: the entries in conflict stay queued.
DropPendingApplied(d) ==
  /\ sync[d].pc = "answer" /\ sync[d].todo = {}
  /\ Unqueue(d, SentIds(d, AppliedItems(d)))
  /\ sync' = [sync EXCEPT ![d].pc = "pull", ![d].cursor = sync[d].answer.new_cursor]
  /\ UNCHANGED <<serverVars, local, cursor, wire, edits, faults, newest>>

\* delete_by_ids: the entries that were sent, unless replaced meanwhile; the
\* pull then starts at the cursor of the push answer.
DropPending(d) ==
  /\ sync[d].pc = "answer"
  /\ sync[d].todo = {}
  /\ Unqueue(d, SentIds(d, AppliedItems(d) \cup sync[d].answer.conflicts))
  /\ sync' = [sync EXCEPT ![d].pc = "pull", ![d].cursor = sync[d].answer.new_cursor]
  /\ UNCHANGED <<serverVars, local, cursor, wire, edits, faults, newest>>

FirstPage(feed) == SubSeq(feed, 1, IF Len(feed) < PageLimit THEN Len(feed) ELSE PageLimit)

\* next_cursor: the last change of the page, or the cursor given.
NextCursor(since, feed) == IF feed = <<>> THEN since ELSE Last(FirstPage(feed)).seq

\* Faulty: the cursor is stored before the page is applied.
PullRequestStoring(d) ==
  LET feed == FeedAfter(sync[d].cursor)
      page == FirstPage(feed)
  IN
  /\ sync[d].pc = "pull"
  /\ sync' = [sync EXCEPT ![d].pc = "page",
       ![d].page = [n \in DOMAIN page |-> PulledOf(page[n])],
       ![d].more = Len(feed) > PageLimit,
       ![d].cursor = NextCursor(@, feed)]
  /\ cursor' = [cursor EXCEPT ![d] = NextCursor(sync[d].cursor, feed)]
  /\ UNCHANGED <<serverVars, local, pending, wire, edits, faults, newest>>

PullRequest(d) ==
  LET feed == FeedAfter(sync[d].cursor)
      page == FirstPage(feed)
  IN
  /\ sync[d].pc = "pull"
  /\ sync' = [sync EXCEPT ![d].pc = "page",
       ![d].page = [n \in DOMAIN page |-> PulledOf(page[n])],
       ![d].more = Len(feed) > PageLimit,
       ![d].cursor = NextCursor(@, feed)]
  /\ UNCHANGED <<serverVars, local, pending, cursor, wire, edits, faults, newest>>

\* Faulty: a change older than the row is applied too.
PulledAnyway(row, c) ==
  IF c.op = "delete"
  THEN IF IsRow(row)
       THEN [row EXCEPT !.deleted = TRUE, !.status = "tombstone", !.version = c.seq]
       ELSE row
  ELSE [path |-> c.path, payload |-> c.payload, version |-> c.seq, deleted |-> FALSE,
        status |-> "synced"]

\* apply_pull_change on the row the device has.
Pulled(row, c) ==
  IF IsRow(row) /\ row.version > c.seq THEN row
  ELSE IF c.op = "delete"
       THEN IF IsRow(row)
            THEN [row EXCEPT !.deleted = TRUE, !.status = "tombstone", !.version = c.seq]
            ELSE row
  ELSE [path |-> c.path, payload |-> c.payload, version |-> c.seq, deleted |-> FALSE,
        status |-> "synced"]

\* A write that the index refuses is skipped like a change that is.
ApplyPulled(d) ==
  LET c == Head(sync[d].page)
  IN
  /\ sync[d].pc = "page"
  /\ sync[d].page # <<>>
  /\ LET row == Pulled(local[d][c.item], c)
     IN  IF IsRow(row) /\ Accepted(d, c.item, row) THEN SetLocal(d, c.item, row)
         ELSE UNCHANGED local
  /\ sync' = [sync EXCEPT ![d].page = Tail(@)]
  /\ UNCHANGED <<serverVars, pending, cursor, wire, edits, faults, newest>>

\* The next page, or the cursor is stored and the sync is over.
EndPage(d) ==
  /\ sync[d].pc = "page"
  /\ sync[d].page = <<>>
  /\ IF sync[d].more
     THEN sync' = [sync EXCEPT ![d].pc = "pull"] /\ UNCHANGED cursor
     ELSE /\ cursor' = [cursor EXCEPT ![d] = sync[d].cursor]
          /\ sync' = [sync EXCEPT ![d] = NoSync]
  /\ UNCHANGED <<serverVars, local, pending, wire, edits, faults, newest>>

\* A request or an answer is lost, or the app dies in the middle of a sync.
Fail(d) ==
  /\ sync[d].pc # "idle"
  /\ Crash(d)
  /\ UNCHANGED <<serverVars, local, pending, cursor, edits, newest>>

-----------------------------------------------------------------------------
SyncStep(d) ==
  \/ PushRequest(d) \/ DropPending(d) \/ PullRequest(d) \/ ApplyPulled(d) \/ EndPage(d)
  \/ \E i \in Item : ApplyApplied(d, i) \/ ApplyConflict(d, i)

UserStep(d) ==
  \E i \in Item :
    \/ \E path \in UserPath : PutItem(d, i, path)
    \/ \E path \in Path : UpdateItem(d, i, path) \/ RestoreItem(d, i, path)
    \/ DeleteItem(d, i) \/ PurgeItem(d, i) \/ ResolveConflict(d, i)

Next ==
  \/ \E d \in Device : UserStep(d) \/ StartSync(d) \/ SyncStep(d) \/ Fail(d)
  \/ \E r \in wire : LateRequest(r)

Spec == Init /\ [][Next]_vars

\* The desktop syncs again and again, and a sync that has begun goes on.
FairSpec == Spec /\ \A d \in Device : WF_vars(StartSync(d)) /\ WF_vars(SyncStep(d))

-----------------------------------------------------------------------------
(* Properties *)

\* Payloads of an item that the server holds or has kept in its history.
Stored(i) == {db.items[j].payload : j \in {k \in {i} : IsRow(db.items[k])}}
             \cup {h.payload : h \in db.history[i]}

\* An item is shown as synced only when the server has confirmed what the
\* device shows (apply_push_applied, apply_pull_change).
SyncedIsConfirmed ==
  \A d \in Device : \A i \in Item :
    IsRow(local[d][i]) /\ local[d][i].status = "synced" => local[d][i].payload \in Stored(i)

\* What a device shows and the server does not have is queued or shown as a
\* conflict: no edit is silently left behind, however the syncs went.
UnstoredIsTracked ==
  \A d \in Device : \A i \in Item :
    (IsRow(local[d][i]) /\ ~local[d][i].deleted /\ local[d][i].payload \notin Stored(i))
      => pending[d][i] # None \/ local[d][i].status = "conflict"

\* The last edit a user made survives somewhere: on the device, in its queue,
\* or on the server and in its history.
NoEditLost ==
  \A d \in Device : \A i \in Item :
    newest[d][i] # None =>
      \/ newest[d][i] \in Stored(i)
      \/ IsRow(local[d][i]) /\ local[d][i].payload = newest[d][i]
      \/ pending[d][i] # None /\ pending[d][i].payload = newest[d][i]

\* Between syncs, an item without queued change that the cursor says is
\* current, is the server's: same payload, and deleted when it is deleted.
CurrentAtCursor ==
  \A d \in Device : \A i \in Item :
    (/\ sync[d].pc = "idle" /\ pending[d][i] = None
     /\ IsRow(db.items[i]) /\ MaxSeqOf(db.changes, i) <= cursor[d]
     /\ IsRow(local[d][i]) => local[d][i].status \notin {"conflict", "local_deleted"})
    => IF db.items[i].status = "tombstone" THEN IsRow(local[d][i]) => local[d][i].deleted
       ELSE /\ IsRow(local[d][i])
            /\ local[d][i].payload = db.items[i].payload
            /\ ~local[d][i].deleted

\* A queued change does not stay queued for ever: it is applied or turned
\* into a conflict copy, whatever was lost on the way.
QueueDrains == <>[](\A d \in Device : \A i \in Item : pending[d][i] = None)
=============================================================================
