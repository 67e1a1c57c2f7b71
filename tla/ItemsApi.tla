------------------------------ MODULE ItemsApi ------------------------------
(***************************************************************************)
(* The items HTTP API: create_item, update_item, delete_item and           *)
(* restore_item_version.  Unlike a sync push a call is not a transaction:  *)
(* each of its statements commits by itself, the UPDATE is guarded by the  *)
(* row_version that was read, and an INSERT into item_history or changes   *)
(* that fails is only logged.                                              *)
(*                                                                         *)
(* Tags, favorite, name and type are left out: they are columns like path. *)
(* Attachments of the item are not modelled.                               *)
(***************************************************************************)
EXTENDS ItemTables

CONSTANTS
  Client,     \* concurrent callers
  Requests,   \* the requests they make
  MaxCalls,   \* bound on the number of calls
  MaxFaults   \* bound on failing statements and dying calls

\* base: base_version, version: the version the caller chooses, target: the
\* version to restore; 0 stands for an absent one.
Request == [op : Op, item : Item, path : Path \cup {None},
            payload : Payload \cup {None}, base : Nat, version : Nat, target : Nat]

ASSUME ApiAssumption ==
  /\ Requests \subseteq Request /\ None \notin Requests
  /\ \A r \in Requests : r.op = "create" => r.path # None /\ r.payload # None
  /\ MaxCalls \in Nat /\ MaxFaults \in Nat

VARIABLES
  call,    \* per client, the call in progress
  done,    \* the writes that were acknowledged
  calls,   \* how many calls have begun
  failed   \* how many faults there were

apiVars == <<call, done, calls, failed>>
vars == <<tableVars, apiVars>>

NoCall == [pc |-> "idle", req |-> None, row |-> NoRow, old |-> None]

\* A call: the request, the row it read (or inserted) and the payload of the
\* version to restore.
Call == [pc : {"idle", "read", "find", "save", "write", "announce"},
         req : Requests \cup {None}, row : Row \cup {NoRow}, old : Payload \cup {None}]

Done == [item : Item, replaced : Nat, version : Nat, payload : Payload]

TypeOK ==
  /\ TablesTypeOK
  /\ call \in [Client -> Call]
  /\ done \subseteq Done
  /\ calls \in 0 .. MaxCalls
  /\ failed \in 0 .. MaxFaults

Init ==
  /\ TablesInit
  /\ call = [c \in Client |-> NoCall]
  /\ done = {}
  /\ calls = 0
  /\ failed = 0

-----------------------------------------------------------------------------
Req(c) == call[c].req
Goto(c, pc) == call' = [call EXCEPT ![c].pc = pc]

\* The call returns: an error, or nobody waits for it any more.
End(c) == call' = [call EXCEPT ![c] = NoCall]

\* Uuid::now_v7: nobody has this id.
Unused(i) == /\ ~IsRow(db.items[i])
             /\ \A c \in Client : Req(c) # None => Req(c).item # i

\* Authorisation and validation have let the request through.
Begin(c, r) ==
  /\ call[c].pc = "idle"
  /\ calls < MaxCalls
  /\ calls' = calls + 1
  /\ r.op = "create" => Unused(r.item)
  /\ call' = [call EXCEPT ![c] =
       [NoCall EXCEPT !.req = r, !.pc = IF r.op = "create" THEN "write" ELSE "read"]]
  /\ UNCHANGED <<tableVars, done, failed>>

\* update_item: some column differs, or a payload came.
Changes(r, row) == r.payload # None \/ r.path \notin {None, row.path}

\* Faulty: the checksum is compared after it was replaced.
NewPayloadNever(r, row) == FALSE

\* payload_changed: only a new payload is worth a history entry.
NewPayload(r, row) == r.payload \notin {None, row.checksum}

\* get_by_id, the base_version check and, for an update, the comparison of
\* the request with the row.
Read(c) ==
  LET r   == Req(c)
      row == db.items[r.item]
  IN
  /\ call[c].pc = "read"
  /\ IF \/ ~IsRow(row)
        \/ r.op = "update" /\ r.base \notin {0, row.version}
        \/ r.op = "update" /\ ~Changes(r, row)
     THEN End(c)
     ELSE call' = [call EXCEPT ![c].row = row, ![c].pc =
            CASE r.op = "restore" -> "find"
              [] r.op = "delete" -> "save"
              [] OTHER -> IF NewPayload(r, row) THEN "save" ELSE "write"]
  /\ UNCHANGED <<tableVars, done, calls, failed>>

\* restore_item_version: get_by_item_version.
Find(c) ==
  LET found == {h \in db.history[Req(c).item] : h.version = Req(c).target}
  IN
  /\ call[c].pc = "find"
  /\ \/ found = {} /\ End(c)
     \/ \E h \in found :
          IF h.payload = call[c].row.checksum THEN End(c)
          ELSE call' = [call EXCEPT ![c].old = h.payload, ![c].pc = "save"]
  /\ UNCHANGED <<tableVars, done, calls, failed>>

Saved(c) == IF Req(c).op = "create" THEN "announce" ELSE "write"

\* ItemHistoryRepo::create, whose unique key (item_id, version) makes it fail
\* when the entry exists, and prune_by_item.  It waits for a push that is
\* about to add the same key.
Save(c) ==
  LET i   == Req(c).item
      row == call[c].row
  IN
  /\ call[c].pc = "save"
  /\ \A s \in Session : \A h \in pend[s].added[i] : h.version # row.version
  /\ db' = Merged(db, SaveHistory(db, NothingPending, i, row))
  /\ Goto(c, Saved(c))
  /\ UNCHANGED <<nextSeq, pend, done, calls, failed>>

Chosen(version, default) == IF version = 0 THEN default ELSE version

\* restore_item_version: the payload of the old version, and no tombstone.
RestoredRow(row, old) ==
  [row EXCEPT !.payload = old, !.checksum = old, !.version = @ + 1,
              !.row_version = @ + 1, !.status = "active"]

InsertedRow(r) ==
  [path |-> r.path, payload |-> r.payload, checksum |-> r.payload,
   version |-> Chosen(r.version, 1), row_version |-> 1, status |-> "active"]

\* The deletion marks are not among the columns an edit sets.
EditedRow(r, row) ==
  [row EXCEPT !.path = Given(r.path, @), !.payload = Given(r.payload, @),
              !.checksum = Given(r.payload, @), !.row_version = @ + 1,
              !.version = Chosen(r.version, @ + 1)]

TombstoneRow(row) ==
  [row EXCEPT !.version = @ + 1, !.row_version = @ + 1, !.status = "tombstone"]

\* The row the call stores, computed from the row it has read.
RowOf(c) ==
  LET r   == Req(c)
      row == call[c].row
  IN
  CASE r.op = "create" -> InsertedRow(r)
    [] r.op = "update" -> EditedRow(r, row)
    [] r.op = "delete" -> TombstoneRow(row)
    [] r.op = "restore" -> RestoredRow(row, call[c].old)

\* Faulty: the UPDATE has no condition on row_version.
CurrentRowAlways(c) == TRUE

\* The INSERT finds no row with its id; the UPDATE has WHERE id = $1 AND
\* row_version = $16: nobody has written the row meanwhile.
CurrentRow(c) ==
  IF Req(c).op = "create" THEN ~IsRow(db.items[Req(c).item])
  ELSE db.items[Req(c).item].row_version = call[c].row.row_version

\* INSERT or guarded UPDATE, which waits for the locks of open pushes.  No
\* row updated or the path taken: the call fails.
Write(c) ==
  LET i == Req(c).item
  IN
  /\ call[c].pc = "write"
  /\ \A s \in Session : ~RowHeldBy(c, s, i) /\ ~PathHeldBy(c, s, i, RowOf(c))
  /\ IF ~CurrentRow(c) \/ (RowOf(c).status = "active"
                             /\ PathConflict(db, NothingPending, RowOf(c).path, i))
     THEN End(c) /\ UNCHANGED db
     ELSE /\ db' = [db EXCEPT !.items[i] = RowOf(c)]
          /\ call' = [call EXCEPT ![c].row = RowOf(c),
                                  ![c].pc = IF Req(c).op = "create" THEN "save" ELSE "announce"]
  /\ UNCHANGED <<nextSeq, pend, done, calls, failed>>

\* The call is answered with the row it has stored.
Answer(c) ==
  /\ End(c)
  /\ done' = done \cup {[item |-> Req(c).item, replaced |-> call[c].row.row_version - 1,
                         version |-> call[c].row.version, payload |-> call[c].row.payload]}

\* ChangeRepo::create, after which the call is answered.
Announce(c) ==
  /\ call[c].pc = "announce"
  /\ nextSeq' = nextSeq + 1
  /\ db' = [db EXCEPT !.changes = @ \cup
       {[seq |-> nextSeq, item |-> Req(c).item, op |-> FeedOpOf(Req(c).op),
         version |-> call[c].row.version]}]
  /\ Answer(c)
  /\ UNCHANGED <<pend, calls, failed>>

Fault == failed < MaxFaults /\ failed' = failed + 1

\* The INSERT into item_history or changes fails and the call goes on.
LoggedError(c) ==
  /\ Fault
  /\ \/ call[c].pc = "save" /\ Goto(c, Saved(c)) /\ UNCHANGED done
     \/ call[c].pc = "announce" /\ Answer(c)
  /\ UNCHANGED <<tableVars, calls>>

\* The server dies, or the database fails elsewhere.
Die(c) ==
  /\ Fault
  /\ call[c].pc # "idle"
  /\ End(c)
  /\ UNCHANGED <<tableVars, done, calls>>

-----------------------------------------------------------------------------
CallStep(c) == Read(c) \/ Find(c) \/ Save(c) \/ Write(c) \/ Announce(c)

Next ==
  \E c \in Client :
    \/ \E r \in Requests : Begin(c, r)
    \/ CallStep(c) \/ LoggedError(c) \/ Die(c)

Spec == Init /\ [][Next]_vars

-----------------------------------------------------------------------------
(* Properties *)

\* No two acknowledged calls replaced the same row: of two calls that read
\* an item before either wrote it, one gets row_version_conflict.
OneWinnerPerRow ==
  \A x, y \in done : x.item = y.item /\ x.replaced = y.replaced => x = y

\* A payload that is replaced stays recoverable: as long as no statement has
\* failed, when the row changes its payload the old one is in item_history
\* under its version, unless the history is full of newer versions.
ReplacementKept ==
  \A i \in Item :
    (failed = 0 /\ IsRow(db.items[i]) /\ db'.items[i].payload # db.items[i].payload)
    => \/ \E h \in db'.history[i] : /\ h.version = db.items[i].version
                                    /\ h.payload = db.items[i].payload
       \/ /\ Cardinality(db'.history[i]) = HistoryLimit
          /\ \A h \in db'.history[i] : h.version > db.items[i].version
=============================================================================
