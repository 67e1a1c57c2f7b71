------------------------------ MODULE ItemRows ------------------------------
(***************************************************************************)
(* The rows of the Postgres tables behind a vault (items, item_history and *)
(* changes) and what one change of a push does to them: the parts of       *)
(* apply_change that are computed from rows already read.                  *)
(*                                                                         *)
(* One vault is modelled.  The columns kept are the ones control depends   *)
(* on: path, payload, checksum (named by the payload it is the digest of), *)
(* version, row_version and sync_status.                                   *)
(***************************************************************************)
EXTENDS Integers, FiniteSets, FiniteSetsExt

CONSTANTS
  Item,          \* item ids
  Path,          \* item paths
  Payload,       \* encrypted payloads; a checksum is named by its payload
  None,          \* an absent optional field
  NoRow,         \* no row with that id
  HistoryLimit   \* ITEM_HISTORY_LIMIT (5 in the code)

ASSUME HistoryLimitAssumption == HistoryLimit \in Nat \ {0}
ASSUME AbsentAssumption == /\ None \notin Path
                           /\ None \notin Payload

Op == {"create", "update", "restore", "delete"}

\* changes.op knows three operations; a restore is announced as an update.
FeedOp == {"create", "update", "delete"}

Row == [path : Path, payload : Payload, checksum : Payload,
        version : Nat, row_version : Nat, status : {"active", "tombstone"}]

ASSUME NoRowAssumption == NoRow \notin Row

IsRow(row) == row # NoRow

HistoryEntry == [version : Nat, payload : Payload]

ChangeEntry == [seq : Nat, item : Item, op : FeedOp, version : Nat]

Tables == [items   : [Item -> Row \cup {NoRow}],
           history : [Item -> SUBSET HistoryEntry],
           changes : SUBSET ChangeEntry]

\* rows: the new version of each row written (NoRow: not written);
\* changes, added, pruned: rows inserted into and deleted from the other tables.
Pending == [rows    : [Item -> Row \cup {NoRow}],
            changes : SUBSET ChangeEntry,
            added   : [Item -> SUBSET HistoryEntry],
            pruned  : [Item -> SUBSET HistoryEntry]]

NothingPending == [rows    |-> [i \in Item |-> NoRow],
                   changes |-> {},
                   added   |-> [i \in Item |-> {}],
                   pruned  |-> [i \in Item |-> {}]]

EmptyTables == [items   |-> [i \in Item |-> NoRow],
                history |-> [i \in Item |-> {}],
                changes |-> {}]

\* A change as it arrives: path, payload and checksum are optional.
Change == [item : Item, op : Op, path : Path \cup {None},
           payload : Payload \cup {None}, checksum : Payload \cup {None}]

-----------------------------------------------------------------------------
(* What a transaction sees: a table version t overlaid with its own writes. *)

RowIn(t, p, i) == IF IsRow(p.rows[i]) THEN p.rows[i] ELSE t.items[i]

HistoryIn(t, p, i) == (t.history[i] \ p.pruned[i]) \cup p.added[i]

ChangesIn(t, p) == t.changes \cup p.changes

\* Commit: the tables t with the writes p.
Merged(t, p) ==
  [items   |-> [i \in Item |-> RowIn(t, p, i)],
   history |-> [i \in Item |-> HistoryIn(t, p, i)],
   changes |-> ChangesIn(t, p)]

\* SELECT MAX(seq) FROM changes WHERE item_id = i, 0 standing for NULL.
MaxSeqOf(chs, i) == LET seqs == {c.seq : c \in {d \in chs : d.item = i}}
                    IN  IF seqs = {} THEN 0 ELSE Max(seqs)

\* ChangeRepo::last_seq_for_vault (0 when the vault has no change).
LastSeq(chs) == IF chs = {} THEN 0 ELSE Max({c.seq : c \in chs})

ActiveAt(row, path) == IsRow(row) /\ row.status = "active" /\ row.path = path

\* find_path_conflict: some other active row, in what the transaction sees,
\* has the path.
PathConflict(t, p, path, i) ==
  \E j \in Item \ {i} : ActiveAt(RowIn(t, p, j), path)

\* Faulty: the order is ascending, and the newest entries are cut.
ExcessNewest(h) ==
  {e \in h : Cardinality({f \in h : f.version < e.version}) >= HistoryLimit}

\* DELETE ... ORDER BY version DESC OFFSET HistoryLimit: the entries cut.
Excess(h) ==
  {e \in h : Cardinality({f \in h : f.version > e.version}) >= HistoryLimit}

-----------------------------------------------------------------------------
(* apply_change: what one change makes of the rows it has read *)

\* Faulty: one newer change is let through.
StaleBaseOffByOne(base, server_seq) == base > 0 /\ server_seq > base + 1

\* The device has not seen the item's newest change.
StaleBase(base, server_seq) == base > 0 /\ server_seq > base

Given(new, old) == IF new = None THEN old ELSE new

\* payload_changed: a payload came, with no checksum or a different one.
PayloadChanged(c, row) ==
  c.payload # None /\ (c.checksum = None \/ c.checksum # row.checksum)

Incomplete(c) == None \in {c.payload, c.checksum, c.path}

CreatedRow(c) ==
  [path |-> c.path, payload |-> c.payload, checksum |-> c.checksum,
   version |-> 1, row_version |-> 1, status |-> "active"]

\* The columns each UPDATE statement sets come from the row as it was read,
\* the others (cur) from the row as it is when the statement runs.
UpdatedRow(c, row, cur) ==
  [path |-> Given(c.path, row.path), payload |-> Given(c.payload, row.payload),
   checksum |-> Given(c.checksum, row.checksum), version |-> row.version + 1,
   row_version |-> row.row_version + 1,
   status |-> IF c.op = "restore" THEN "active" ELSE cur.status]

DeletedRow(row, cur) ==
  [cur EXCEPT !.version = row.version + 1, !.row_version = row.row_version + 1,
              !.status = "tombstone"]

NewRow(c, row, cur) ==
  IF c.op = "create" THEN CreatedRow(c)
  ELSE IF c.op = "delete" THEN DeletedRow(row, cur)
  ELSE UpdatedRow(c, row, cur)

\* Which writes first save the row as read to item_history.
KeepsHistory(c, row) ==
  \/ c.op \in {"restore", "delete"}
  \/ c.op = "update" /\ PayloadChanged(c, row)

\* insert_item_history (ON CONFLICT (item_id, version) DO NOTHING) followed
\* by prune_item_history, in the writes p of a transaction that sees t.
SaveHistory(t, p, i, row) ==
  LET entry == [version |-> row.version, payload |-> row.payload]
      new   == IF \E h \in HistoryIn(t, p, i) : h.version = row.version
               THEN {} ELSE {entry}
      cut   == Excess(HistoryIn(t, p, i) \cup new)
  IN  [p EXCEPT !.added = [@ EXCEPT ![i] = (p.added[i] \cup new) \ cut],
                !.pruned = [@ EXCEPT ![i] = p.pruned[i] \cup cut]]

\* Faulty: the operation is stored as it came.
FeedOpVerbatim(op) == op

FeedOpOf(op) == IF op = "restore" THEN "update" ELSE op
=============================================================================
