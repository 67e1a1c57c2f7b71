--------------------------- MODULE SyncPushProofs ---------------------------
(***************************************************************************)
(* What a sync push promises, for any number of sessions, items, batches   *)
(* and pushes.  Under both isolation levels: the tables keep their types,  *)
(* a push is applied whole or not at all, the feed announces the rows, and *)
(* no page of a pull has a gap.  Under REPEATABLE READ: no two entries of  *)
(* the feed announce the same version of an item, and no two pushes based  *)
(* on the same change of an item are both acknowledged.                    *)
(*                                                                         *)
(* The arguments: a row written by an open transaction is locked, so       *)
(* nobody else commits it, and the number of its change is drawn after the *)
(* lock was taken; under REPEATABLE READ the first write checks that the   *)
(* row is still the one of the snapshot, hence what the transaction read   *)
(* is what is committed.                                                   *)
(***************************************************************************)
EXTENDS SyncPush, WellFoundedInduction, FiniteSetTheorems, TLAPS

Working(s) == tx[s].pc \in {"max_seq", "row", "path", "write", "change"}

\* Where the program counter of a push is, and what it then holds.
Progress(s) ==
  /\ Working(s) => /\ tx[s].batch \in Batches
                   /\ tx[s].i \in 1 .. Len(tx[s].batch)
                   /\ Len(tx[s].base) = Len(tx[s].batch)
                   /\ Isolation = "repeatable_read" => snap[s] \in Tables
  /\ tx[s].pc \in {"path", "write"} =>
       IF Cur(s).op = "create" THEN ~Incomplete(Cur(s)) ELSE IsRow(tx[s].row)
  /\ tx[s].pc = "path" => Cur(s).op \in {"create", "update"}
  /\ tx[s].pc = "change" => IsRow(pend[s].rows[Cur(s).item])
  /\ tx[s].pc \in {"idle", "cursor"} => pend[s] = NothingPending

\* A row once read is still there when it is written: rows are never removed.
Stay(s) ==
  /\ Working(s) /\ Isolation = "repeatable_read" =>
       \A i \in Item : IsRow(snap[s].items[i]) => IsRow(db.items[i])
  /\ tx[s].pc \in {"path", "write"} /\ Cur(s).op # "create" =>
       IsRow(RowIn(db, pend[s], Cur(s).item))

StayInv == \A s \in Session : Stay(s)

ProgressInv == \A s \in Session : Progress(s)

\* A row is written by at most one open transaction.
LockInv ==
  \A s, t \in Session : \A i \in Item :
    IsRow(pend[s].rows[i]) /\ IsRow(pend[t].rows[i]) => s = t

\* What the open transaction of s read and wrote is above what is committed.
FreshRow(s) ==
  /\ tx[s].pc \in {"path", "write"} => tx[s].row = RowIn(snap[s], pend[s], Cur(s).item)
  /\ \A i \in Item : IsRow(pend[s].rows[i]) =>
       /\ db.items[i] = snap[s].items[i]
       /\ IsRow(db.items[i]) => db.items[i].version < pend[s].rows[i].version

FreshChanges(s) ==
  /\ \A c \in pend[s].changes :
       /\ IsRow(pend[s].rows[c.item])
       /\ c.version <= pend[s].rows[c.item].version
       /\ IsRow(db.items[c.item]) => db.items[c.item].version < c.version
       /\ tx[s].pc = "change" /\ c.item = Cur(s).item =>
            c.version < pend[s].rows[c.item].version
  /\ \A c, d \in pend[s].changes :
       c.item = d.item /\ c.version = d.version => c.seq = d.seq

FreshInv == \A s \in Session : FreshRow(s) /\ FreshChanges(s)

CommittedInv ==
  /\ \A c \in db.changes : /\ IsRow(db.items[c.item])
                           /\ c.version <= db.items[c.item].version
  /\ VersionsUnique

SafeInv == LockInv /\ FreshInv /\ CommittedInv

\* Sequence numbers handed out so far are below the sequence's next value.
SeqInv ==
  /\ \A c \in db.changes : c.seq < nextSeq
  /\ \A s \in Session : \A c \in pend[s].changes : c.seq < nextSeq

-----------------------------------------------------------------------------
(* Operators *)

\* A bounded, non-empty set of naturals has the maximum that SELECT MAX finds.
LEMMA BoundedMax ==
  ASSUME NEW S \in SUBSET Nat, S # {}, NEW bound \in Nat, \A n \in S : n <= bound
  PROVE  Max(S) \in S /\ \A n \in S : n <= Max(S)
<1> DEFINE R == OpToRel(<, Nat)
           T == {bound - n : n \in S}
<1>1. IsWellFoundedOn(R, Nat)
  BY NatLessThanWellFounded
<1>2. T \subseteq Nat /\ T # {}
  <2>1. ASSUME NEW n \in S PROVE bound - n \in Nat
    OBVIOUS
  <2>2. PICK n \in S : TRUE
    OBVIOUS
  <2> QED BY <2>1, <2>2
<1>3. PICK m \in T : \A n \in T : ~(<<n, m>> \in R)
  BY <1>1, <1>2, WFMin
<1>4. PICK x \in S : m = bound - x
  OBVIOUS
<1>5. \A n \in S : x >= n
  <2> SUFFICES ASSUME NEW n \in S, ~(x >= n) PROVE FALSE
    OBVIOUS
  <2>1. bound - n \in T /\ bound - n \in Nat /\ m \in Nat /\ bound - n < m
    BY <1>4
  <2>2. <<bound - n, m>> \in R
    BY <2>1 DEF OpToRel
  <2> QED BY <1>3, <2>1, <2>2
<1> QED BY <1>5 DEF Max

LEMMA RowInType ==
  ASSUME NEW t \in Tables, NEW p \in Pending, NEW i \in Item
  PROVE  RowIn(t, p, i) \in Row \cup {NoRow}
BY DEF Tables, Pending, RowIn, IsRow

LEMMA NewRowType ==
  ASSUME NEW c \in Change, NEW row \in Row \cup {NoRow}, NEW cur \in Row \cup {NoRow},
         IF c.op = "create" THEN ~Incomplete(c) ELSE IsRow(row) /\ IsRow(cur)
  PROVE  NewRow(c, row, cur) \in Row
<1>1. CASE c.op = "create"
  BY <1>1 DEF NewRow, CreatedRow, Incomplete, Change, Row
<1>2. CASE c.op # "create"
  <2>1. row \in Row /\ cur \in Row
    BY <1>2 DEF IsRow
  <2>2. /\ Given(c.path, row.path) \in Path
        /\ Given(c.payload, row.payload) \in Payload
        /\ Given(c.checksum, row.checksum) \in Payload
        /\ row.version + 1 \in Nat /\ row.row_version + 1 \in Nat
    BY <2>1 DEF Given, Change, Row
  <2>3. c.op \in {"update", "restore", "delete"}
    BY <1>2 DEF Change, Op
  <2> QED BY <1>2, <2>1, <2>2, <2>3 DEF NewRow, UpdatedRow, DeletedRow, Row
<1> QED BY <1>1, <1>2

LEMMA SaveHistoryType ==
  ASSUME NEW t \in Tables, NEW p \in Pending, NEW i \in Item, NEW row \in Row
  PROVE  /\ SaveHistory(t, p, i, row) \in Pending
         /\ SaveHistory(t, p, i, row).rows = p.rows
         /\ SaveHistory(t, p, i, row).changes = p.changes
<1> DEFINE entry == [version |-> row.version, payload |-> row.payload]
           new == IF \E h \in HistoryIn(t, p, i) : h.version = row.version
                  THEN {} ELSE {entry}
           cut == Excess(HistoryIn(t, p, i) \cup new)
<1>1. entry \in HistoryEntry
  BY DEF HistoryEntry, Row
<1>2. HistoryIn(t, p, i) \cup new \subseteq HistoryEntry
  BY <1>1 DEF HistoryIn, Tables, Pending
<1>3. cut \subseteq HistoryEntry
  BY <1>2 DEF Excess
<1> DEFINE add == [p.added EXCEPT ![i] = (p.added[i] \cup new) \ cut]
           del == [p.pruned EXCEPT ![i] = p.pruned[i] \cup cut]
<1>4. add \in [Item -> SUBSET HistoryEntry] /\ del \in [Item -> SUBSET HistoryEntry]
  <2>1. (p.added[i] \cup new) \ cut \in SUBSET HistoryEntry /\ p.pruned[i] \cup cut \in SUBSET HistoryEntry
    BY <1>1, <1>3 DEF Pending
  <2>2. p.added \in [Item -> SUBSET HistoryEntry] /\ p.pruned \in [Item -> SUBSET HistoryEntry]
    BY DEF Pending
  <2> HIDE DEF new, cut
  <2> QED BY <2>1, <2>2
<1>5. SaveHistory(t, p, i, row) = [p EXCEPT !.added = add, !.pruned = del]
  BY DEF SaveHistory, Pending
<1> HIDE DEF add, del
<1> QED BY <1>4, <1>5 DEF Pending

LEMMA MergedType ==
  ASSUME db \in Tables, NEW p \in Pending
  PROVE  Merged(db, p) \in Tables
<1>1. \A i \in Item : RowIn(db, p, i) \in Row \cup {NoRow}
  BY RowInType
<1>2. \A i \in Item : HistoryIn(db, p, i) \in SUBSET HistoryEntry
  BY DEF HistoryIn, Tables, Pending
<1>3. ChangesIn(db, p) \in SUBSET ChangeEntry
  BY DEF ChangesIn, Tables, Pending
<1> QED BY <1>1, <1>2, <1>3 DEF Merged, Tables

LEMMA NothingPendingType == NothingPending \in Pending
BY DEF NothingPending, Pending

-----------------------------------------------------------------------------
(* Types and the program counter *)

BasicInv == TypeOK /\ ProgressInv /\ SeqInv

LEMMA IdleType == Idle \in Push
BY DEF Idle, Push, PushPc, Applied

LEMMA CurType ==
  ASSUME TypeOK, NEW s \in Session, Progress(s), Working(s)
  PROVE  /\ Cur(s) \in Change /\ CurBase(s) \in Nat
         /\ tx[s].batch \in Seq(Change)
<1>1. tx[s].batch \in Seq(Change) /\ tx[s].i \in 1 .. Len(tx[s].batch)
  BY BatchesAssumption DEF Progress
<1>2. Cur(s) \in Change
  BY <1>1 DEF Cur
<1>3. tx[s].base \in Seq(BaseSeqs) /\ Len(tx[s].base) = Len(tx[s].batch)
  BY DEF TypeOK, Push, Progress
<1>4. CurBase(s) \in BaseSeqs
  BY <1>1, <1>3 DEF CurBase
<1> QED BY <1>1, <1>2, <1>4, BatchesAssumption

\* A step of session s leaves the progress of the others alone.
LEMMA ProgressLocal ==
  ASSUME ProgressInv, NEW s \in Session, Progress(s)',
         \A t \in Session \ {s} : tx'[t] = tx[t] /\ pend'[t] = pend[t] /\ snap'[t] = snap[t]
  PROVE  ProgressInv'
<1> SUFFICES ASSUME NEW t \in Session, t # s PROVE Progress(t)'
  BY DEF ProgressInv
<1>1. Progress(t)
  BY DEF ProgressInv
<1> QED BY <1>1 DEF Progress, Working, Cur, Incomplete

LEMMA AbortBasic ==
  ASSUME BasicInv, NEW s \in Session, Abort(s)
  PROVE  BasicInv'
<1>1. TypeOK'
  BY IdleType, NothingPendingType DEF BasicInv, TypeOK, TablesTypeOK, Abort
<1>2. Progress(s)'
  BY DEF BasicInv, TypeOK, TablesTypeOK, Abort, Progress, Idle, Working
<1>3. ProgressInv'
  BY <1>2, ProgressLocal DEF BasicInv, TypeOK, TablesTypeOK, Abort
<1>4. SeqInv'
  BY DEF BasicInv, TypeOK, TablesTypeOK, Abort, SeqInv, NothingPending
<1> QED BY <1>1, <1>3, <1>4 DEF BasicInv

LEMMA NextChangeType ==
  ASSUME NEW t \in Push
  PROVE  /\ NextChange(t) \in Push
         /\ NextChange(t).batch = t.batch /\ NextChange(t).base = t.base
         /\ NextChange(t).applied = t.applied /\ NextChange(t).conflicts = t.conflicts
         /\ NextChange(t).i = t.i + 1 /\ NextChange(t).row = NoRow
         /\ NextChange(t).pc = IF t.i = Len(t.batch) THEN "finish" ELSE "max_seq"
<1> DEFINE pc == IF t.i = Len(t.batch) THEN "finish" ELSE "max_seq"
           n == t.i + 1
<1>1. pc \in PushPc /\ n \in Nat \ {0}
  BY DEF PushPc, Push
<1>2. NextChange(t) = [t EXCEPT !.i = n, !.row = NoRow, !.pc = pc]
  BY DEF NextChange
<1> HIDE DEF pc, n
<1>3. [t EXCEPT !.i = n, !.row = NoRow, !.pc = pc] \in Push
  BY <1>1 DEF Push
<1> QED BY <1>2, <1>3 DEF pc, n, Push

LEMMA ConflictBasic ==
  ASSUME BasicInv, NEW s \in Session, Working(s), Conflict(s), Reading
  PROVE  BasicInv'
<1> DEFINE t == [NextChange(tx[s]) EXCEPT !.conflicts = tx[s].conflicts \cup {tx[s].i}]
<1>1. tx' = [tx EXCEPT ![s] = t]
  BY DEF Conflict
<1>2. tx[s] \in Push
  BY DEF BasicInv, TypeOK
<1>3. t \in Push /\ t.batch = tx[s].batch /\ t.base = tx[s].base /\ t.i = tx[s].i + 1
      /\ t.pc = IF tx[s].i = Len(tx[s].batch) THEN "finish" ELSE "max_seq"
  <2>1. NextChange(tx[s]) \in Push /\ {tx[s].i} \subseteq Nat
    BY <1>2, NextChangeType DEF Push
  <2> QED BY <1>2, <2>1, NextChangeType DEF Push
<1> HIDE DEF t
<1>4. TypeOK'
  BY <1>1, <1>3 DEF BasicInv, TypeOK, TablesTypeOK, Reading, tableVars
<1>5. tx[s].i \in 1 .. Len(tx[s].batch) /\ Len(tx[s].batch) \in Nat
  BY CurType DEF BasicInv, ProgressInv, Progress
<1>6. tx'[s] = t
  BY <1>1 DEF BasicInv, TypeOK
<1>7. Progress(s)'
  <2>1. Progress(s)
    BY DEF BasicInv, ProgressInv
  <2> QED BY <1>3, <1>5, <1>6, <2>1 DEF Progress, Working, Reading, tableVars
<1>8. ProgressInv'
  BY <1>1, <1>7, ProgressLocal DEF BasicInv, TypeOK, Reading, tableVars
<1>9. SeqInv'
  BY DEF BasicInv, SeqInv, Reading, tableVars
<1> QED BY <1>4, <1>8, <1>9 DEF BasicInv

\* A step that only reads replaces the record of its own push.
LEMMA ReadingBasic ==
  ASSUME BasicInv, NEW s \in Session, NEW t \in Push,
         tx' = [tx EXCEPT ![s] = t], Reading, Progress(s)'
  PROVE  BasicInv'
<1>1. TypeOK'
  BY DEF BasicInv, TypeOK, TablesTypeOK, Reading, tableVars
<1>2. ProgressInv'
  BY ProgressLocal DEF BasicInv, TypeOK, Reading, tableVars
<1>3. SeqInv'
  BY DEF BasicInv, SeqInv, Reading, tableVars
<1> QED BY <1>1, <1>2, <1>3 DEF BasicInv

LEMMA BeginBasic ==
  ASSUME BasicInv, NEW s \in Session, NEW b \in Batches,
         NEW base \in [1 .. Len(b) -> BaseSeqs], Begin(s, b, base)
  PROVE  BasicInv'
<1> DEFINE t == [Idle EXCEPT !.pc = "max_seq", !.batch = b, !.base = base]
           d == IF Isolation = "read_committed" THEN None ELSE db
<1>1. b \in Seq(Change) /\ b # <<>> /\ Len(b) \in Nat /\ Len(b) > 0
  BY BatchesAssumption
<1>2. base \in Seq(BaseSeqs) /\ Len(base) = Len(b)
  BY <1>1
<1>3. t \in Push /\ t.pc = "max_seq" /\ t.batch = b /\ t.base = base /\ t.i = 1
  <2>1. Idle \in Push /\ Idle.i = 1
    BY IdleType DEF Idle
  <2> QED BY <1>2, <2>1 DEF Push, PushPc
<1>4. d \in Tables \cup {None} /\ (Isolation = "repeatable_read" => d \in Tables)
  BY DEF BasicInv, TypeOK, TablesTypeOK
<1>5. tx' = [tx EXCEPT ![s] = t] /\ snap' = [snap EXCEPT ![s] = d]
  BY DEF Begin
<1> HIDE DEF t, d
<1>6. TypeOK'
  BY <1>3, <1>4, <1>5 DEF BasicInv, TypeOK, TablesTypeOK, Begin, tableVars
<1>7. Progress(s)'
  BY <1>1, <1>2, <1>3, <1>4, <1>5
     DEF BasicInv, TypeOK, Progress, Working
<1>8. ProgressInv'
  BY <1>5, <1>7, ProgressLocal DEF BasicInv, TypeOK, Begin, tableVars
<1>9. SeqInv'
  BY DEF BasicInv, SeqInv, Begin, tableVars
<1> QED BY <1>6, <1>8, <1>9 DEF BasicInv

LEMMA GotoBasic ==
  ASSUME BasicInv, NEW s \in Session, Working(s), NEW row \in Row \cup {NoRow},
         NEW pc \in {"row", "path", "write"},
         tx' = [tx EXCEPT ![s] = [tx[s] EXCEPT !.row = row, !.pc = pc]], Reading,
         pc \in {"path", "write"} =>
           IF Cur(s).op = "create" THEN ~Incomplete(Cur(s)) ELSE IsRow(row),
         pc = "path" => Cur(s).op \in {"create", "update"}
  PROVE  BasicInv'
<1> DEFINE t == [tx[s] EXCEPT !.row = row, !.pc = pc]
<1>1. tx[s] \in Push /\ Progress(s)
  BY DEF BasicInv, TypeOK, ProgressInv
<1>2. t \in Push /\ t.pc = pc /\ t.row = row /\ t.batch = tx[s].batch
      /\ t.base = tx[s].base /\ t.i = tx[s].i
  BY <1>1 DEF Push, PushPc
<1> HIDE DEF t
<1>3. tx'[s] = t
  BY DEF BasicInv, TypeOK, t
<1>4. Cur(s)' = Cur(s) /\ snap' = snap /\ pend' = pend
  BY <1>2, <1>3 DEF Cur, Reading, tableVars
<1>5. Progress(s)'
  BY <1>1, <1>2, <1>3, <1>4 DEF Progress, Working, Incomplete
<1> QED BY <1>2, <1>5, ReadingBasic DEF t

LEMMA ReadMaxSeqBasic ==
  ASSUME BasicInv, NEW s \in Session, ReadMaxSeq(s)
  PROVE  BasicInv'
<1>1. Working(s) /\ Reading /\ (Conflict(s) \/ Goto(s, "row"))
  BY DEF ReadMaxSeq, Working
<1>2. CASE Conflict(s)
  BY <1>1, <1>2, ConflictBasic
<1>3. CASE Goto(s, "row")
  <2>1. tx[s] \in Push
    BY DEF BasicInv, TypeOK
  <2>2. tx[s].row \in Row \cup {NoRow}
    BY <2>1 DEF Push
  <2>3. tx' = [tx EXCEPT ![s] = [tx[s] EXCEPT !.row = tx[s].row, !.pc = "row"]]
    BY <1>3, <2>1 DEF Goto, Push, BasicInv, TypeOK
  <2> QED BY <1>1, <2>2, <2>3, GotoBasic
<1> QED BY <1>1, <1>2, <1>3

LEMMA ReadRowBasic ==
  ASSUME BasicInv, NEW s \in Session, ReadRow(s)
  PROVE  BasicInv'
<1> DEFINE c == Cur(s)
           pc == IF c.op \in {"create", "update"} THEN "path" ELSE "write"
<1>1. Working(s)
  BY DEF ReadRow, Working
<1>2. CASE Abort(s)
  BY <1>2, AbortBasic
<1>3. CASE Conflict(s) /\ Reading
  BY <1>1, <1>3, ConflictBasic
<1>4. CASE /\ \/ c.op = "create" /\ ~IsRow(RowSeen(s)) /\ ~Incomplete(c)
              \/ c.op # "create" /\ IsRow(RowSeen(s))
           /\ tx' = [tx EXCEPT ![s].row = RowSeen(s), ![s].pc = pc]
           /\ Reading
  <2>1. tx[s] \in Push /\ Progress(s)
    BY DEF BasicInv, TypeOK, ProgressInv
  <2>2. RowSeen(s) \in Row \cup {NoRow}
    <3>1. View(s) \in Tables /\ pend[s] \in Pending /\ c.item \in Item
      BY <1>1, <2>1, CurType, IsolationAssumption
         DEF View, Progress, BasicInv, TypeOK, TablesTypeOK, Change
    <3> QED BY <3>1, RowInType DEF RowSeen
  <2>3. pc \in {"path", "write"} /\ (pc = "path" => c.op \in {"create", "update"})
    OBVIOUS
  <2> HIDE DEF pc
  <2>4. tx' = [tx EXCEPT ![s] = [tx[s] EXCEPT !.row = RowSeen(s), !.pc = pc]]
    BY <1>4, <2>1 DEF BasicInv, TypeOK
  <2>5. IF c.op = "create" THEN ~Incomplete(c) ELSE IsRow(RowSeen(s))
    BY <1>4
  <2> QED BY <1>1, <1>4, <2>2, <2>3, <2>4, <2>5, GotoBasic
<1> QED BY <1>2, <1>3, <1>4 DEF ReadRow

LEMMA CheckPathBasic ==
  ASSUME BasicInv, NEW s \in Session, CheckPath(s)
  PROVE  BasicInv'
<1>1. Working(s) /\ Reading /\ (Conflict(s) \/ Goto(s, "write")) /\ tx[s].pc = "path"
  BY DEF CheckPath, Working
<1>2. CASE Conflict(s)
  BY <1>1, <1>2, ConflictBasic
<1>3. CASE Goto(s, "write")
  <2>1. tx[s] \in Push /\ Progress(s)
    BY DEF BasicInv, TypeOK, ProgressInv
  <2>2. tx[s].row \in Row \cup {NoRow}
    BY <2>1 DEF Push
  <2>3. tx' = [tx EXCEPT ![s] = [tx[s] EXCEPT !.row = tx[s].row, !.pc = "write"]]
    BY <1>3, <2>1 DEF Goto, Push, BasicInv, TypeOK
  <2>4. IF Cur(s).op = "create" THEN ~Incomplete(Cur(s)) ELSE IsRow(tx[s].row)
    BY <1>1, <2>1 DEF Progress
  <2> QED BY <1>1, <2>2, <2>3, <2>4, GotoBasic
<1> QED BY <1>1, <1>2, <1>3

\* Commit or rollback, and the program counter moves to the final read.
LEMMA FinishBasic ==
  ASSUME BasicInv, NEW s \in Session, Finish(s)
  PROVE  BasicInv'
<1>1. tx[s] \in Push /\ pend[s] \in Pending
  BY DEF BasicInv, TypeOK, TablesTypeOK
<1>2. PICK t \in Push : t.pc = "cursor" /\ tx' = [tx EXCEPT ![s] = t]
  <2>1. CASE tx[s].conflicts # {}
    <3> DEFINE t == [tx[s] EXCEPT !.pc = "cursor", !.applied = {}]
    <3>1. t \in Push /\ t.pc = "cursor"
      BY <1>1 DEF Push, PushPc
    <3>2. tx' = [tx EXCEPT ![s] = t]
      BY <2>1, <1>1 DEF Finish, BasicInv, TypeOK
    <3> QED BY <3>1, <3>2
  <2>2. CASE tx[s].conflicts = {}
    <3> DEFINE t == [tx[s] EXCEPT !.pc = "cursor"]
    <3>1. t \in Push /\ t.pc = "cursor"
      BY <1>1 DEF Push, PushPc
    <3>2. tx' = [tx EXCEPT ![s] = t]
      BY <2>2, <1>1 DEF Finish, BasicInv, TypeOK
    <3> QED BY <3>1, <3>2
  <2> QED BY <2>1, <2>2
<1>3. db' \in Tables /\ db'.changes \subseteq db.changes \cup pend[s].changes
  BY <1>1, MergedType DEF Finish, BasicInv, TypeOK, TablesTypeOK, Merged, ChangesIn
<1>4. TypeOK'
  BY <1>2, <1>3, NothingPendingType
     DEF BasicInv, TypeOK, TablesTypeOK, Finish
<1>5. Progress(s)'
  BY <1>2 DEF BasicInv, TypeOK, TablesTypeOK, Finish, Progress, Working
<1>6. ProgressInv'
  BY <1>2, <1>5, ProgressLocal DEF BasicInv, TypeOK, TablesTypeOK, Finish
<1>7. SeqInv'
  BY <1>3 DEF BasicInv, TypeOK, TablesTypeOK, Finish, SeqInv, NothingPending
<1> QED BY <1>4, <1>6, <1>7 DEF BasicInv

\* The feed's last sequence number is a natural number the sequence is past.
LEMMA LastSeqType ==
  ASSUME BasicInv
  PROVE  LastSeq(db.changes) \in Nat
<1> DEFINE S == {c.seq : c \in db.changes}
<1>1. CASE db.changes = {}
  BY <1>1 DEF LastSeq
<1>2. CASE db.changes # {}
  <2>1. S \in SUBSET Nat /\ S # {} /\ nextSeq \in Nat /\ \A n \in S : n <= nextSeq
    BY <1>2 DEF BasicInv, TypeOK, TablesTypeOK, Tables, ChangeEntry, SeqInv
  <2> HIDE DEF S
  <2>2. Max(S) \in S
    BY <2>1, BoundedMax
  <2> QED BY <1>2, <2>1, <2>2 DEF LastSeq, S
<1> QED BY <1>1, <1>2

LEMMA RespondBasic ==
  ASSUME BasicInv, NEW s \in Session, Respond(s)
  PROVE  BasicInv'
<1>1. [applied |-> tx[s].applied, new_cursor |-> LastSeq(db.changes)]
        \in [applied : SUBSET Applied, new_cursor : Nat]
  BY LastSeqType DEF BasicInv, TypeOK, Push
<1>2. TypeOK'
  BY <1>1, IdleType DEF BasicInv, TypeOK, TablesTypeOK, Respond, tableVars
<1>3. Progress(s)'
  BY DEF BasicInv, TypeOK, ProgressInv, Progress, Respond, Idle, Working, tableVars
<1>4. ProgressInv'
  BY <1>3, ProgressLocal DEF BasicInv, TypeOK, Respond, tableVars
<1>5. SeqInv'
  BY DEF BasicInv, SeqInv, Respond, tableVars
<1> QED BY <1>2, <1>4, <1>5 DEF BasicInv

LEMMA PullBasic ==
  ASSUME BasicInv, NEW r \in Reader, Pull(r)
  PROVE  BasicInv'
<1>1. Page(r) \in SUBSET Nat /\ nextSeq \in Nat /\ \A n \in Page(r) : n <= nextSeq
  BY DEF Page, BasicInv, TypeOK, TablesTypeOK, Tables, ChangeEntry, SeqInv
<1>2. Page(r) # {} => Max(Page(r)) \in Nat
  BY <1>1, BoundedMax
<1>3. cursor' \in [Reader -> Nat] /\ seen' \in [Reader -> SUBSET Nat]
  BY <1>1, <1>2 DEF Pull, BasicInv, TypeOK
<1>4. TypeOK'
  BY <1>3 DEF Pull, BasicInv, TypeOK, TablesTypeOK, tableVars, pushVars
<1>5. ProgressInv'
  BY DEF Pull, BasicInv, ProgressInv, Progress, Working, Cur, Incomplete, tableVars, pushVars
<1>6. SeqInv'
  BY DEF Pull, BasicInv, SeqInv, tableVars, pushVars
<1> QED BY <1>4, <1>5, <1>6 DEF BasicInv

\* The row a write installs, and the writes it leaves pending.
LEMMA WriteRowType ==
  ASSUME BasicInv, StayInv, NEW s \in Session, tx[s].pc = "write"
  PROVE  WriteRow(s) \in Row /\ Cur(s).item \in Item
<1>1. Progress(s) /\ Stay(s) /\ Working(s)
  BY DEF BasicInv, ProgressInv, StayInv, Working
<1>2. Cur(s) \in Change
  BY <1>1, CurType DEF BasicInv
<1>3. Cur(s).item \in Item
  BY <1>2 DEF Change
<1>4. tx[s].row \in Row \cup {NoRow} /\ RowIn(db, pend[s], Cur(s).item) \in Row \cup {NoRow}
  BY <1>3, RowInType DEF BasicInv, TypeOK, TablesTypeOK, Push
<1>5. IF Cur(s).op = "create" THEN ~Incomplete(Cur(s))
      ELSE IsRow(tx[s].row) /\ IsRow(RowIn(db, pend[s], Cur(s).item))
  BY <1>1 DEF Progress, Stay
<1> QED BY <1>2, <1>3, <1>4, <1>5, NewRowType DEF WriteRow

LEMMA WriteEffect ==
  ASSUME BasicInv, StayInv, NEW s \in Session, Write(s), ~Abort(s)
  PROVE  /\ pend' \in [Session -> Pending]
         /\ \A t \in Session \ {s} : pend'[t] = pend[t] /\ tx'[t] = tx[t]
         /\ pend'[s].rows = [pend[s].rows EXCEPT ![Cur(s).item] = WriteRow(s)]
         /\ pend'[s].changes = pend[s].changes
         /\ tx' \in [Session -> Push]
         /\ tx'[s].pc = "change" /\ tx'[s].i = tx[s].i /\ tx'[s].batch = tx[s].batch
         /\ tx'[s].base = tx[s].base /\ tx'[s].row = tx[s].row
         /\ tx'[s].conflicts = tx[s].conflicts /\ tx'[s].applied = tx[s].applied
         /\ UNCHANGED <<db, nextSeq, snap, responses, pushes, cursor, seen>>
<1> DEFINE c == Cur(s)
           i == c.item
           saved == IF KeepsHistory(c, tx[s].row)
                    THEN SaveHistory(View(s), pend[s], i, tx[s].row) ELSE pend[s]
           rows == [pend[s].rows EXCEPT ![i] = WriteRow(s)]
<1>1. tx[s].pc = "write" /\ Goto(s, "change")
      /\ UNCHANGED <<db, nextSeq, snap, responses, pushes, cursor, seen>>
      /\ pend' = [pend EXCEPT ![s] = [saved EXCEPT !.rows = [@ EXCEPT ![i] = WriteRow(s)]]]
  BY DEF Write
<1>2. Progress(s) /\ Working(s) /\ pend[s] \in Pending /\ tx[s] \in Push
  BY <1>1 DEF BasicInv, ProgressInv, Working, TypeOK, TablesTypeOK
<1>3. WriteRow(s) \in Row /\ i \in Item
  BY <1>1, WriteRowType
<1>4. saved \in Pending /\ saved.rows = pend[s].rows /\ saved.changes = pend[s].changes
  <2>1. CASE KeepsHistory(c, tx[s].row)
    <3>1. c.op # "create" /\ tx[s].row \in Row
      BY <1>1, <1>2, <2>1 DEF KeepsHistory, Progress, IsRow, Push
    <3>2. View(s) \in Tables
      BY <1>2, IsolationAssumption DEF View, Progress, BasicInv, TypeOK, TablesTypeOK
    <3> QED BY <1>2, <1>3, <2>1, <3>1, <3>2, SaveHistoryType
  <2>2. CASE ~KeepsHistory(c, tx[s].row)
    BY <1>2, <2>2
  <2> QED BY <2>1, <2>2
<1> HIDE DEF saved, c, i
<1>5. rows \in [Item -> Row \cup {NoRow}]
  BY <1>2, <1>3 DEF Pending
<1>6. pend' = [pend EXCEPT ![s] = [saved EXCEPT !.rows = rows]]
  BY <1>1, <1>4 DEF Pending
<1> HIDE DEF rows
<1>7. [saved EXCEPT !.rows = rows] \in Pending
      /\ [saved EXCEPT !.rows = rows].rows = rows
      /\ [saved EXCEPT !.rows = rows].changes = pend[s].changes
  BY <1>4, <1>5 DEF Pending
<1>8. /\ pend' \in [Session -> Pending]
      /\ \A t \in Session \ {s} : pend'[t] = pend[t]
      /\ pend'[s].rows = rows
      /\ pend'[s].changes = pend[s].changes
  BY <1>6, <1>7 DEF BasicInv, TypeOK, TablesTypeOK
<1>9. /\ tx' \in [Session -> Push]
      /\ \A t \in Session \ {s} : tx'[t] = tx[t]
      /\ tx'[s].pc = "change" /\ tx'[s].i = tx[s].i /\ tx'[s].batch = tx[s].batch
      /\ tx'[s].base = tx[s].base /\ tx'[s].row = tx[s].row
      /\ tx'[s].conflicts = tx[s].conflicts /\ tx'[s].applied = tx[s].applied
  BY <1>1, <1>2 DEF Goto, BasicInv, TypeOK, Push, PushPc
<1> QED BY <1>1, <1>8, <1>9 DEF rows, i, c

LEMMA WriteBasic ==
  ASSUME BasicInv, StayInv, NEW s \in Session, Write(s)
  PROVE  BasicInv'
<1>1. CASE Abort(s)
  BY <1>1, AbortBasic
<1>2. CASE ~Abort(s)
  <2>1. TypeOK'
    BY <1>2, WriteEffect DEF BasicInv, TypeOK, TablesTypeOK
  <2>2. tx[s].pc = "write" /\ Progress(s) /\ pend[s].rows \in [Item -> Row \cup {NoRow}]
    BY DEF Write, BasicInv, ProgressInv, TypeOK, TablesTypeOK, Pending
  <2>3. Cur(s)' = Cur(s)
    BY <1>2, WriteEffect DEF Cur
  <2>4. IsRow(pend'[s].rows[Cur(s).item])
    <3>1. WriteRow(s) \in Row /\ Cur(s).item \in Item
      BY <2>2, WriteRowType
    <3>2. pend'[s].rows[Cur(s).item] = WriteRow(s)
      BY <1>2, <2>2, <3>1, WriteEffect
    <3> QED BY <3>1, <3>2, NoRowAssumption DEF IsRow
  <2>5. Progress(s)'
    BY <1>2, <2>2, <2>3, <2>4, WriteEffect DEF Progress, Working
  <2>6. ProgressInv'
    BY <1>2, <2>5, WriteEffect, ProgressLocal DEF BasicInv
  <2>7. SeqInv'
    BY <1>2, WriteEffect DEF BasicInv, SeqInv
  <2> QED BY <2>1, <2>6, <2>7 DEF BasicInv
<1> QED BY <1>1, <1>2

Announced(s) == [seq |-> nextSeq, item |-> Cur(s).item, op |-> FeedOpOf(Cur(s).op),
                 version |-> AnnouncedVersion(s)]

Acked(s) == [item |-> Cur(s).item, base |-> CurBase(s), seq |-> nextSeq,
             version |-> AnnouncedVersion(s)]

LEMMA InsertChangeEffect ==
  ASSUME BasicInv, NEW s \in Session, InsertChange(s)
  PROVE  /\ Announced(s) \in ChangeEntry
         /\ pend' \in [Session -> Pending]
         /\ \A t \in Session \ {s} : pend'[t] = pend[t] /\ tx'[t] = tx[t]
         /\ pend'[s].rows = pend[s].rows
         /\ pend'[s].changes = pend[s].changes \cup {Announced(s)}
         /\ tx' \in [Session -> Push]
         /\ tx'[s].pc = IF tx[s].i = Len(tx[s].batch) THEN "finish" ELSE "max_seq"
         /\ tx'[s].i = tx[s].i + 1 /\ tx'[s].batch = tx[s].batch /\ tx'[s].base = tx[s].base
         /\ tx'[s].conflicts = tx[s].conflicts
         /\ tx'[s].applied = tx[s].applied \cup {Acked(s)} /\ Acked(s) \in Applied
         /\ nextSeq' = nextSeq + 1
         /\ UNCHANGED <<db, snap, responses, pushes, cursor, seen>>
<1> DEFINE t == [NextChange(tx[s]) EXCEPT !.applied = tx[s].applied \cup {Acked(s)}]
           p == [pend[s] EXCEPT !.changes = pend[s].changes \cup {Announced(s)}]
<1>1. tx[s].pc = "change" /\ Progress(s) /\ Working(s) /\ tx[s] \in Push /\ pend[s] \in Pending
  BY DEF InsertChange, BasicInv, ProgressInv, Working, TypeOK, TablesTypeOK
<1>2. Cur(s) \in Change /\ CurBase(s) \in Nat
  BY <1>1, CurType DEF BasicInv
<1>3. Cur(s).item \in Item /\ FeedOpOf(Cur(s).op) \in FeedOp
  BY <1>2 DEF Change, FeedOpOf, Op, FeedOp
<1>4. AnnouncedVersion(s) \in Nat
  <2>1. pend[s].rows[Cur(s).item] \in Row
    BY <1>1, <1>3 DEF Progress, IsRow, Pending
  <2> QED BY <2>1 DEF AnnouncedVersion, Row
<1>5. nextSeq \in Nat
  BY DEF BasicInv, TypeOK, TablesTypeOK
<1>6. Announced(s) \in ChangeEntry /\ Acked(s) \in Applied
  BY <1>2, <1>3, <1>4, <1>5 DEF Announced, Acked, ChangeEntry, Applied
<1>7. tx' = [tx EXCEPT ![s] = t] /\ nextSeq' = nextSeq + 1
      /\ UNCHANGED <<db, snap, responses, pushes, cursor, seen>>
  BY DEF InsertChange, Acked
<1>8. pend' = [pend EXCEPT ![s] = p]
  BY DEF InsertChange, Announced, BasicInv, TypeOK, TablesTypeOK, Pending
<1>9. /\ t \in Push
      /\ t.pc = IF tx[s].i = Len(tx[s].batch) THEN "finish" ELSE "max_seq"
      /\ t.i = tx[s].i + 1 /\ t.batch = tx[s].batch /\ t.base = tx[s].base
      /\ t.conflicts = tx[s].conflicts /\ t.applied = tx[s].applied \cup {Acked(s)}
  <2>1. NextChange(tx[s]) \in Push /\ tx[s].applied \cup {Acked(s)} \in SUBSET Applied
    BY <1>1, <1>6, NextChangeType DEF Push
  <2> QED BY <1>1, <2>1, NextChangeType DEF Push
<1>10. p \in Pending /\ p.rows = pend[s].rows
       /\ p.changes = pend[s].changes \cup {Announced(s)}
  BY <1>1, <1>6 DEF Pending
<1> HIDE DEF t, p
<1> QED BY <1>6, <1>7, <1>8, <1>9, <1>10 DEF BasicInv, TypeOK, TablesTypeOK

LEMMA InsertChangeBasic ==
  ASSUME BasicInv, NEW s \in Session, InsertChange(s)
  PROVE  BasicInv'
<1>1. TypeOK'
  BY InsertChangeEffect DEF BasicInv, TypeOK, TablesTypeOK
<1>2. Progress(s) /\ Working(s) /\ tx[s] \in Push
  BY DEF BasicInv, ProgressInv, TypeOK, InsertChange, Working
<1>3. tx[s].i \in 1 .. Len(tx[s].batch) /\ Len(tx[s].batch) \in Nat
  BY <1>2, CurType DEF BasicInv, Progress
<1>4. Progress(s)'
  BY <1>2, <1>3, InsertChangeEffect DEF Progress, Working
<1>5. ProgressInv'
  BY <1>4, InsertChangeEffect, ProgressLocal DEF BasicInv
<1>6. SeqInv'
  <2>1. nextSeq \in Nat /\ nextSeq' = nextSeq + 1 /\ db' = db
    BY InsertChangeEffect DEF BasicInv, TypeOK, TablesTypeOK
  <2>2. \A c \in db.changes : c.seq \in Nat /\ c.seq < nextSeq
    BY DEF BasicInv, TypeOK, TablesTypeOK, Tables, ChangeEntry, SeqInv
  <2>3. \A u \in Session : \A c \in pend[u].changes : c.seq \in Nat /\ c.seq < nextSeq
    BY DEF BasicInv, TypeOK, TablesTypeOK, Pending, ChangeEntry, SeqInv
  <2>4. ASSUME NEW u \in Session, NEW c \in pend'[u].changes PROVE c.seq < nextSeq'
    <3>1. c \in pend[u].changes \/ c = Announced(s)
      BY InsertChangeEffect
    <3>2. Announced(s).seq = nextSeq
      BY DEF Announced
    <3> QED BY <2>1, <2>3, <3>1, <3>2
  <2> QED BY <2>1, <2>2, <2>4 DEF SeqInv
<1> QED BY <1>1, <1>5, <1>6 DEF BasicInv

-----------------------------------------------------------------------------
(* Rows stay *)

LEMMA StayLocal ==
  ASSUME BasicInv, StayInv, NEW s \in Session, Stay(s)',
         \A t \in Session \ {s} : tx'[t] = tx[t] /\ pend'[t] = pend[t] /\ snap'[t] = snap[t],
         \A i \in Item : IsRow(db.items[i]) => IsRow(db'.items[i])
  PROVE  StayInv'
<1> SUFFICES ASSUME NEW t \in Session, t # s PROVE Stay(t)'
  BY DEF StayInv
<1>1. Stay(t) /\ Progress(t) /\ (Working(t) => Cur(t).item \in Item)
  BY CurType DEF StayInv, BasicInv, ProgressInv, Change
<1>2. Cur(t)' = Cur(t) /\ Working(t)' = Working(t)
  BY DEF Cur, Working
<1> QED BY <1>1, <1>2 DEF Stay, RowIn, Working

LEMMA StayStep ==
  ASSUME BasicInv, StayInv, [Next]_vars
  PROVE  StayInv'
<1> USE DEF BasicInv, TypeOK, TablesTypeOK
<1>1. ASSUME NEW s \in Session, Abort(s) PROVE StayInv'
  <2>1. Stay(s)'
    BY <1>1 DEF Abort, Stay, Working, Idle
  <2> QED BY <1>1, <2>1, StayLocal DEF Abort
<1>2. ASSUME NEW s \in Session, Working(s), Conflict(s), Reading PROVE StayInv'
  <2>1. tx[s] \in Push /\ Stay(s)
    BY DEF StayInv
  <2> DEFINE t == [NextChange(tx[s]) EXCEPT !.conflicts = tx[s].conflicts \cup {tx[s].i}]
  <2>2. t.pc = IF tx[s].i = Len(tx[s].batch) THEN "finish" ELSE "max_seq"
    BY <2>1, NextChangeType DEF Push
  <2>3. tx' = [tx EXCEPT ![s] = t]
    BY <1>2 DEF Conflict
  <2> HIDE DEF t
  <2>4. Stay(s)'
    BY <1>2, <2>1, <2>2, <2>3 DEF Stay, Working, Reading, tableVars
  <2> QED BY <1>2, <2>3, <2>4, StayLocal DEF Reading, tableVars
<1>3. ASSUME NEW s \in Session, NEW b \in Batches, NEW base \in [1 .. Len(b) -> BaseSeqs],
             Begin(s, b, base)
      PROVE StayInv'
  <2>1. tx'[s].pc = "max_seq" /\ (Isolation = "repeatable_read" => snap'[s] = db) /\ db' = db
    BY <1>3 DEF Begin, Idle, tableVars
  <2>2. Stay(s)'
    BY <2>1 DEF Stay, Working
  <2> QED BY <1>3, <2>2, StayLocal DEF Begin, tableVars
<1>4. ASSUME NEW s \in Session, Working(s), Goto(s, "row"), Reading PROVE StayInv'
  <2>1. tx'[s].pc = "row" /\ Stay(s)
    BY <1>4 DEF Goto, StayInv, Push
  <2>2. Stay(s)'
    BY <1>4, <2>1 DEF Stay, Working, Reading, tableVars
  <2> QED BY <1>4, <2>2, StayLocal DEF Goto, Reading, tableVars
<1>5. ASSUME NEW s \in Session, NEW pc \in {"path", "write"}, tx[s].pc = "row", Reading,
             Cur(s).op = "create" \/ IsRow(RowSeen(s)),
             tx' = [tx EXCEPT ![s].row = RowSeen(s), ![s].pc = pc]
      PROVE StayInv'
  <2>1. tx[s] \in Push /\ Working(s) /\ Stay(s) /\ Progress(s)
    BY <1>5 DEF Working, StayInv, ProgressInv
  <2>2. tx'[s].pc = pc /\ tx'[s].batch = tx[s].batch /\ tx'[s].i = tx[s].i
    BY <1>5, <2>1 DEF Push
  <2>3. Cur(s)' = Cur(s) /\ db' = db /\ pend' = pend /\ snap' = snap
    BY <1>5, <2>2 DEF Cur, Reading, tableVars
  <2>4. Cur(s).item \in Item
    BY <2>1, CurType DEF Change
  <2>5. IsRow(RowSeen(s)) => IsRow(RowIn(db, pend[s], Cur(s).item))
    BY <2>1, <2>4, IsolationAssumption DEF RowSeen, View, RowIn, Stay
  <2>6. Stay(s)'
    BY <1>5, <2>1, <2>2, <2>3, <2>5 DEF Stay, Working
  <2> QED BY <1>5, <2>6, StayLocal DEF Reading, tableVars
<1>6. ASSUME NEW s \in Session, tx[s].pc = "path", Goto(s, "write"), Reading PROVE StayInv'
  <2>1. tx[s] \in Push /\ Stay(s)
    BY DEF StayInv
  <2>2. tx'[s].pc = "write" /\ tx'[s].batch = tx[s].batch /\ tx'[s].i = tx[s].i
    BY <1>6, <2>1 DEF Goto, Push
  <2>3. Cur(s)' = Cur(s) /\ db' = db /\ pend' = pend /\ snap' = snap
    BY <1>6, <2>2 DEF Cur, Reading, tableVars
  <2>4. Stay(s)'
    BY <1>6, <2>1, <2>2, <2>3 DEF Stay, Working
  <2> QED BY <1>6, <2>4, StayLocal DEF Goto, Reading, tableVars
<1>7. ASSUME NEW s \in Session, Write(s), ~Abort(s) PROVE StayInv'
  <2>1. Stay(s)'
    BY <1>7, WriteEffect DEF Stay, Working, Write, StayInv
  <2> QED BY <1>7, <2>1, WriteEffect, StayLocal
<1>8. ASSUME NEW s \in Session, InsertChange(s) PROVE StayInv'
  <2>1. Stay(s)'
    <3>1. Stay(s) /\ tx[s].pc = "change"
      BY <1>8 DEF InsertChange, StayInv
    <3>2. tx'[s].pc \in {"finish", "max_seq"} /\ db' = db /\ snap' = snap
      BY <1>8, InsertChangeEffect
    <3> QED BY <3>1, <3>2 DEF Stay, Working
  <2> QED BY <1>8, <2>1, InsertChangeEffect, StayLocal
<1>9. ASSUME NEW s \in Session, Finish(s) PROVE StayInv'
  <2>1. tx[s] \in Push
    OBVIOUS
  <2>2. tx'[s].pc = "cursor"
    BY <1>9, <2>1 DEF Finish, Push
  <2>3. Stay(s)'
    BY <2>2 DEF Stay, Working
  <2>4. \A i \in Item : IsRow(db.items[i]) => IsRow(db'.items[i])
    BY <1>9 DEF Finish, Merged, RowIn
  <2> QED BY <1>9, <2>3, <2>4, StayLocal DEF Finish
<1>10. ASSUME NEW s \in Session, Respond(s) PROVE StayInv'
  <2>1. Stay(s)'
    BY <1>10 DEF Respond, Stay, Working, Idle
  <2> QED BY <1>10, <2>1, StayLocal DEF Respond, tableVars
<1>11. ASSUME UNCHANGED <<tableVars, pushVars>> PROVE StayInv'
  BY <1>11 DEF StayInv, Stay, Working, Cur, RowIn, tableVars, pushVars
<1>12. ASSUME NEW s \in Session, ReadMaxSeq(s) PROVE StayInv'
  BY <1>2, <1>4, <1>12 DEF ReadMaxSeq, Working
<1>13. ASSUME NEW s \in Session, ReadRow(s) PROVE StayInv'
  BY <1>1, <1>2, <1>5, <1>13 DEF ReadRow, Working
<1>14. ASSUME NEW s \in Session, CheckPath(s) PROVE StayInv'
  BY <1>2, <1>6, <1>14 DEF CheckPath, Working
<1>15. ASSUME NEW s \in Session, DbFault(s) \/ DeadlockVictim(s) PROVE StayInv'
  BY <1>1, <1>15 DEF DbFault, DeadlockVictim
<1>16. ASSUME NEW r \in Reader, Pull(r) PROVE StayInv'
  BY <1>11, <1>16 DEF Pull
<1>17. CASE UNCHANGED vars
  BY <1>11, <1>17 DEF vars
<1> QED BY <1>1, <1>3, <1>7, <1>8, <1>9, <1>10, <1>12, <1>13, <1>14, <1>15, <1>16, <1>17
        DEF Next, PushStep

LEMMA BasicStep ==
  ASSUME BasicInv, StayInv, [Next]_vars
  PROVE  BasicInv'
<1>1. CASE UNCHANGED vars
  BY <1>1 DEF vars, tableVars, pushVars, BasicInv, TypeOK, TablesTypeOK, SeqInv,
              ProgressInv, Progress, Working, Cur, Incomplete
<1>2. ASSUME NEW s \in Session, DbFault(s) \/ DeadlockVictim(s) PROVE BasicInv'
  BY <1>2, AbortBasic DEF DbFault, DeadlockVictim
<1> QED BY <1>1, <1>2, BeginBasic, ReadMaxSeqBasic, ReadRowBasic, CheckPathBasic, WriteBasic,
           InsertChangeBasic, FinishBasic, RespondBasic, PullBasic DEF Next, PushStep

LEMMA InitBasic == Init => BasicInv /\ StayInv
<1> SUFFICES ASSUME Init PROVE BasicInv /\ StayInv
  OBVIOUS
<1>1. EmptyTables \in Tables
  BY DEF EmptyTables, Tables
<1>2. TypeOK
  BY <1>1, IdleType, NothingPendingType DEF Init, TablesInit, TypeOK, TablesTypeOK
<1>3. \A s \in Session : tx[s] = Idle /\ pend[s] = NothingPending
  BY DEF Init, TablesInit
<1>4. ProgressInv /\ StayInv
  BY <1>3 DEF ProgressInv, Progress, StayInv, Stay, Working, Idle
<1>5. SeqInv
  BY <1>3 DEF Init, TablesInit, EmptyTables, NothingPending, SeqInv
<1> QED BY <1>2, <1>4, <1>5 DEF BasicInv

\* Every reachable state of the tables, the open transactions, the responses
\* and the cursors has its type, for every isolation level, set of batches and
\* number of sessions: the statements of apply_change always find the rows,
\* fields and sequence numbers they use (no unwrap on a missing row).
THEOREM TypeCorrect == Spec => []TypeOK
<1>1. BasicInv /\ StayInv /\ [Next]_vars => BasicInv' /\ StayInv'
  BY BasicStep, StayStep
<1>2. BasicInv => TypeOK
  BY DEF BasicInv
<1> QED BY <1>1, <1>2, InitBasic, PTL DEF Spec

-----------------------------------------------------------------------------
(* Versions *)

\* An update, a restore and a delete all announce the version after the one read.
LEMMA NewRowVersion ==
  ASSUME NEW c \in Change, NEW row \in Row, NEW cur \in Row, c.op # "create"
  PROVE  NewRow(c, row, cur).version = row.version + 1
BY DEF NewRow, UpdatedRow, DeletedRow, Row

\* A step of s that commits nothing disturbs only what is said of s.
LEMMA SafeLocal ==
  ASSUME SafeInv, NEW s \in Session, db' = db, FreshRow(s)', FreshChanges(s)',
         \A t \in Session \ {s} : tx'[t] = tx[t] /\ pend'[t] = pend[t] /\ snap'[t] = snap[t],
         \A i \in Item : IsRow(pend'[s].rows[i]) =>
           \/ IsRow(pend[s].rows[i])
           \/ \A t \in Session \ {s} : ~IsRow(pend[t].rows[i])
  PROVE  SafeInv'
<1>1. LockInv'
  BY DEF SafeInv, LockInv
<1>2. ASSUME NEW t \in Session, t # s PROVE FreshRow(t)' /\ FreshChanges(t)'
  <2>1. FreshRow(t) /\ FreshChanges(t)
    BY DEF SafeInv, FreshInv
  <2>2. Cur(t)' = Cur(t)
    BY <1>2 DEF Cur
  <2>3. tx'[t] = tx[t] /\ pend'[t] = pend[t] /\ snap'[t] = snap[t]
    BY <1>2
  <2>4. FreshRow(t)'
    BY <2>1, <2>2, <2>3 DEF FreshRow, RowIn
  <2>5. FreshChanges(t)'
    BY <2>1, <2>2, <2>3 DEF FreshChanges
  <2> QED BY <2>4, <2>5
<1>3. CommittedInv'
  BY DEF SafeInv, CommittedInv, VersionsUnique
<1> QED BY <1>1, <1>2, <1>3 DEF SafeInv, FreshInv

\* The same for a step that leaves the written rows alone.
LEMMA SafeReading ==
  ASSUME SafeInv, NEW s \in Session, db' = db, pend' = pend, snap' = snap,
         \A t \in Session \ {s} : tx'[t] = tx[t],
         tx'[s].pc # "change",
         tx'[s].pc \in {"path", "write"} =>
           tx'[s].row = RowIn(snap[s], pend[s], Cur(s).item) /\ Cur(s)' = Cur(s)
  PROVE  SafeInv'
<1>1. FreshRow(s) /\ FreshChanges(s)
  BY DEF SafeInv, FreshInv
<1>2. FreshRow(s)'
  BY <1>1 DEF FreshRow, RowIn
<1>3. FreshChanges(s)'
  BY <1>1 DEF FreshChanges
<1> QED BY <1>2, <1>3, SafeLocal

\* Nothing is said of a session with nothing pending.
LEMMA SafeNothing ==
  ASSUME SafeInv, NEW s \in Session, db' = db, pend'[s] = NothingPending,
         tx'[s].pc \notin {"path", "write"},
         \A t \in Session \ {s} : tx'[t] = tx[t] /\ pend'[t] = pend[t] /\ snap'[t] = snap[t]
  PROVE  SafeInv'
<1>1. pend'[s].changes = {} /\ \A i \in Item : ~IsRow(pend'[s].rows[i])
  BY DEF NothingPending, IsRow
<1>2. FreshRow(s)' /\ FreshChanges(s)'
  BY <1>1 DEF FreshRow, FreshChanges
<1> QED BY <1>1, <1>2, SafeLocal

LEMMA WriteSafe ==
  ASSUME BasicInv, StayInv, SafeInv, Isolation = "repeatable_read",
         NEW s \in Session, Write(s), ~Abort(s)
  PROVE  SafeInv'
<1> DEFINE i == Cur(s).item
<1>1. tx[s].pc = "write" /\ Progress(s) /\ Stay(s) /\ Working(s)
  BY DEF Write, BasicInv, ProgressInv, StayInv, Working
<1>2. WriteRow(s) \in Row /\ i \in Item /\ Cur(s) \in Change
  BY <1>1, WriteRowType, CurType DEF BasicInv
<1>3. FreshRow(s) /\ FreshChanges(s)
  BY DEF SafeInv, FreshInv
<1>4. /\ db.items[i] = snap[s].items[i]
      /\ Cur(s).op = "create" => ~IsRow(RowIn(db, pend[s], i))
      /\ \A t \in Session : ~RowHeldBy(s, t, i)
  BY <1>1 DEF Write, StaleWrite, WaitsFor
<1>5. /\ IsRow(pend[s].rows[i]) => /\ pend[s].rows[i] \in Row
                                  /\ WriteRow(s).version > pend[s].rows[i].version
      /\ IsRow(db.items[i]) => db.items[i].version < WriteRow(s).version
  <2>1. db.items[i] \in Row \cup {NoRow} /\ pend[s].rows[i] \in Row \cup {NoRow}
        /\ tx[s].row \in Row \cup {NoRow}
    BY <1>2 DEF BasicInv, TypeOK, TablesTypeOK, Tables, Pending, Push
  <2>2. CASE Cur(s).op = "create"
    BY <1>4, <2>1, <2>2 DEF RowIn
  <2>3. CASE Cur(s).op # "create"
    <3>1. tx[s].row \in Row /\ tx[s].row = RowIn(db, pend[s], i)
      BY <1>1, <1>3, <1>4, <2>1, <2>3 DEF Progress, FreshRow, RowIn, IsRow
    <3>2. WriteRow(s).version = tx[s].row.version + 1
      BY <1>2, <2>3, <3>1, NewRowVersion DEF WriteRow
    <3>3. tx[s].row.version \in Nat
      BY <3>1 DEF Row
    <3>4. CASE IsRow(pend[s].rows[i])
      <4>1. tx[s].row = pend[s].rows[i] /\ pend[s].rows[i] \in Row
        BY <2>1, <3>1, <3>4 DEF RowIn, IsRow
      <4>2. IsRow(db.items[i]) => /\ db.items[i].version \in Nat
                                  /\ db.items[i].version < tx[s].row.version
        BY <1>2, <1>3, <2>1, <3>4, <4>1 DEF FreshRow, Row, IsRow
      <4> QED BY <3>2, <3>3, <4>1, <4>2
    <3>5. CASE ~IsRow(pend[s].rows[i])
      BY <3>1, <3>2, <3>3, <3>5 DEF RowIn
    <3> QED BY <3>4, <3>5
  <2> QED BY <2>2, <2>3
<1>6. Cur(s)' = Cur(s) /\ tx'[s].pc = "change" /\ db' = db /\ snap' = snap
  BY WriteEffect DEF Cur
<1>7. /\ pend'[s].rows[i] = WriteRow(s)
      /\ \A j \in Item : j # i => pend'[s].rows[j] = pend[s].rows[j]
      /\ pend'[s].changes = pend[s].changes
  <2>1. pend[s].rows \in [Item -> Row \cup {NoRow}]
    BY DEF BasicInv, TypeOK, TablesTypeOK, Pending
  <2> QED BY <1>2, <2>1, WriteEffect
<1> HIDE DEF i
<1>8. FreshRow(s)'
  BY <1>2, <1>3, <1>4, <1>5, <1>6, <1>7 DEF FreshRow, IsRow
<1>9. FreshChanges(s)'
  <2>1. ASSUME NEW c \in pend[s].changes
        PROVE  /\ IsRow(pend'[s].rows[c.item])
               /\ c.version <= pend'[s].rows[c.item].version
               /\ c.item = i => c.version < pend'[s].rows[c.item].version
    <3>1. c.item \in Item /\ c.version \in Nat
      BY DEF BasicInv, TypeOK, TablesTypeOK, Pending, ChangeEntry
    <3>2. IsRow(pend[s].rows[c.item]) /\ c.version <= pend[s].rows[c.item].version
      BY <1>3 DEF FreshChanges
    <3>3. CASE c.item = i
      <4>1. WriteRow(s).version \in Nat /\ pend[s].rows[i].version \in Nat
            /\ WriteRow(s).version > pend[s].rows[i].version
        BY <1>2, <1>5, <3>2, <3>3 DEF Row
      <4>2. IsRow(WriteRow(s))
        BY <1>2, NoRowAssumption DEF IsRow
      <4> QED BY <1>7, <3>1, <3>2, <3>3, <4>1, <4>2
    <3>4. CASE c.item # i
      BY <1>7, <3>1, <3>2, <3>4
    <3> QED BY <3>3, <3>4
  <2> QED BY <1>3, <1>6, <1>7, <2>1 DEF FreshChanges, i
<1>10. \A j \in Item : IsRow(pend'[s].rows[j]) =>
         \/ IsRow(pend[s].rows[j])
         \/ \A t \in Session \ {s} : ~IsRow(pend[t].rows[j])
  BY <1>4, <1>7 DEF RowHeldBy
<1> QED BY <1>6, <1>8, <1>9, <1>10, WriteEffect, SafeLocal

LEMMA InsertChangeSafe ==
  ASSUME BasicInv, SafeInv, NEW s \in Session, InsertChange(s)
  PROVE  SafeInv'
<1> DEFINE i == Cur(s).item
           n == Announced(s)
<1>1. tx[s].pc = "change" /\ Progress(s) /\ Working(s)
  BY DEF InsertChange, BasicInv, ProgressInv, Working
<1>2. i \in Item /\ IsRow(pend[s].rows[i])
  BY <1>1, CurType DEF BasicInv, Change, Progress
<1>3. FreshRow(s) /\ FreshChanges(s)
  BY DEF SafeInv, FreshInv
<1>4. n.item = i /\ n.version = pend[s].rows[i].version /\ n.version \in Nat
  <2>1. n \in ChangeEntry
    BY InsertChangeEffect
  <2> QED BY <2>1 DEF Announced, AnnouncedVersion, ChangeEntry
<1>5. /\ db' = db /\ snap' = snap /\ pend'[s].rows = pend[s].rows
      /\ pend'[s].changes = pend[s].changes \cup {n}
      /\ tx'[s].pc \in {"finish", "max_seq"}
  BY InsertChangeEffect
<1> HIDE DEF n, i
<1>6. FreshRow(s)'
  BY <1>3, <1>5 DEF FreshRow
<1>7. \A c \in pend[s].changes : c.item = i => c.version # n.version
  <2> SUFFICES ASSUME NEW c \in pend[s].changes, c.item = i PROVE c.version # n.version
    OBVIOUS
  <2>1. c.version < pend[s].rows[i].version
    BY <1>1, <1>3 DEF FreshChanges, i
  <2>2. c.version \in Nat
    BY DEF BasicInv, TypeOK, TablesTypeOK, Pending, ChangeEntry
  <2> QED BY <1>4, <2>1, <2>2
<1>8. FreshChanges(s)'
  <2>1. ASSUME NEW c \in pend'[s].changes
        PROVE  /\ IsRow(pend[s].rows[c.item])
               /\ c.version <= pend[s].rows[c.item].version
               /\ IsRow(db.items[c.item]) => db.items[c.item].version < c.version
    <3>1. CASE c \in pend[s].changes
      BY <1>3, <3>1 DEF FreshChanges
    <3>2. CASE c = n
      BY <1>2, <1>3, <1>4, <3>2 DEF FreshRow
    <3> QED BY <1>5, <3>1, <3>2
  <2>2. ASSUME NEW c \in pend'[s].changes, NEW d \in pend'[s].changes,
               c.item = d.item, c.version = d.version
        PROVE  c.seq = d.seq
    BY <1>3, <1>4, <1>5, <1>7, <2>2 DEF FreshChanges
  <2> QED BY <1>5, <2>1, <2>2 DEF FreshChanges
<1> QED BY <1>5, <1>6, <1>8, InsertChangeEffect, SafeLocal

LEMMA FinishSafe ==
  ASSUME BasicInv, SafeInv, NEW s \in Session, Finish(s)
  PROVE  SafeInv'
<1> USE DEF BasicInv, TypeOK, TablesTypeOK
<1>1. tx[s] \in Push
  OBVIOUS
<1>2. /\ tx'[s].pc = "cursor" /\ pend'[s] = NothingPending
      /\ \A t \in Session \ {s} : tx'[t] = tx[t] /\ pend'[t] = pend[t] /\ snap'[t] = snap[t]
  BY <1>1 DEF Finish, Push
<1>3. CASE db' = db
  BY <1>2, <1>3, SafeNothing
<1>4. CASE db' = Merged(db, pend[s])
  <2>1. /\ \A i \in Item : db'.items[i] = IF IsRow(pend[s].rows[i]) THEN pend[s].rows[i]
                                           ELSE db.items[i]
        /\ db'.changes = db.changes \cup pend[s].changes
    BY <1>4 DEF Merged, RowIn, ChangesIn
  <2>2. FreshRow(s) /\ FreshChanges(s) /\ CommittedInv /\ LockInv
    BY DEF SafeInv, FreshInv
  <2>3. \A t \in Session \ {s} : \A i \in Item :
          IsRow(pend[t].rows[i]) => db'.items[i] = db.items[i]
    BY <2>1, <2>2 DEF LockInv
  <2>4. pend'[s].changes = {} /\ \A i \in Item : ~IsRow(pend'[s].rows[i])
    BY <1>2 DEF NothingPending, IsRow
  <2>5. LockInv'
    BY <1>2, <2>2, <2>4 DEF LockInv
  <2>6. FreshRow(s)' /\ FreshChanges(s)'
    BY <1>2, <2>4 DEF FreshRow, FreshChanges
  <2>7. ASSUME NEW t \in Session, t # s PROVE FreshRow(t)' /\ FreshChanges(t)'
    <3>1. FreshRow(t) /\ FreshChanges(t) /\ Cur(t)' = Cur(t)
      BY <1>2, <2>7 DEF SafeInv, FreshInv, Cur
    <3>2. tx'[t] = tx[t] /\ pend'[t] = pend[t] /\ snap'[t] = snap[t]
      BY <1>2, <2>7
    <3>3. \A c \in pend[t].changes : c.item \in Item
      BY DEF Pending, ChangeEntry
    <3>4. FreshRow(t)'
      BY <2>3, <2>7, <3>1, <3>2 DEF FreshRow, RowIn
    <3>5. FreshChanges(t)'
      BY <2>3, <2>7, <3>1, <3>2, <3>3 DEF FreshChanges
    <3> QED BY <3>4, <3>5
  <2>8. ASSUME NEW c \in db.changes
        PROVE  /\ c.item \in Item /\ c.version \in Nat /\ IsRow(db.items[c.item])
               /\ db.items[c.item].version \in Nat
               /\ c.version <= db.items[c.item].version
    <3>1. c.item \in Item /\ c.version \in Nat /\ IsRow(db.items[c.item])
          /\ c.version <= db.items[c.item].version
      BY <2>2 DEF Tables, ChangeEntry, CommittedInv
    <3>2. db.items[c.item] \in Row
      BY <3>1 DEF Tables, IsRow
    <3> QED BY <3>1, <3>2 DEF Row
  <2>9. ASSUME NEW c \in pend[s].changes
        PROVE  /\ c.item \in Item /\ c.version \in Nat /\ IsRow(pend[s].rows[c.item])
               /\ c.version <= pend[s].rows[c.item].version
               /\ IsRow(db.items[c.item]) => db.items[c.item].version < c.version
    BY <2>2 DEF Pending, ChangeEntry, FreshChanges
  <2>10. ASSUME NEW c \in db'.changes
         PROVE  IsRow(db'.items[c.item]) /\ c.version <= db'.items[c.item].version
    <3>1. CASE c \in pend[s].changes
      BY <2>1, <2>9, <3>1
    <3>2. CASE c \in db.changes /\ ~IsRow(pend[s].rows[c.item])
      BY <2>1, <2>8, <3>2
    <3>3. CASE c \in db.changes /\ IsRow(pend[s].rows[c.item])
      <4>1. c.item \in Item /\ c.version \in Nat /\ db.items[c.item].version \in Nat
            /\ c.version <= db.items[c.item].version /\ IsRow(db.items[c.item])
        BY <2>8, <3>3
      <4>2. db.items[c.item].version < pend[s].rows[c.item].version
        BY <2>2, <3>3, <4>1 DEF FreshRow
      <4>3. pend[s].rows[c.item].version \in Nat
        BY <3>3, <4>1 DEF Pending, IsRow, Row
      <4> QED BY <2>1, <3>3, <4>1, <4>2, <4>3
    <3> QED BY <2>1, <3>1, <3>2, <3>3
  <2>11. ASSUME NEW c \in db.changes, NEW d \in pend[s].changes, c.item = d.item
         PROVE  c.version # d.version
    BY <2>8, <2>9, <2>11
  <2>12. VersionsUnique'
    BY <2>1, <2>2, <2>11 DEF VersionsUnique, CommittedInv, FreshChanges
  <2> QED BY <2>5, <2>6, <2>7, <2>10, <2>12 DEF SafeInv, FreshInv, CommittedInv
<1> QED BY <1>3, <1>4 DEF Finish

LEMMA SafeStep ==
  ASSUME BasicInv, StayInv, SafeInv, Isolation = "repeatable_read", [Next]_vars
  PROVE  SafeInv'
<1> USE DEF BasicInv, TypeOK, TablesTypeOK
<1>1. ASSUME NEW s \in Session, Abort(s) PROVE SafeInv'
  <2>1. db' = db /\ pend'[s] = NothingPending /\ tx'[s].pc = "idle"
    BY <1>1 DEF Abort, Idle
  <2> QED BY <1>1, <2>1, SafeNothing DEF Abort
<1>2. ASSUME NEW s \in Session, Working(s), Conflict(s), Reading PROVE SafeInv'
  <2> DEFINE t == [NextChange(tx[s]) EXCEPT !.conflicts = tx[s].conflicts \cup {tx[s].i}]
  <2>1. tx[s] \in Push
    OBVIOUS
  <2>2. t.pc = IF tx[s].i = Len(tx[s].batch) THEN "finish" ELSE "max_seq"
    BY <2>1, NextChangeType DEF Push
  <2>3. tx' = [tx EXCEPT ![s] = t]
    BY <1>2 DEF Conflict
  <2> HIDE DEF t
  <2>4. tx'[s].pc \in {"finish", "max_seq"} /\ db' = db /\ pend' = pend /\ snap' = snap
        /\ \A u \in Session \ {s} : tx'[u] = tx[u]
    BY <1>2, <2>2, <2>3 DEF Reading, tableVars
  <2> QED BY <2>4, SafeReading
<1>3. ASSUME NEW s \in Session, NEW b \in Batches, NEW base \in [1 .. Len(b) -> BaseSeqs],
             Begin(s, b, base)
      PROVE SafeInv'
  <2>1. pend'[s] = NothingPending /\ tx'[s].pc = "max_seq" /\ db' = db
    BY <1>3 DEF Begin, ProgressInv, Progress, Idle, tableVars
  <2> QED BY <1>3, <2>1, SafeNothing DEF Begin, tableVars
<1>4. ASSUME NEW s \in Session, Goto(s, "row"), Reading PROVE SafeInv'
  <2>1. tx'[s].pc = "row"
    BY <1>4 DEF Goto, Push
  <2> QED BY <1>4, <2>1, SafeReading DEF Goto, Reading, tableVars
<1>5. ASSUME NEW s \in Session, NEW pc \in {"path", "write"}, Reading,
             tx' = [tx EXCEPT ![s].row = RowSeen(s), ![s].pc = pc]
      PROVE SafeInv'
  <2>1. tx[s] \in Push
    OBVIOUS
  <2>2. tx'[s].pc = pc /\ tx'[s].row = RowSeen(s) /\ tx'[s].batch = tx[s].batch
        /\ tx'[s].i = tx[s].i
    BY <1>5, <2>1 DEF Push
  <2>3. Cur(s)' = Cur(s) /\ RowSeen(s) = RowIn(snap[s], pend[s], Cur(s).item)
    BY <2>2 DEF Cur, RowSeen, View
  <2> QED BY <1>5, <2>2, <2>3, SafeReading DEF Reading, tableVars
<1>6. ASSUME NEW s \in Session, tx[s].pc = "path", Goto(s, "write"), Reading PROVE SafeInv'
  <2>1. tx[s] \in Push /\ FreshRow(s)
    BY DEF SafeInv, FreshInv
  <2>2. tx'[s].pc = "write" /\ tx'[s].row = tx[s].row /\ tx'[s].batch = tx[s].batch
        /\ tx'[s].i = tx[s].i
    BY <1>6, <2>1 DEF Goto, Push
  <2>3. Cur(s)' = Cur(s) /\ tx[s].row = RowIn(snap[s], pend[s], Cur(s).item)
    BY <1>6, <2>1, <2>2 DEF Cur, FreshRow
  <2> QED BY <1>6, <2>2, <2>3, SafeReading DEF Goto, Reading, tableVars
<1>7. ASSUME NEW s \in Session, Respond(s) PROVE SafeInv'
  <2>1. pend'[s] = NothingPending /\ tx'[s].pc = "idle" /\ db' = db
    BY <1>7 DEF Respond, ProgressInv, Progress, Idle, tableVars
  <2> QED BY <1>7, <2>1, SafeNothing DEF Respond, tableVars
<1>8. ASSUME UNCHANGED <<tableVars, pushVars>> PROVE SafeInv'
  <2>1. LockInv' /\ CommittedInv'
    BY <1>8 DEF SafeInv, LockInv, CommittedInv, VersionsUnique, tableVars
  <2>2. FreshInv'
    BY <1>8 DEF SafeInv, FreshInv, FreshRow, FreshChanges, Cur, RowIn, tableVars, pushVars
  <2> QED BY <2>1, <2>2 DEF SafeInv
<1>9. ASSUME NEW s \in Session, ReadMaxSeq(s) PROVE SafeInv'
  BY <1>2, <1>4, <1>9 DEF ReadMaxSeq, Working
<1>10. ASSUME NEW s \in Session, ReadRow(s) PROVE SafeInv'
  BY <1>1, <1>2, <1>5, <1>10 DEF ReadRow, Working
<1>11. ASSUME NEW s \in Session, CheckPath(s) PROVE SafeInv'
  BY <1>2, <1>6, <1>11 DEF CheckPath, Working
<1>12. ASSUME NEW s \in Session, DbFault(s) \/ DeadlockVictim(s) PROVE SafeInv'
  BY <1>1, <1>12 DEF DbFault, DeadlockVictim
<1>13. ASSUME NEW s \in Session, Write(s) PROVE SafeInv'
  BY <1>1, <1>13, WriteSafe
<1>14. ASSUME NEW s \in Session, InsertChange(s) \/ Finish(s) PROVE SafeInv'
  BY <1>14, InsertChangeSafe, FinishSafe
<1>15. CASE UNCHANGED vars \/ \E r \in Reader : Pull(r)
  BY <1>8, <1>15 DEF vars, Pull
<1> QED BY <1>3, <1>7, <1>9, <1>10, <1>11, <1>12, <1>13, <1>14, <1>15 DEF Next, PushStep

LEMMA InitSafe == Init => SafeInv
<1> SUFFICES ASSUME Init PROVE SafeInv
  OBVIOUS
<1>1. \A s \in Session : /\ tx[s].pc = "idle" /\ pend[s].changes = {}
                         /\ \A i \in Item : ~IsRow(pend[s].rows[i])
  BY DEF Init, TablesInit, Idle, NothingPending, IsRow
<1>2. db.changes = {}
  BY DEF Init, TablesInit, EmptyTables
<1> QED BY <1>1, <1>2 DEF SafeInv, LockInv, FreshInv, FreshRow, FreshChanges,
                          CommittedInv, VersionsUnique

\* Under REPEATABLE READ the change feed never announces the same version of
\* an item twice: whatever pushes are interleaved, each applied change was
\* computed from the row version it replaced, so no update is lost
\* (apply_tx_isolation, apply_change).
THEOREM RepeatableReadVersionsUnique ==
  ASSUME Isolation = "repeatable_read"
  PROVE  Spec => []VersionsUnique
<1>1. BasicInv /\ StayInv /\ SafeInv /\ [Next]_vars => BasicInv' /\ StayInv' /\ SafeInv'
  BY BasicStep, StayStep, SafeStep
<1>2. SafeInv => VersionsUnique
  BY DEF SafeInv, CommittedInv
<1> QED BY <1>1, <1>2, InitBasic, InitSafe, PTL DEF Spec

-----------------------------------------------------------------------------
(* What the steps of a push do, for the arguments about the feed *)

OthersKeep(s) ==
  \A t \in Session \ {s} : tx'[t] = tx[t] /\ pend'[t] = pend[t] /\ snap'[t] = snap[t]

\* Rolled back and forgotten.
Dropped(s) ==
  /\ OthersKeep(s) /\ UNCHANGED <<db, nextSeq, responses>>
  /\ tx'[s].pc = "idle" /\ tx'[s].applied = {} /\ pend'[s] = NothingPending

Started(s) ==
  /\ OthersKeep(s) /\ UNCHANGED <<tableVars, responses>>
  /\ tx'[s].pc = "max_seq" /\ tx'[s].batch \in Batches /\ tx'[s].i = 1
  /\ tx'[s].conflicts = {} /\ tx'[s].applied = {} /\ pend[s] = NothingPending
  /\ Isolation = "repeatable_read" => snap'[s] = db

\* The push reads: it goes on with the same change, or notes a conflict.
Moved(s) ==
  /\ OthersKeep(s) /\ UNCHANGED <<tableVars, snap, responses>>
  /\ tx[s].pc \in {"max_seq", "row", "path"}
  /\ tx'[s].applied = tx[s].applied /\ tx'[s].batch = tx[s].batch /\ tx'[s].base = tx[s].base
  /\ \/ /\ tx'[s].i = tx[s].i /\ tx'[s].conflicts = tx[s].conflicts
        /\ tx'[s].pc \in {"row", "path", "write"}
        /\ tx[s].pc = "max_seq" =>
             ~StaleBase(CurBase(s), MaxSeqOf(ChangesIn(View(s), pend[s]), Cur(s).item))
     \/ /\ tx'[s].i = tx[s].i + 1 /\ tx'[s].conflicts # {}
        /\ tx'[s].pc = IF tx[s].i = Len(tx[s].batch) THEN "finish" ELSE "max_seq"

LEMMA StepCases ==
  ASSUME BasicInv, StayInv, [Next]_vars
  PROVE  \/ UNCHANGED <<tableVars, pushVars>>
         \/ \E s \in Session :
              \/ Dropped(s) \/ Started(s) \/ Moved(s) \/ (Write(s) /\ ~Abort(s))
              \/ InsertChange(s) \/ Finish(s) \/ Respond(s)
<1>0. tx \in [Session -> Push] /\ snap \in [Session -> Tables \cup {None}]
      /\ pend \in [Session -> Pending] /\ ProgressInv
  BY DEF BasicInv, TypeOK, TablesTypeOK
<1>1. ASSUME NEW s \in Session, Abort(s) PROVE Dropped(s)
  BY <1>0, <1>1 DEF Abort, Dropped, OthersKeep, Idle
<1>2. ASSUME NEW s \in Session, tx[s].pc \in {"max_seq", "row", "path"}, Conflict(s), Reading
      PROVE  Moved(s)
  <2> DEFINE t == [NextChange(tx[s]) EXCEPT !.conflicts = tx[s].conflicts \cup {tx[s].i}]
  <2>1. tx[s] \in Push
    BY <1>0
  <2>2. /\ t.pc = IF tx[s].i = Len(tx[s].batch) THEN "finish" ELSE "max_seq"
        /\ t.i = tx[s].i + 1 /\ t.batch = tx[s].batch /\ t.base = tx[s].base
        /\ t.applied = tx[s].applied /\ t.conflicts # {}
    BY <2>1, NextChangeType DEF Push
  <2>3. tx' = [tx EXCEPT ![s] = t]
    BY <1>0, <1>2 DEF Conflict
  <2> HIDE DEF t
  <2>4. OthersKeep(s) /\ UNCHANGED <<tableVars, snap, responses>> /\ tx'[s] = t
    BY <1>0, <1>2, <2>3 DEF Reading, tableVars, OthersKeep
  <2> QED BY <1>0, <1>2, <2>2, <2>4 DEF Moved
<1>3. ASSUME NEW s \in Session, NEW b \in Batches, NEW base \in [1 .. Len(b) -> BaseSeqs],
             Begin(s, b, base)
      PROVE  Started(s)
  <2>1. /\ tx'[s].pc = "max_seq" /\ tx'[s].batch = b /\ tx'[s].i = 1
        /\ tx'[s].conflicts = {} /\ tx'[s].applied = {}
    BY <1>0, <1>3 DEF Begin, Idle
  <2>2. pend[s] = NothingPending
    BY <1>0, <1>3 DEF Begin, ProgressInv, Progress
  <2>3. OthersKeep(s) /\ UNCHANGED <<tableVars, responses>>
    BY <1>0, <1>3 DEF Begin, OthersKeep, tableVars
  <2>4. Isolation = "repeatable_read" => snap'[s] = db
    BY <1>0, <1>3 DEF Begin
  <2> QED BY <2>1, <2>2, <2>3, <2>4 DEF Started
<1>4. ASSUME NEW s \in Session, Reading, NEW pc \in {"row", "write"}, Goto(s, pc),
             \/ tx[s].pc = "path"
             \/ /\ tx[s].pc = "max_seq"
                /\ ~StaleBase(CurBase(s), MaxSeqOf(ChangesIn(View(s), pend[s]), Cur(s).item))
      PROVE  Moved(s)
  <2>1. tx[s] \in Push
    BY <1>0
  <2>2. /\ tx'[s].pc = pc /\ tx'[s].batch = tx[s].batch /\ tx'[s].i = tx[s].i
        /\ tx'[s].base = tx[s].base /\ tx'[s].applied = tx[s].applied
        /\ tx'[s].conflicts = tx[s].conflicts
    BY <1>0, <1>4, <2>1 DEF Goto, Push
  <2>3. OthersKeep(s) /\ UNCHANGED <<tableVars, snap, responses>>
    BY <1>0, <1>4 DEF Reading, tableVars, OthersKeep, Goto
  <2> QED BY <1>0, <1>4, <2>2, <2>3 DEF Moved
<1>5. ASSUME NEW s \in Session, NEW pc \in {"path", "write"}, tx[s].pc = "row", Reading,
             tx' = [tx EXCEPT ![s].row = RowSeen(s), ![s].pc = pc]
      PROVE  Moved(s)
  <2>1. tx[s] \in Push
    BY <1>0
  <2>2. /\ tx'[s].pc = pc /\ tx'[s].batch = tx[s].batch /\ tx'[s].i = tx[s].i
        /\ tx'[s].base = tx[s].base /\ tx'[s].applied = tx[s].applied
        /\ tx'[s].conflicts = tx[s].conflicts
    BY <1>0, <1>5, <2>1 DEF Push
  <2>3. OthersKeep(s) /\ UNCHANGED <<tableVars, snap, responses>>
    BY <1>0, <1>5 DEF Reading, tableVars, OthersKeep
  <2> QED BY <1>0, <1>5, <2>2, <2>3 DEF Moved
<1>6. ASSUME NEW s \in Session, ReadMaxSeq(s) PROVE Moved(s)
  BY <1>2, <1>4, <1>6 DEF ReadMaxSeq
<1>7. ASSUME NEW s \in Session, ReadRow(s) PROVE Moved(s) \/ Dropped(s)
  BY <1>1, <1>2, <1>5, <1>7 DEF ReadRow
<1>8. ASSUME NEW s \in Session, CheckPath(s) PROVE Moved(s)
  BY <1>2, <1>4, <1>8 DEF CheckPath
<1>9. ASSUME NEW s \in Session, DbFault(s) \/ DeadlockVictim(s) PROVE Dropped(s)
  BY <1>1, <1>9 DEF DbFault, DeadlockVictim
<1>10. CASE UNCHANGED vars \/ \E r \in Reader : Pull(r)
  BY <1>10 DEF vars, Pull
<1> QED BY <1>1, <1>3, <1>6, <1>7, <1>8, <1>9, <1>10 DEF Next, PushStep

-----------------------------------------------------------------------------
(* The feed announces the rows, under both isolation levels *)

\* Nobody else has the number of a change that is pending.
SeqsApart ==
  \A s \in Session : \A c \in pend[s].changes :
    /\ \A d \in db.changes : c.seq # d.seq
    /\ \A t \in Session \ {s} : \A d \in pend[t].changes : c.seq # d.seq

Newest(c, chs) == \A d \in chs : d.item = c.item => d.seq <= c.seq

\* The change that announces version v of item i, and is the newest of i.
Announces(chs, i, v) == \E c \in chs : c.item = i /\ c.version = v /\ Newest(c, chs)

\* The changes a push has inserted are those of rows it holds, newer than
\* everything committed for these rows; the newest one announces the row,
\* except between the UPDATE and the INSERT into changes.
FeedOf(s) ==
  /\ \A c \in pend[s].changes :
       /\ IsRow(pend[s].rows[c.item])
       /\ \A d \in db.changes : d.item = c.item => d.seq < c.seq
  /\ \A i \in Item :
       IsRow(pend[s].rows[i]) /\ ~(tx[s].pc = "change" /\ Cur(s).item = i) =>
         Announces(pend[s].changes, i, pend[s].rows[i].version)

FeedCommitted ==
  \A i \in Item : IsRow(db.items[i]) => Announces(db.changes, i, db.items[i].version)

Pushing(s) == Working(s) \/ tx[s].pc = "finish"

\* A push without conflict has inserted one change for each it has worked off.
Counted(s) ==
  Pushing(s) =>
    /\ tx[s].batch \in Batches
    /\ tx[s].pc = "finish" => tx[s].i = Len(tx[s].batch) + 1
    /\ tx[s].conflicts = {} =>
         /\ IsFiniteSet(pend[s].changes) /\ Cardinality(pend[s].changes) = tx[s].i - 1
         /\ \A c \in pend[s].changes : \E n \in 1 .. tx[s].i - 1 : tx[s].batch[n].item = c.item
         /\ \A n \in 1 .. tx[s].i - 1 : \E c \in pend[s].changes : tx[s].batch[n].item = c.item

FeedInv ==
  /\ LockInv /\ SeqsApart /\ FeedCommitted
  /\ \A s \in Session : FeedOf(s) /\ Counted(s)

\* The numbers of the changes, committed or pending.
LEMMA Seqs ==
  ASSUME BasicInv
  PROVE  /\ \A d \in db.changes : d \in ChangeEntry /\ d.item \in Item /\ d.seq \in Nat
                                  /\ d.seq < nextSeq
         /\ \A s \in Session : \A d \in pend[s].changes :
              d \in ChangeEntry /\ d.item \in Item /\ d.seq \in Nat /\ d.seq < nextSeq
         /\ nextSeq \in Nat
<1>1. /\ \A d \in db.changes : d \in ChangeEntry /\ d.seq < nextSeq
      /\ \A s \in Session : \A d \in pend[s].changes : d \in ChangeEntry /\ d.seq < nextSeq
      /\ nextSeq \in Nat
  BY DEF BasicInv, TypeOK, TablesTypeOK, Tables, Pending, SeqInv
<1> QED BY <1>1 DEF ChangeEntry

\* A step of s that commits nothing: the others' locks, numbers and changes
\* are what they were.
LEMMA FeedLocal ==
  ASSUME BasicInv, FeedInv, NEW s \in Session, db' = db, OthersKeep(s),
         FeedOf(s)', Counted(s)',
         \A c \in pend'[s].changes : c \in pend[s].changes \/ c.seq = nextSeq,
         \A i \in Item : IsRow(pend'[s].rows[i]) =>
           \/ IsRow(pend[s].rows[i])
           \/ \A t \in Session \ {s} : ~IsRow(pend[t].rows[i])
  PROVE  FeedInv'
<1>1. LockInv' /\ FeedCommitted'
  BY DEF FeedInv, LockInv, OthersKeep, FeedCommitted
<1>2. SeqsApart'
  <2>1. ASSUME NEW t \in Session, NEW u \in Session \ {t}, NEW c \in pend'[t].changes,
               NEW d \in pend'[u].changes
        PROVE  c.seq # d.seq
    <3>1. CASE t = s
      BY <2>1, <3>1, Seqs DEF FeedInv, SeqsApart, OthersKeep
    <3>2. CASE u = s
      BY <2>1, <3>2, Seqs DEF FeedInv, SeqsApart, OthersKeep
    <3>3. CASE t # s /\ u # s
      BY <2>1, <3>3 DEF FeedInv, SeqsApart, OthersKeep
    <3> QED BY <3>1, <3>2, <3>3
  <2>2. ASSUME NEW t \in Session, NEW c \in pend'[t].changes, NEW d \in db.changes
        PROVE  c.seq # d.seq
    <3>1. CASE t = s
      BY <2>2, <3>1, Seqs DEF FeedInv, SeqsApart
    <3>2. CASE t # s
      BY <2>2, <3>2 DEF FeedInv, SeqsApart, OthersKeep
    <3> QED BY <3>1, <3>2
  <2> QED BY <2>1, <2>2 DEF SeqsApart
<1>3. ASSUME NEW t \in Session, t # s PROVE FeedOf(t)' /\ Counted(t)'
  <2>1. tx'[t] = tx[t] /\ pend'[t] = pend[t] /\ FeedOf(t) /\ Counted(t)
    BY <1>3 DEF OthersKeep, FeedInv
  <2>2. Cur(t)' = Cur(t) /\ (Pushing(t)' <=> Pushing(t))
    BY <2>1 DEF Cur, Pushing, Working
  <2> QED BY <2>1, <2>2 DEF FeedOf, Counted
<1> QED BY <1>1, <1>2, <1>3 DEF FeedInv

LEMMA NothingPendingFeed ==
  ASSUME NEW s \in Session, pend[s] = NothingPending
  PROVE  pend[s].changes = {} /\ \A i \in Item : ~IsRow(pend[s].rows[i])
BY DEF NothingPending, IsRow

LEMMA ReadingFeed ==
  ASSUME BasicInv, FeedInv, NEW s \in Session, Dropped(s) \/ Started(s) \/ Moved(s)
  PROVE  FeedInv'
<1>1. FeedOf(s) /\ Counted(s)
  BY DEF FeedInv
<1>2. CASE Dropped(s)
  <2>1. pend'[s].changes = {} /\ \A i \in Item : ~IsRow(pend'[s].rows[i])
    BY <1>2 DEF Dropped, NothingPending, IsRow
  <2>2. FeedOf(s)' /\ Counted(s)'
    BY <1>2, <2>1 DEF Dropped, FeedOf, Counted, Pushing, Working
  <2> QED BY <1>2, <2>1, <2>2, FeedLocal DEF Dropped
<1>3. CASE Started(s)
  <2>1. db' = db /\ pend' = pend
    BY <1>3 DEF Started, tableVars
  <2>2. pend'[s].changes = {} /\ \A i \in Item : ~IsRow(pend'[s].rows[i])
    BY <1>3, <2>1, NothingPendingFeed DEF Started
  <2>3. FeedOf(s)'
    BY <2>2 DEF FeedOf
  <2>4. Counted(s)'
    BY <1>3, <2>2, FS_EmptySet DEF Started, Counted
  <2> QED BY <1>3, <2>1, <2>2, <2>3, <2>4, FeedLocal DEF Started
<1>4. CASE Moved(s)
  <2>1. db' = db /\ pend' = pend
    BY <1>4 DEF Moved, tableVars
  <2>2. Pushing(s) /\ tx[s].pc # "change" /\ tx'[s].pc # "change" /\ tx[s] \in Push
    BY <1>4 DEF Moved, Pushing, Working, BasicInv, TypeOK
  <2>3. FeedOf(s)'
    BY <1>1, <2>1, <2>2 DEF FeedOf
  <2>4. tx[s].i \in Nat /\ (tx'[s].pc = "finish" => tx'[s].i = Len(tx[s].batch) + 1)
    BY <1>4, <2>2 DEF Moved, Push
  <2>5. tx'[s].batch = tx[s].batch
        /\ (tx'[s].conflicts = {} => tx'[s].i = tx[s].i /\ tx[s].conflicts = {})
    BY <1>4 DEF Moved
  <2>6. Counted(s)'
    BY <1>1, <2>1, <2>2, <2>4, <2>5 DEF Counted
  <2> QED BY <1>4, <2>1, <2>3, <2>6, FeedLocal DEF Moved
<1> QED BY <1>2, <1>3, <1>4

LEMMA WriteFeed ==
  ASSUME BasicInv, StayInv, FeedInv, NEW s \in Session, Write(s), ~Abort(s)
  PROVE  FeedInv'
<1> DEFINE i == Cur(s).item
<1>1. tx[s].pc = "write" /\ \A t \in Session : ~RowHeldBy(s, t, i)
  BY DEF Write, WaitsFor
<1>2. WriteRow(s) \in Row /\ i \in Item /\ FeedOf(s) /\ Counted(s)
  BY <1>1, WriteRowType DEF FeedInv
<1>3. OthersKeep(s) /\ db' = db /\ Cur(s)' = Cur(s) /\ tx'[s].pc = "change"
  BY WriteEffect DEF OthersKeep, Cur
<1>4. /\ pend'[s].rows[i] = WriteRow(s) /\ IsRow(WriteRow(s))
      /\ \A j \in Item : j # i => pend'[s].rows[j] = pend[s].rows[j]
      /\ pend'[s].changes = pend[s].changes
  <2>1. pend[s].rows \in [Item -> Row \cup {NoRow}]
    BY DEF BasicInv, TypeOK, TablesTypeOK, Pending
  <2> QED BY <1>2, <2>1, WriteEffect, NoRowAssumption DEF IsRow
<1>5. \A c \in pend[s].changes : c.item \in Item
  BY Seqs
<1> HIDE DEF i
<1>6. FeedOf(s)'
  <2>1. ASSUME NEW c \in pend[s].changes
        PROVE  /\ IsRow(pend'[s].rows[c.item])
               /\ \A d \in db.changes : d.item = c.item => d.seq < c.seq
    BY <1>2, <1>4, <1>5 DEF FeedOf
  <2>2. ASSUME NEW j \in Item, IsRow(pend'[s].rows[j]), j # i
        PROVE  Announces(pend[s].changes, j, pend'[s].rows[j].version)
    BY <1>1, <1>2, <1>4, <2>2 DEF FeedOf
  <2>3. \A j \in Item : ~(tx'[s].pc = "change" /\ Cur(s)'.item = j) => j # i
    BY <1>3 DEF i
  <2> QED BY <1>3, <1>4, <2>1, <2>2, <2>3 DEF FeedOf
<1>7. Counted(s)'
  <2>1. tx'[s].batch = tx[s].batch /\ tx'[s].i = tx[s].i /\ tx'[s].conflicts = tx[s].conflicts
    BY WriteEffect
  <2>2. Pushing(s) /\ tx'[s].pc # "finish"
    BY <1>1, <1>3 DEF Pushing, Working
  <2> QED BY <1>2, <1>4, <2>1, <2>2 DEF Counted
<1> QED BY <1>1, <1>3, <1>4, <1>6, <1>7, FeedLocal DEF RowHeldBy

LEMMA InsertChangeFeed ==
  ASSUME BasicInv, FeedInv, NEW s \in Session, InsertChange(s)
  PROVE  FeedInv'
<1> DEFINE i == Cur(s).item
           n == Announced(s)
           k == tx[s].i
<1>1. tx[s].pc = "change" /\ Progress(s) /\ Working(s) /\ FeedOf(s) /\ Counted(s)
  BY DEF InsertChange, BasicInv, ProgressInv, Working, FeedInv
<1>2. i \in Item /\ IsRow(pend[s].rows[i]) /\ Cur(s) = tx[s].batch[k]
  BY <1>1, CurType DEF BasicInv, Change, Progress, Cur
<1>3. n.item = i /\ n.version = pend[s].rows[i].version /\ n.seq = nextSeq
  BY DEF Announced, AnnouncedVersion
<1>4. /\ OthersKeep(s) /\ db' = db /\ pend'[s].rows = pend[s].rows
      /\ pend'[s].changes = pend[s].changes \cup {n}
      /\ tx'[s].pc = IF k = Len(tx[s].batch) THEN "finish" ELSE "max_seq"
      /\ tx'[s].i = k + 1 /\ tx'[s].batch = tx[s].batch /\ tx'[s].conflicts = tx[s].conflicts
  BY InsertChangeEffect DEF OthersKeep
<1>5. k \in Nat \ {0} /\ tx[s].batch \in Batches
  BY <1>1 DEF BasicInv, TypeOK, Push, Progress
<1>6. \A c \in pend[s].changes : c.seq \in Nat /\ c.seq < nextSeq /\ c.item \in Item
  BY Seqs
<1>7. \A d \in db.changes : d.seq \in Nat /\ d.seq < nextSeq /\ nextSeq \in Nat
  BY Seqs
<1>8. n \notin pend[s].changes /\ nextSeq \in Nat
  BY <1>3, <1>6, Seqs
<1> HIDE DEF n, i, k
<1>9. FeedOf(s)'
  <2>1. \A c \in pend[s].changes \cup {n} :
          /\ IsRow(pend[s].rows[c.item])
          /\ \A d \in db.changes : d.item = c.item => d.seq < c.seq
    BY <1>1, <1>2, <1>3, <1>7 DEF FeedOf
  <2>2. ASSUME NEW j \in Item, IsRow(pend[s].rows[j])
        PROVE  Announces(pend[s].changes \cup {n}, j, pend[s].rows[j].version)
    <3>1. CASE j = i
      <4>1. Newest(n, pend[s].changes \cup {n})
        BY <1>3, <1>6, <1>8 DEF Newest
      <4> QED BY <1>3, <3>1, <4>1 DEF Announces
    <3>2. CASE j # i
      <4>1. Announces(pend[s].changes, j, pend[s].rows[j].version)
        BY <1>1, <2>2, <3>2 DEF FeedOf, i
      <4>2. PICK c \in pend[s].changes : /\ c.item = j /\ c.version = pend[s].rows[j].version
                                         /\ Newest(c, pend[s].changes)
        BY <4>1 DEF Announces
      <4>3. Newest(c, pend[s].changes \cup {n})
        BY <1>3, <3>2, <4>2 DEF Newest
      <4> QED BY <4>2, <4>3 DEF Announces
    <3> QED BY <3>1, <3>2
  <2> QED BY <1>4, <2>1, <2>2 DEF FeedOf
<1>10. Counted(s)'
  <2>1. tx'[s].pc = "finish" => tx'[s].i = Len(tx'[s].batch) + 1
    BY <1>4
  <2>2. ASSUME tx[s].conflicts = {}
        PROVE  /\ IsFiniteSet(pend'[s].changes) /\ Cardinality(pend'[s].changes) = k
               /\ \A c \in pend'[s].changes : \E m \in 1 .. k : tx[s].batch[m].item = c.item
               /\ \A m \in 1 .. k : \E c \in pend'[s].changes : tx[s].batch[m].item = c.item
    <3>1. /\ IsFiniteSet(pend[s].changes) /\ Cardinality(pend[s].changes) = k - 1
          /\ \A c \in pend[s].changes : \E m \in 1 .. k - 1 : tx[s].batch[m].item = c.item
          /\ \A m \in 1 .. k - 1 : \E c \in pend[s].changes : tx[s].batch[m].item = c.item
      BY <1>1, <2>2 DEF Counted, Pushing, k
    <3>2. /\ IsFiniteSet(pend[s].changes \cup {n})
          /\ Cardinality(pend[s].changes \cup {n}) = Cardinality(pend[s].changes) + 1
      BY <1>8, <3>1, FS_AddElement, Zenon
    <3>3. tx[s].batch[k].item = n.item
      BY <1>2, <1>3 DEF i
    <3>4. \A m \in 1 .. k : m = k \/ m \in 1 .. k - 1
      BY <1>5
    <3>5. \A m \in 1 .. k - 1 : m \in 1 .. k
      BY <1>5
    <3>6. k \in 1 .. k /\ k - 1 + 1 = k
      BY <1>5
    <3>7. \A c \in pend'[s].changes : \E m \in 1 .. k : tx[s].batch[m].item = c.item
      BY <1>4, <3>1, <3>3, <3>5, <3>6
    <3>8. \A m \in 1 .. k : \E c \in pend'[s].changes : tx[s].batch[m].item = c.item
      BY <1>4, <3>1, <3>3, <3>4
    <3>9. IsFiniteSet(pend'[s].changes) /\ Cardinality(pend'[s].changes) = k
      BY <1>4, <3>1, <3>2, <3>6
    <3> QED BY <3>7, <3>8, <3>9
  <2>3. tx'[s].i - 1 = k
    BY <1>4, <1>5
  <2> QED BY <1>4, <1>5, <2>1, <2>2, <2>3 DEF Counted
<1> QED BY <1>3, <1>4, <1>9, <1>10, FeedLocal

LEMMA FinishFeed ==
  ASSUME BasicInv, FeedInv, NEW s \in Session, Finish(s)
  PROVE  FeedInv'
<1>1. tx[s] \in Push /\ tx \in [Session -> Push] /\ snap \in [Session -> Tables \cup {None}]
      /\ pend \in [Session -> Pending]
  BY DEF BasicInv, TypeOK, TablesTypeOK
<1>2. OthersKeep(s) /\ tx'[s].pc = "cursor" /\ pend'[s] = NothingPending
  BY <1>1 DEF Finish, Push, OthersKeep
<1>3. pend'[s].changes = {} /\ \A i \in Item : ~IsRow(pend'[s].rows[i])
  BY <1>2 DEF NothingPending, IsRow
<1>4. FeedOf(s)' /\ Counted(s)'
  BY <1>2, <1>3 DEF FeedOf, Counted, Pushing, Working
<1>5. CASE db' = db
  BY <1>2, <1>3, <1>4, <1>5, FeedLocal
<1>6. CASE db' = Merged(db, pend[s])
  <2>1. /\ \A i \in Item : db'.items[i] = IF IsRow(pend[s].rows[i]) THEN pend[s].rows[i]
                                           ELSE db.items[i]
        /\ db'.changes = db.changes \cup pend[s].changes
    BY <1>6 DEF Merged, RowIn, ChangesIn
  <2>2. FeedOf(s) /\ LockInv /\ SeqsApart /\ FeedCommitted
    BY DEF FeedInv
  <2>3. LockInv'
    BY <1>2, <1>3, <2>2 DEF LockInv, OthersKeep
  <2>4. SeqsApart'
    <3>1. ASSUME NEW t \in Session, NEW c \in pend'[t].changes
          PROVE  /\ t # s /\ c \in pend[t].changes
                 /\ \A d \in db'.changes : c.seq # d.seq
                 /\ \A u \in Session \ {t} : \A d \in pend'[u].changes : c.seq # d.seq
      <4>1. t # s /\ c \in pend[t].changes
        BY <1>2, <1>3, <3>1 DEF OthersKeep
      <4>2. \A d \in db'.changes : c.seq # d.seq
        BY <2>1, <2>2, <4>1 DEF SeqsApart
      <4>3. \A u \in Session \ {t} : \A d \in pend'[u].changes : d \in pend[u].changes
        BY <1>2, <1>3 DEF OthersKeep
      <4> QED BY <2>2, <4>1, <4>2, <4>3 DEF SeqsApart
    <3> QED BY <3>1 DEF SeqsApart
  <2>5. FeedCommitted'
    <3> SUFFICES ASSUME NEW i \in Item, IsRow(db'.items[i])
                 PROVE  Announces(db'.changes, i, db'.items[i].version)
      BY DEF FeedCommitted
    <3>1. CASE IsRow(pend[s].rows[i])
      <4>1. Announces(pend[s].changes, i, pend[s].rows[i].version)
        BY <2>2, <3>1 DEF FeedOf, Finish
      <4>2. PICK c \in pend[s].changes : /\ c.item = i /\ c.version = pend[s].rows[i].version
                                         /\ Newest(c, pend[s].changes)
        BY <4>1 DEF Announces
      <4>3. \A d \in db.changes : d.item = i => d.seq <= c.seq
        <5>1. \A d \in db.changes : d.item = i => d.seq < c.seq
          BY <2>2, <4>2 DEF FeedOf
        <5> QED BY <5>1, <4>2, Seqs
      <4>4. Newest(c, db'.changes)
        BY <2>1, <4>2, <4>3 DEF Newest
      <4> QED BY <2>1, <3>1, <4>2, <4>4 DEF Announces
    <3>2. CASE ~IsRow(pend[s].rows[i])
      <4>1. Announces(db.changes, i, db.items[i].version)
        BY <2>1, <2>2, <3>2 DEF FeedCommitted
      <4>2. PICK c \in db.changes : /\ c.item = i /\ c.version = db.items[i].version
                                    /\ Newest(c, db.changes)
        BY <4>1 DEF Announces
      <4>3. \A d \in pend[s].changes : d.item # i
        BY <2>2, <3>2 DEF FeedOf
      <4>4. Newest(c, db'.changes)
        BY <2>1, <4>2, <4>3 DEF Newest
      <4> QED BY <2>1, <3>2, <4>2, <4>4 DEF Announces
    <3> QED BY <3>1, <3>2
  <2>6. ASSUME NEW t \in Session, t # s PROVE FeedOf(t)' /\ Counted(t)'
    <3>1. tx'[t] = tx[t] /\ pend'[t] = pend[t] /\ FeedOf(t) /\ Counted(t)
      BY <1>2, <2>6 DEF OthersKeep, FeedInv
    <3>2. Cur(t)' = Cur(t) /\ (Pushing(t)' <=> Pushing(t))
      BY <3>1 DEF Cur, Pushing, Working
    <3>3. Counted(t)'
      BY <3>1, <3>2 DEF Counted
    <3>4. ASSUME NEW c \in pend[t].changes, NEW d \in db'.changes, d.item = c.item
          PROVE  d.seq < c.seq
      <4>1. IsRow(pend[t].rows[c.item]) /\ c.item \in Item
        BY <3>1, Seqs DEF FeedOf
      <4>2. d \notin pend[s].changes
        BY <2>2, <2>6, <3>4, <4>1 DEF FeedOf, LockInv
      <4> QED BY <2>1, <3>1, <3>4, <4>2 DEF FeedOf
    <3>5. FeedOf(t)'
      BY <3>1, <3>2, <3>4 DEF FeedOf
    <3> QED BY <3>3, <3>5
  <2> QED BY <1>4, <2>3, <2>4, <2>5, <2>6 DEF FeedInv
<1> QED BY <1>5, <1>6 DEF Finish

LEMMA FeedStep ==
  ASSUME BasicInv, StayInv, FeedInv, [Next]_vars
  PROVE  FeedInv'
<1>1. CASE UNCHANGED <<tableVars, pushVars>>
  BY <1>1 DEF tableVars, pushVars, FeedInv, LockInv, SeqsApart, FeedCommitted, FeedOf, Counted,
              Pushing, Working, Cur
<1>2. ASSUME NEW s \in Session, Respond(s) PROVE FeedInv'
  <2>1. pend[s] = NothingPending /\ db' = db /\ pend' = pend
    BY <1>2 DEF Respond, BasicInv, ProgressInv, Progress, tableVars
  <2>2. pend'[s].changes = {} /\ \A i \in Item : ~IsRow(pend'[s].rows[i])
    BY <2>1, NothingPendingFeed
  <2>3. OthersKeep(s) /\ tx'[s].pc = "idle"
    BY <1>2 DEF Respond, OthersKeep, BasicInv, TypeOK, Idle, tableVars
  <2>4. FeedOf(s)' /\ Counted(s)'
    BY <2>2, <2>3 DEF FeedOf, Counted, Pushing, Working
  <2> QED BY <2>1, <2>2, <2>3, <2>4, FeedLocal
<1> QED BY <1>1, <1>2, StepCases, ReadingFeed, WriteFeed, InsertChangeFeed, FinishFeed

LEMMA InitFeed == Init => FeedInv
<1> SUFFICES ASSUME Init PROVE FeedInv
  OBVIOUS
<1>1. \A s \in Session : /\ tx[s].pc = "idle" /\ pend[s].changes = {}
                         /\ \A i \in Item : ~IsRow(pend[s].rows[i])
  BY DEF Init, TablesInit, Idle, NothingPending, IsRow
<1>2. db.changes = {} /\ \A i \in Item : ~IsRow(db.items[i])
  BY DEF Init, TablesInit, EmptyTables, IsRow
<1> QED BY <1>1, <1>2 DEF FeedInv, LockInv, SeqsApart, FeedCommitted, FeedOf, Counted, Pushing,
                          Working

\* What SELECT MAX(seq) finds for an item is the number of its newest change.
LEMMA NewestIsMax ==
  ASSUME NEW chs \in SUBSET ChangeEntry, NEW c \in chs, Newest(c, chs)
  PROVE  c.seq = MaxSeqOf(chs, c.item)
<1> DEFINE seqs == {d.seq : d \in {e \in chs : e.item = c.item}}
<1>1. seqs \in SUBSET Nat /\ c.seq \in seqs /\ c.seq \in Nat /\ \A n \in seqs : n <= c.seq
  BY DEF ChangeEntry, Newest
<1>2. Max(seqs) \in seqs /\ \A n \in seqs : n <= Max(seqs)
  <2> HIDE DEF seqs
  <2>1. seqs # {}
    BY <1>1
  <2> QED BY <1>1, <2>1, BoundedMax
<1>3. MaxSeqOf(chs, c.item) = Max(seqs)
  BY <1>1 DEF MaxSeqOf
<1> HIDE DEF seqs
<1>4. PICK m : m = Max(seqs)
  OBVIOUS
<1>5. m \in Nat /\ c.seq <= m /\ m <= c.seq
  BY <1>1, <1>2, <1>4
<1>6. c.seq = m
  BY <1>1, <1>5
<1> QED BY <1>3, <1>4, <1>6

\* The invariants about the feed hold, whatever the isolation level.
LEMMA FeedAlways == Spec => [](BasicInv /\ StayInv /\ FeedInv)
<1>1. BasicInv /\ StayInv /\ FeedInv /\ [Next]_vars => BasicInv' /\ StayInv' /\ FeedInv'
  BY BasicStep, StayStep, FeedStep
<1> QED BY <1>1, InitBasic, InitFeed, PTL DEF Spec

\* The newest change of every stored item carries the version of its row, for
\* both isolation levels, any batches and any number of sessions: a row that a
\* push has written is locked until its change is committed with it, and the
\* number of that change is drawn after the lock was taken.
THEOREM FeedIsTrue == Spec => []FeedAnnouncesRows
<1>1. BasicInv /\ FeedInv => FeedAnnouncesRows
  <2> SUFFICES ASSUME BasicInv, FeedInv, NEW i \in Item, IsRow(db.items[i])
               PROVE  \E c \in db.changes : /\ c.item = i /\ c.seq = MaxSeqOf(db.changes, i)
                                            /\ c.version = db.items[i].version
    BY DEF FeedAnnouncesRows
  <2>1. PICK c \in db.changes : /\ c.item = i /\ c.version = db.items[i].version
                                /\ Newest(c, db.changes)
    BY DEF FeedInv, FeedCommitted, Announces
  <2>2. db.changes \in SUBSET ChangeEntry
    BY Seqs
  <2> QED BY <2>1, <2>2, NewestIsMax
<1> QED BY <1>1, FeedAlways, PTL

\* A push is all or nothing: the tables change only when a push without a
\* conflict commits, and then the feed grows by one change for each change of
\* its batch, of the same items (sync_push, both isolation levels).
THEOREM PushAllOrNothing == Spec => PushIsAtomic
<1> DEFINE Whole(s) ==
      /\ tx[s].pc = "finish" /\ tx[s].conflicts = {}
      /\ {c.item : c \in db'.changes \ db.changes}
           = {tx[s].batch[n].item : n \in DOMAIN tx[s].batch}
      /\ Cardinality(db'.changes \ db.changes) = Len(tx[s].batch)
<1>1. ASSUME BasicInv, StayInv, FeedInv, [Next]_vars, db' # db
      PROVE  \E s \in Session : Whole(s)
  <2>1. PICK s \in Session : Finish(s)
    <3>1. ~UNCHANGED <<tableVars, pushVars>>
      BY <1>1 DEF tableVars
    <3>2. ASSUME NEW t \in Session,
                 \/ Dropped(t) \/ Started(t) \/ Moved(t) \/ (Write(t) /\ ~Abort(t))
                 \/ InsertChange(t) \/ Respond(t)
          PROVE  FALSE
      <4>1. ~Dropped(t) /\ ~Started(t) /\ ~Moved(t) /\ ~Respond(t)
        BY <1>1 DEF Dropped, Started, Moved, Respond, tableVars
      <4>2. ~InsertChange(t)
        BY <1>1, InsertChangeEffect
      <4>3. ~(Write(t) /\ ~Abort(t))
        BY <1>1, WriteEffect
      <4> QED BY <3>2, <4>1, <4>2, <4>3
    <3> QED BY <1>1, <3>1, <3>2, StepCases
  <2>2. /\ tx[s].pc = "finish" /\ tx[s].conflicts = {} /\ db' = Merged(db, pend[s])
    BY <1>1, <2>1 DEF Finish
  <2>3. db'.changes = db.changes \cup pend[s].changes
    BY <2>2 DEF Merged, ChangesIn
  <2>4. \A c \in pend[s].changes : c \notin db.changes
    BY <1>1 DEF FeedInv, SeqsApart
  <2>5. db'.changes \ db.changes = pend[s].changes
    BY <2>3, <2>4
  <2>6. /\ tx[s].batch \in Batches /\ tx[s].i = Len(tx[s].batch) + 1
        /\ Cardinality(pend[s].changes) = tx[s].i - 1
        /\ \A c \in pend[s].changes : \E n \in 1 .. tx[s].i - 1 : tx[s].batch[n].item = c.item
        /\ \A n \in 1 .. tx[s].i - 1 : \E c \in pend[s].changes : tx[s].batch[n].item = c.item
    BY <1>1, <2>2 DEF FeedInv, Counted, Pushing
  <2>7. Len(tx[s].batch) \in Nat /\ DOMAIN tx[s].batch = 1 .. Len(tx[s].batch)
    BY <2>6, BatchesAssumption
  <2>8. tx[s].i - 1 = Len(tx[s].batch)
    BY <2>6, <2>7
  <2>9. {c.item : c \in pend[s].changes} = {tx[s].batch[n].item : n \in DOMAIN tx[s].batch}
    <3>1. \A c \in pend[s].changes : \E n \in DOMAIN tx[s].batch : tx[s].batch[n].item = c.item
      BY <2>6, <2>7, <2>8
    <3>2. \A n \in DOMAIN tx[s].batch : \E c \in pend[s].changes : tx[s].batch[n].item = c.item
      BY <2>6, <2>7, <2>8
    <3>3. ASSUME NEW i PROVE i \in {c.item : c \in pend[s].changes}
                             <=> i \in {tx[s].batch[n].item : n \in DOMAIN tx[s].batch}
      <4>1. ASSUME NEW c \in pend[s].changes, i = c.item
            PROVE  i \in {tx[s].batch[n].item : n \in DOMAIN tx[s].batch}
        BY <3>1, <4>1
      <4>2. ASSUME NEW n \in DOMAIN tx[s].batch, i = tx[s].batch[n].item
            PROVE  i \in {c.item : c \in pend[s].changes}
        BY <3>2, <4>2
      <4> QED BY <4>1, <4>2
    <3> QED BY <3>3
  <2> QED BY <2>2, <2>5, <2>6, <2>8, <2>9
<1>2. BasicInv /\ StayInv /\ FeedInv /\ [Next]_vars
        => [db' # db => \E s \in Session : Whole(s)]_vars
  BY <1>1
<1> QED BY <1>2, FeedAlways, PTL DEF Spec, PushIsAtomic

\* A page of a pull starts at the cursor and skips nothing up to its end.
LEMMA PageIsDense ==
  ASSUME BasicInv, NEW r \in Reader, Page(r) # {},
         NEW c \in db.changes, cursor[r] < c.seq, c.seq <= Max(Page(r))
  PROVE  c.seq \in Page(r)
<1> DEFINE after == {d.seq : d \in {e \in db.changes : e.seq > cursor[r]}}
           less(q) == {p \in after : p < q}
<1>1. Page(r) = {q \in after : Cardinality(less(q)) < PageLimit}
  BY DEF Page
<1>2. \A e \in db.changes : e.seq \in Nat /\ e.seq < nextSeq /\ nextSeq \in Nat
  BY Seqs
<1>3. nextSeq \in Nat /\ cursor[r] \in Nat /\ PageLimit \in Nat
  BY PageLimitAssumption DEF BasicInv, TypeOK, TablesTypeOK
<1>4. after \subseteq 0 .. nextSeq /\ after \subseteq Nat /\ c.seq \in after /\ c.seq \in Nat
  BY <1>2, <1>3
<1> HIDE DEF after
<1>5. IsFiniteSet(after)
  <2>1. after \in SUBSET Nat /\ \A n \in after : n <= nextSeq
    BY <1>3, <1>4
  <2> QED BY <1>3, <2>1, FS_BoundedSetOfNaturals
<1>6. PICK m : m = Max(Page(r))
  OBVIOUS
<1>7. m \in Page(r)
  <2>0. Page(r) \subseteq after
    BY <1>1
  <2>1. Page(r) \in SUBSET Nat /\ \A q \in Page(r) : q <= nextSeq
    <3>1. ASSUME NEW q \in Page(r) PROVE q \in Nat /\ q <= nextSeq
      <4>1. q \in 0 .. nextSeq
        BY <1>4, <2>0
      <4> QED BY <1>3, <4>1
    <3> QED BY <3>1
  <2>2. Max(Page(r)) \in Page(r)
    BY <1>3, <2>1, BoundedMax
  <2> QED BY <1>6, <2>2
<1>8. m \in Nat /\ Cardinality(less(m)) < PageLimit
  BY <1>1, <1>4, <1>7
<1>9. less(c.seq) \subseteq less(m) /\ less(m) \subseteq after
  <2>1. \A p \in after : p \in Nat /\ (p < c.seq => p < m)
    <3>1. c.seq <= m
      BY <1>6
    <3> QED BY <1>4, <1>8, <3>1
  <2> QED BY <2>1
<1> HIDE DEF less
<1>10. IsFiniteSet(less(m))
  BY <1>5, <1>9, FS_Subset
<1>11. IsFiniteSet(less(c.seq)) /\ Cardinality(less(c.seq)) <= Cardinality(less(m))
  BY <1>9, <1>10, FS_Subset
<1>12. Cardinality(less(m)) \in Nat /\ Cardinality(less(c.seq)) \in Nat
  BY <1>10, <1>11, FS_CardinalityType
<1>13. Cardinality(less(c.seq)) < PageLimit
  BY <1>3, <1>8, <1>11, <1>12
<1> QED BY <1>1, <1>4, <1>13 DEF less

\* A pull moves the cursor past no change that was committed by then without
\* having sent it, for every page limit (sync_pull).
THEOREM NoGap == Spec => PageHasNoGap
<1>1. ASSUME BasicInv, Next, NEW r \in Reader, NEW c \in db.changes,
             cursor[r] < c.seq, c.seq <= cursor'[r]
      PROVE  c.seq \in seen'[r]
  <2>1. cursor \in [Reader -> Nat] /\ seen \in [Reader -> SUBSET Nat] /\ c.seq \in Nat
    BY <1>1, Seqs DEF BasicInv, TypeOK
  <2>2. cursor'[r] # cursor[r]
    BY <1>1, <2>1
  <2>3. Pull(r)
    <3>1. ASSUME NEW s \in Session, PushStep(s) \/ DbFault(s) PROVE cursor' = cursor
      BY <3>1 DEF PushStep, DbFault, DeadlockVictim, Abort, ReadMaxSeq, ReadRow, CheckPath, Write,
                  InsertChange, Finish, Respond, Reading
    <3>2. ASSUME NEW s \in Session, NEW b \in Batches, NEW base \in [1 .. Len(b) -> BaseSeqs],
                 Begin(s, b, base)
          PROVE  cursor' = cursor
      BY <3>2 DEF Begin
    <3>3. PICK q \in Reader : Pull(q)
      BY <1>1, <2>2, <3>1, <3>2 DEF Next
    <3> QED BY <2>1, <2>2, <3>3 DEF Pull
  <2>4. Page(r) # {} /\ cursor'[r] = Max(Page(r)) /\ seen'[r] = seen[r] \cup Page(r)
    BY <2>1, <2>2, <2>3 DEF Pull
  <2> QED BY <1>1, <2>4, PageIsDense
<1>2. BasicInv /\ StayInv /\ FeedInv /\ [Next]_vars =>
        [\A r \in Reader : \A c \in db.changes :
           cursor[r] < c.seq /\ c.seq <= cursor'[r] => c.seq \in seen'[r]]_vars
  BY <1>1
<1> QED BY <1>2, FeedAlways, PTL DEF Spec, PageHasNoGap

-----------------------------------------------------------------------------
(* One winner per base, under REPEATABLE READ *)

\* A row that is still the one of the snapshot has no change since then.
SnapshotOf(s) ==
  Pushing(s) =>
    /\ snap[s] \in Tables /\ snap[s].changes \subseteq db.changes
    /\ \A i \in Item :
         /\ IsRow(snap[s].items[i]) =>
              IsRow(db.items[i]) /\ snap[s].items[i].version <= db.items[i].version
         /\ db.items[i] = snap[s].items[i] =>
              \A d \in db.changes : d.item = i => d \in snap[s].changes

\* After SELECT MAX(seq): the device has seen every change of the item.
BaseChecked(s) ==
  tx[s].pc \in {"row", "path", "write", "change"} /\ CurBase(s) > 0 =>
    \A d \in snap[s].changes \cup pend[s].changes :
      d.item = Cur(s).item => d.seq <= CurBase(s)

\* Change x was applied to what its device had seen: among chs, the changes
\* of its item before it are not newer than its base.
SeenBefore(x, chs) ==
  x.base > 0 => \A d \in chs : d.item = x.item /\ d.seq < x.seq => d.seq <= x.base

Has(chs, x) == \E d \in chs : d.item = x.item /\ d.seq = x.seq

AppliedOf(s) ==
  \A x \in tx[s].applied :
    /\ SeenBefore(x, db.changes \cup pend[s].changes)
    /\ Has(IF Pushing(s) THEN pend[s].changes ELSE db.changes, x)

AnsweredOf == \A x \in AckedChanges : SeenBefore(x, db.changes) /\ Has(db.changes, x)

BaseInv ==
  /\ AnsweredOf
  /\ \A s \in Session : SnapshotOf(s) /\ BaseChecked(s) /\ AppliedOf(s)

\* SELECT MAX(seq) is not below any change of the item.
LEMMA MaxSeqBound ==
  ASSUME NEW chs \in SUBSET ChangeEntry, NEW bound \in Nat, \A d \in chs : d.seq <= bound,
         NEW c \in chs
  PROVE  MaxSeqOf(chs, c.item) \in Nat /\ c.seq <= MaxSeqOf(chs, c.item)
<1> DEFINE seqs == {d.seq : d \in {e \in chs : e.item = c.item}}
<1>1. seqs \in SUBSET Nat /\ c.seq \in seqs /\ \A n \in seqs : n <= bound
  BY DEF ChangeEntry
<1>2. MaxSeqOf(chs, c.item) = Max(seqs)
  BY <1>1 DEF MaxSeqOf
<1> HIDE DEF seqs
<1>3. seqs # {}
  BY <1>1
<1>4. Max(seqs) \in seqs /\ \A n \in seqs : n <= Max(seqs)
  BY <1>1, <1>3, BoundedMax
<1> QED BY <1>1, <1>2, <1>4

LEMMA BaseLocal ==
  ASSUME BaseInv, NEW s \in Session, db' = db, responses' = responses, OthersKeep(s),
         SnapshotOf(s)', BaseChecked(s)', AppliedOf(s)'
  PROVE  BaseInv'
<1>1. AnsweredOf'
  BY DEF BaseInv, AnsweredOf, AckedChanges
<1>2. ASSUME NEW t \in Session, t # s PROVE SnapshotOf(t)' /\ BaseChecked(t)' /\ AppliedOf(t)'
  <2>1. /\ tx'[t] = tx[t] /\ pend'[t] = pend[t] /\ snap'[t] = snap[t]
        /\ SnapshotOf(t) /\ BaseChecked(t) /\ AppliedOf(t)
    BY <1>2 DEF OthersKeep, BaseInv
  <2>2. Cur(t)' = Cur(t) /\ CurBase(t)' = CurBase(t) /\ (Pushing(t)' <=> Pushing(t))
    BY <2>1 DEF Cur, CurBase, Pushing, Working
  <2>3. SnapshotOf(t)' /\ AppliedOf(t)'
    BY <2>1, <2>2 DEF SnapshotOf, AppliedOf
  <2>4. BaseChecked(t)'
    BY <2>1, <2>2 DEF BaseChecked
  <2> QED BY <2>3, <2>4
<1> QED BY <1>1, <1>2 DEF BaseInv

LEMMA DroppedBase ==
  ASSUME BaseInv, NEW s \in Session, OthersKeep(s), db' = db, responses' = responses,
         tx'[s].pc \in {"idle", "cursor"}, tx'[s].applied = {}
  PROVE  BaseInv'
<1>1. SnapshotOf(s)' /\ BaseChecked(s)' /\ AppliedOf(s)'
  BY DEF SnapshotOf, BaseChecked, AppliedOf, Pushing, Working
<1> QED BY <1>1, BaseLocal

LEMMA StartedBase ==
  ASSUME BasicInv, BaseInv, Isolation = "repeatable_read", NEW s \in Session, Started(s)
  PROVE  BaseInv'
<1>1. db' = db /\ responses' = responses /\ OthersKeep(s) /\ snap'[s] = db
      /\ tx'[s].pc = "max_seq" /\ tx'[s].applied = {}
  BY DEF Started, tableVars
<1>2. db \in Tables
  BY DEF BasicInv, TypeOK, TablesTypeOK
<1>3. \A i \in Item : IsRow(db.items[i]) => db.items[i].version <= db.items[i].version
  <2> SUFFICES ASSUME NEW i \in Item, IsRow(db.items[i])
               PROVE  db.items[i].version <= db.items[i].version
    OBVIOUS
  <2>1. db.items[i] \in Row
    BY <1>2 DEF Tables, IsRow
  <2>2. db.items[i].version \in Nat
    BY <2>1 DEF Row
  <2> QED BY <2>2
<1>4. SnapshotOf(s)'
  BY <1>1, <1>2, <1>3 DEF SnapshotOf
<1>5. BaseChecked(s)' /\ AppliedOf(s)'
  BY <1>1 DEF BaseChecked, AppliedOf
<1> QED BY <1>1, <1>4, <1>5, BaseLocal

LEMMA MovedBase ==
  ASSUME BasicInv, BaseInv, Isolation = "repeatable_read", NEW s \in Session, Moved(s)
  PROVE  BaseInv'
<1>1. db' = db /\ pend' = pend /\ snap' = snap /\ responses' = responses /\ OthersKeep(s)
      /\ tx'[s].applied = tx[s].applied /\ tx'[s].batch = tx[s].batch /\ tx'[s].base = tx[s].base
  BY DEF Moved, tableVars
<1>2. Pushing(s) /\ Pushing(s)'
  BY DEF Moved, Pushing, Working
<1>3. SnapshotOf(s) /\ BaseChecked(s) /\ AppliedOf(s)
  BY DEF BaseInv
<1>4. SnapshotOf(s)' /\ AppliedOf(s)'
  BY <1>1, <1>2, <1>3 DEF SnapshotOf, AppliedOf
<1>5. BaseChecked(s)'
  <2> SUFFICES ASSUME tx'[s].pc \in {"row", "path", "write", "change"}, CurBase(s)' > 0,
                      NEW d \in snap[s].changes \cup pend[s].changes, d.item = Cur(s)'.item
               PROVE  d.seq <= CurBase(s)'
    BY <1>1 DEF BaseChecked
  <2>1. tx'[s].i = tx[s].i
    BY DEF Moved
  <2>2. Cur(s)' = Cur(s) /\ CurBase(s)' = CurBase(s)
    BY <1>1, <2>1 DEF Cur, CurBase
  <2>3. CASE tx[s].pc \in {"row", "path"}
    BY <1>3, <2>2, <2>3 DEF BaseChecked
  <2>4. CASE tx[s].pc = "max_seq"
    <3> DEFINE chs == ChangesIn(View(s), pend[s])
    <3>1. chs = snap[s].changes \cup pend[s].changes
      BY DEF ChangesIn, View
    <3>2. ~StaleBase(CurBase(s), MaxSeqOf(chs, Cur(s).item))
      BY <2>4 DEF Moved
    <3>3. chs \in SUBSET ChangeEntry /\ \A e \in chs : e.seq <= nextSeq
      <4>1. snap[s].changes \subseteq db.changes
        BY <1>2, <1>3 DEF SnapshotOf
      <4>2. \A e \in chs : e \in ChangeEntry /\ e.seq \in Nat /\ e.seq < nextSeq
        BY <3>1, <4>1, Seqs
      <4> QED BY <4>2, Seqs
    <3> HIDE DEF chs
    <3>4. nextSeq \in Nat /\ d \in chs /\ d.item = Cur(s).item
      BY <2>2, <3>1, Seqs
    <3>5. MaxSeqOf(chs, Cur(s).item) \in Nat /\ d.seq <= MaxSeqOf(chs, Cur(s).item)
      <4>1. MaxSeqOf(chs, d.item) \in Nat /\ d.seq <= MaxSeqOf(chs, d.item)
        BY <3>3, <3>4, MaxSeqBound
      <4> QED BY <3>4, <4>1
    <3>6. CurBase(s) \in Nat /\ d.seq \in Nat
      <4>1. Progress(s) /\ Working(s)
        BY <2>4 DEF BasicInv, ProgressInv, Working
      <4> QED BY <3>3, <3>4, <4>1, CurType DEF BasicInv, ChangeEntry
    <3> QED BY <2>2, <3>2, <3>5, <3>6 DEF StaleBase
  <2> QED BY <2>3, <2>4 DEF Moved
<1> QED BY <1>1, <1>4, <1>5, BaseLocal

LEMMA WriteBase ==
  ASSUME BasicInv, StayInv, BaseInv, NEW s \in Session, Write(s), ~Abort(s)
  PROVE  BaseInv'
<1>1. /\ db' = db /\ responses' = responses /\ snap' = snap /\ pend'[s].changes = pend[s].changes
      /\ tx'[s].pc = "change" /\ tx'[s].i = tx[s].i /\ tx'[s].batch = tx[s].batch
      /\ tx'[s].base = tx[s].base /\ tx'[s].applied = tx[s].applied /\ tx[s].pc = "write"
  BY WriteEffect DEF Write
<1>2. OthersKeep(s)
  BY WriteEffect DEF OthersKeep
<1>3. SnapshotOf(s) /\ BaseChecked(s) /\ AppliedOf(s)
  BY DEF BaseInv
<1>4. Pushing(s) /\ Pushing(s)' /\ Cur(s)' = Cur(s) /\ CurBase(s)' = CurBase(s)
  BY <1>1 DEF Pushing, Working, Cur, CurBase
<1>5. SnapshotOf(s)' /\ AppliedOf(s)'
  BY <1>1, <1>3, <1>4 DEF SnapshotOf, AppliedOf
<1>6. BaseChecked(s)'
  BY <1>1, <1>3, <1>4 DEF BaseChecked
<1> QED BY <1>1, <1>2, <1>5, <1>6, BaseLocal

LEMMA InsertChangeBase ==
  ASSUME BasicInv, SafeInv, BaseInv, NEW s \in Session, InsertChange(s)
  PROVE  BaseInv'
<1> DEFINE i == Cur(s).item
           n == Announced(s)
           x == Acked(s)
<1>1. /\ db' = db /\ responses' = responses /\ snap' = snap
      /\ pend'[s].changes = pend[s].changes \cup {n}
      /\ tx'[s].pc \in {"finish", "max_seq"}
      /\ tx'[s].applied = tx[s].applied \cup {x}
  BY InsertChangeEffect
<1>2. OthersKeep(s)
  BY InsertChangeEffect DEF OthersKeep
<1>3. SnapshotOf(s) /\ BaseChecked(s) /\ AppliedOf(s) /\ FreshRow(s)
  BY DEF BaseInv, SafeInv, FreshInv
<1>4. tx[s].pc = "change" /\ Progress(s) /\ Working(s) /\ Pushing(s) /\ Pushing(s)'
  BY <1>1 DEF InsertChange, BasicInv, ProgressInv, Working, Pushing
<1>5. i \in Item /\ IsRow(pend[s].rows[i])
  BY <1>4, CurType DEF BasicInv, Change, Progress
<1>6. n.item = i /\ n.seq = nextSeq /\ x.item = i /\ x.seq = nextSeq /\ x.base = CurBase(s)
  BY DEF Announced, Acked
<1>7. nextSeq \in Nat /\ \A d \in pend[s].changes : d.seq \in Nat /\ d.seq < nextSeq
  BY Seqs
<1> HIDE DEF i, n, x
<1>8. SnapshotOf(s)' /\ BaseChecked(s)'
  BY <1>1, <1>3, <1>4 DEF SnapshotOf, BaseChecked
<1>9. AppliedOf(s)'
  <2>1. ASSUME NEW y \in tx[s].applied
        PROVE  /\ SeenBefore(y, db.changes \cup (pend[s].changes \cup {n}))
               /\ Has(pend[s].changes \cup {n}, y)
    <3>1. SeenBefore(y, db.changes \cup pend[s].changes) /\ Has(pend[s].changes, y)
      BY <1>3, <1>4 DEF AppliedOf
    <3>2. y.seq \in Nat /\ y.seq < nextSeq
      BY <1>7, <3>1 DEF Has
    <3>3. ~(n.seq < y.seq)
      BY <1>6, <1>7, <3>2
    <3> QED BY <3>1, <3>3 DEF SeenBefore, Has
  <2>2. SeenBefore(x, db.changes \cup (pend[s].changes \cup {n}))
    <3> SUFFICES ASSUME x.base > 0, NEW d \in db.changes \cup (pend[s].changes \cup {n}),
                        d.item = x.item, d.seq < x.seq
                 PROVE  d.seq <= x.base
      BY DEF SeenBefore
    <3>1. d \in db.changes \cup pend[s].changes
      BY <1>6, <1>7
    <3>2. db.items[i] = snap[s].items[i]
      BY <1>3, <1>5 DEF FreshRow
    <3>3. d \in snap[s].changes \cup pend[s].changes
      BY <1>3, <1>4, <1>5, <1>6, <3>1, <3>2 DEF SnapshotOf
    <3> QED BY <1>3, <1>4, <1>6, <3>3 DEF BaseChecked, i
  <2>3. Has(pend[s].changes \cup {n}, x)
    BY <1>6 DEF Has
  <2> QED BY <1>1, <1>4, <2>1, <2>2, <2>3 DEF AppliedOf
<1> QED BY <1>1, <1>2, <1>8, <1>9, BaseLocal

LEMMA FinishBase ==
  ASSUME BasicInv, SafeInv, FeedInv, BaseInv, NEW s \in Session, Finish(s)
  PROVE  BaseInv'
<1>1. tx[s] \in Push /\ tx \in [Session -> Push] /\ snap \in [Session -> Tables \cup {None}]
      /\ pend \in [Session -> Pending] /\ db \in Tables
  BY DEF BasicInv, TypeOK, TablesTypeOK
<1>2. /\ OthersKeep(s) /\ tx'[s].pc = "cursor" /\ pend'[s] = NothingPending
      /\ responses' = responses /\ tx[s].pc = "finish"
  BY <1>1 DEF Finish, Push, OthersKeep
<1>3. pend'[s].changes = {} /\ ~Pushing(s)' /\ Pushing(s)
  BY <1>2 DEF NothingPending, Pushing, Working
<1>4. CASE tx[s].conflicts # {}
  <2>1. db' = db /\ tx'[s].applied = {}
    BY <1>1, <1>4 DEF Finish, Push
  <2> QED BY <1>2, <2>1, DroppedBase
<1>5. CASE tx[s].conflicts = {}
  <2>1. db' = Merged(db, pend[s]) /\ tx'[s].applied = tx[s].applied
    BY <1>1, <1>5 DEF Finish, Push
  <2>2. /\ \A i \in Item : db'.items[i] = IF IsRow(pend[s].rows[i]) THEN pend[s].rows[i]
                                           ELSE db.items[i]
        /\ db'.changes = db.changes \cup pend[s].changes
    BY <2>1 DEF Merged, RowIn, ChangesIn
  <2>3. FreshRow(s) /\ FeedOf(s) /\ LockInv /\ AppliedOf(s) /\ AnsweredOf
    BY DEF SafeInv, FreshInv, FeedInv, BaseInv
  \* Whoever has a committed change of an item has a smaller number.
  <2>4. ASSUME NEW y, Has(db.changes, y), SeenBefore(y, db.changes)
        PROVE  Has(db'.changes, y) /\ SeenBefore(y, db'.changes)
    <3>1. PICK e \in db.changes : e.item = y.item /\ e.seq = y.seq
      BY <2>4 DEF Has
    <3>2. \A d \in pend[s].changes : d.item = y.item => ~(d.seq < y.seq)
      <4> SUFFICES ASSUME NEW d \in pend[s].changes, d.item = y.item, d.seq < y.seq
                   PROVE  FALSE
        OBVIOUS
      <4>1. e.seq < d.seq /\ e.seq \in Nat /\ d.seq \in Nat
        BY <2>3, <3>1, Seqs DEF FeedOf
      <4> QED BY <3>1, <4>1
    <3> QED BY <2>2, <2>4, <3>1, <3>2 DEF Has, SeenBefore
  <2>5. AnsweredOf'
    <3>1. AckedChanges' = AckedChanges
      BY <1>2 DEF AckedChanges
    <3> QED BY <2>3, <2>4, <3>1 DEF AnsweredOf
  <2>6. SnapshotOf(s)' /\ BaseChecked(s)'
    BY <1>2, <1>3 DEF SnapshotOf, BaseChecked
  <2>7. AppliedOf(s)'
    <3>1. \A y \in tx[s].applied : /\ SeenBefore(y, db'.changes)
                                   /\ Has(pend[s].changes, y)
      BY <1>3, <2>2, <2>3 DEF AppliedOf
    <3>2. db'.changes \cup pend'[s].changes = db'.changes
      BY <1>3
    <3>3. \A y \in tx[s].applied : Has(db'.changes, y)
      BY <2>2, <3>1 DEF Has
    <3> QED BY <1>3, <2>1, <3>1, <3>2, <3>3 DEF AppliedOf
  <2>8. ASSUME NEW t \in Session, t # s PROVE SnapshotOf(t)' /\ BaseChecked(t)' /\ AppliedOf(t)'
    <3>1. /\ tx'[t] = tx[t] /\ pend'[t] = pend[t] /\ snap'[t] = snap[t]
          /\ SnapshotOf(t) /\ BaseChecked(t) /\ AppliedOf(t)
      BY <1>2, <2>8 DEF OthersKeep, BaseInv
    <3>2. Cur(t)' = Cur(t) /\ CurBase(t)' = CurBase(t) /\ (Pushing(t)' <=> Pushing(t))
      BY <3>1 DEF Cur, CurBase, Pushing, Working
    <3>3. BaseChecked(t)'
      BY <3>1, <3>2 DEF BaseChecked
    <3>4. SnapshotOf(t)'
      <4> SUFFICES ASSUME Pushing(t) PROVE SnapshotOf(t)'
        BY <3>2 DEF SnapshotOf
      <4>1. snap[t] \in Tables /\ snap[t].changes \subseteq db'.changes
        BY <2>2, <3>1 DEF SnapshotOf
      <4>2. ASSUME NEW i \in Item
            PROVE  /\ IsRow(snap[t].items[i]) =>
                        IsRow(db'.items[i]) /\ snap[t].items[i].version <= db'.items[i].version
                   /\ db'.items[i] = snap[t].items[i] =>
                        \A d \in db'.changes : d.item = i => d \in snap[t].changes
        <5>1. /\ IsRow(snap[t].items[i]) =>
                   IsRow(db.items[i]) /\ snap[t].items[i].version <= db.items[i].version
              /\ db.items[i] = snap[t].items[i] =>
                   \A d \in db.changes : d.item = i => d \in snap[t].changes
          BY <3>1 DEF SnapshotOf
        <5>2. CASE ~IsRow(pend[s].rows[i])
          <6>1. db'.items[i] = db.items[i] /\ \A d \in db'.changes : d.item = i => d \in db.changes
            BY <2>2, <2>3, <5>2 DEF FeedOf
          <6> QED BY <5>1, <6>1
        <5>3. CASE IsRow(pend[s].rows[i])
          <6>1. db'.items[i] = pend[s].rows[i]
            BY <2>2, <5>3
          <6>2. IsRow(snap[t].items[i]) => snap[t].items[i].version < pend[s].rows[i].version
            <7> SUFFICES ASSUME IsRow(snap[t].items[i])
                         PROVE  snap[t].items[i].version < pend[s].rows[i].version
              OBVIOUS
            <7>1. snap[t].items[i] \in Row /\ db.items[i] \in Row /\ pend[s].rows[i] \in Row
              BY <1>1, <4>1, <5>1, <5>3 DEF Tables, Pending, IsRow
            <7>2. snap[t].items[i].version <= db.items[i].version
                  /\ db.items[i].version < pend[s].rows[i].version
              BY <2>3, <5>1, <5>3 DEF FreshRow
            <7>3. snap[t].items[i].version \in Nat /\ db.items[i].version \in Nat
                  /\ pend[s].rows[i].version \in Nat
              BY <7>1 DEF Row
            <7> QED BY <7>2, <7>3
          <6>3. IsRow(snap[t].items[i]) => snap[t].items[i].version \in Nat
                                           /\ pend[s].rows[i].version \in Nat
            <7>1. IsRow(snap[t].items[i]) => snap[t].items[i] \in Row
              BY <4>1 DEF Tables, IsRow
            <7>2. pend[s].rows[i] \in Row
              BY <1>1, <5>3 DEF Pending, IsRow
            <7> QED BY <7>1, <7>2 DEF Row
          <6>4. db'.items[i] # snap[t].items[i]
            BY <5>3, <6>1, <6>2, <6>3 DEF IsRow
          <6> QED BY <5>3, <6>1, <6>2, <6>3, <6>4
        <5> QED BY <5>2, <5>3
      <4> QED BY <3>1, <3>2, <4>1, <4>2 DEF SnapshotOf
    <3>5. AppliedOf(t)'
      <4> SUFFICES ASSUME NEW y \in tx[t].applied
                   PROVE  /\ SeenBefore(y, db'.changes \cup pend[t].changes)
                          /\ Has(IF Pushing(t) THEN pend[t].changes ELSE db'.changes, y)
        BY <3>1, <3>2 DEF AppliedOf
      <4>1. SeenBefore(y, db.changes \cup pend[t].changes)
            /\ Has(IF Pushing(t) THEN pend[t].changes ELSE db.changes, y)
        BY <3>1 DEF AppliedOf
      <4>2. CASE Pushing(t)
        <5>1. PICK e \in pend[t].changes : e.item = y.item
          BY <4>1, <4>2 DEF Has
        <5>2. IsRow(pend[t].rows[y.item]) /\ y.item \in Item
          BY <5>1, Seqs DEF FeedInv, FeedOf
        <5>3. \A d \in pend[s].changes : d.item # y.item
          BY <2>3, <2>8, <5>2 DEF FeedOf, LockInv
        <5> QED BY <2>2, <4>1, <4>2, <5>3 DEF SeenBefore
      <4>3. CASE ~Pushing(t)
        <5>1. Has(db'.changes, y) /\ SeenBefore(y, db'.changes)
          BY <2>4, <4>1, <4>3 DEF SeenBefore
        <5> QED BY <4>1, <4>3, <5>1 DEF SeenBefore
      <4> QED BY <4>2, <4>3
    <3> QED BY <3>3, <3>4, <3>5
  <2> QED BY <2>5, <2>6, <2>7, <2>8 DEF BaseInv
<1> QED BY <1>4, <1>5

LEMMA RespondBase ==
  ASSUME BasicInv, BaseInv, NEW s \in Session, Respond(s)
  PROVE  BaseInv'
<1>1. tx[s].pc = "cursor" /\ ~Pushing(s) /\ AppliedOf(s) /\ AnsweredOf
  BY DEF Respond, Pushing, Working, BaseInv
<1>2. \E last : responses' = responses \cup {[applied |-> tx[s].applied, new_cursor |-> last]}
  BY DEF Respond
<1>3. \A x \in AckedChanges' : x \in AckedChanges \/ x \in tx[s].applied
  BY <1>2 DEF AckedChanges
<1>4. \A x \in tx[s].applied : SeenBefore(x, db.changes) /\ Has(db.changes, x)
  BY <1>1 DEF AppliedOf, SeenBefore
<1>5. db' = db /\ OthersKeep(s) /\ tx'[s].pc = "idle" /\ tx'[s].applied = {}
  BY DEF Respond, OthersKeep, BasicInv, TypeOK, tableVars, Idle
<1>6. AnsweredOf'
  BY <1>1, <1>3, <1>4, <1>5 DEF AnsweredOf
<1>7. SnapshotOf(s)' /\ BaseChecked(s)' /\ AppliedOf(s)'
  BY <1>5 DEF SnapshotOf, BaseChecked, AppliedOf, Pushing, Working
<1>8. ASSUME NEW t \in Session, t # s PROVE SnapshotOf(t)' /\ BaseChecked(t)' /\ AppliedOf(t)'
  <2>1. /\ tx'[t] = tx[t] /\ pend'[t] = pend[t] /\ snap'[t] = snap[t]
        /\ SnapshotOf(t) /\ BaseChecked(t) /\ AppliedOf(t)
    BY <1>5, <1>8 DEF OthersKeep, BaseInv
  <2>2. Cur(t)' = Cur(t) /\ CurBase(t)' = CurBase(t) /\ (Pushing(t)' <=> Pushing(t))
    BY <2>1 DEF Cur, CurBase, Pushing, Working
  <2> QED BY <1>5, <2>1, <2>2 DEF SnapshotOf, AppliedOf, BaseChecked
<1> QED BY <1>6, <1>7, <1>8 DEF BaseInv

LEMMA BaseStep ==
  ASSUME BasicInv, StayInv, SafeInv, FeedInv, BaseInv, Isolation = "repeatable_read",
         [Next]_vars
  PROVE  BaseInv'
<1>1. CASE UNCHANGED <<tableVars, pushVars>>
  BY <1>1 DEF tableVars, pushVars, BaseInv, AnsweredOf, AckedChanges, SnapshotOf, BaseChecked,
              AppliedOf, Pushing, Working, Cur, CurBase
<1>2. ASSUME NEW s \in Session, Dropped(s) PROVE BaseInv'
  BY <1>2, DroppedBase DEF Dropped
<1> QED BY <1>1, <1>2, StepCases, StartedBase, MovedBase, WriteBase, InsertChangeBase,
           FinishBase, RespondBase

LEMMA InitBase == Init => BaseInv
<1> SUFFICES ASSUME Init PROVE BaseInv
  OBVIOUS
<1>1. \A s \in Session : tx[s].pc = "idle" /\ tx[s].applied = {}
  BY DEF Init, Idle
<1>2. AckedChanges = {}
  BY DEF Init, AckedChanges
<1> QED BY <1>1, <1>2 DEF BaseInv, AnsweredOf, SnapshotOf, BaseChecked, AppliedOf, Pushing, Working

\* Under REPEATABLE READ two pushes that were based on the same change of an
\* item are never both acknowledged, for any number of devices and batches:
\* the second one either finds the first in its snapshot, and its base is
\* stale, or finds the row changed when it writes (apply_change).
THEOREM OneWinnerPerBase ==
  ASSUME Isolation = "repeatable_read"
  PROVE  Spec => []SameBaseSingleWinner
<1>1. BasicInv /\ StayInv /\ SafeInv /\ FeedInv /\ BaseInv /\ [Next]_vars
        => BasicInv' /\ StayInv' /\ SafeInv' /\ FeedInv' /\ BaseInv'
  BY BasicStep, StayStep, SafeStep, FeedStep, BaseStep
<1>2. BasicInv /\ BaseInv => SameBaseSingleWinner
  <2> SUFFICES ASSUME BasicInv, BaseInv, NEW x \in AckedChanges, NEW y \in AckedChanges,
                      x.item = y.item, x.base = y.base, 0 < x.base, x.base < x.seq, y.base < y.seq
               PROVE  x.seq = y.seq
    BY DEF SameBaseSingleWinner
  <2>1. x \in Applied /\ y \in Applied
    BY DEF AckedChanges, BasicInv, TypeOK
  <2>2. x.seq \in Nat /\ y.seq \in Nat /\ x.base \in Nat
    BY <2>1 DEF Applied
  <2>3. /\ SeenBefore(x, db.changes) /\ Has(db.changes, x)
        /\ SeenBefore(y, db.changes) /\ Has(db.changes, y)
    BY DEF BaseInv, AnsweredOf
  <2>4. ~(x.seq < y.seq)
    BY <2>2, <2>3 DEF SeenBefore, Has
  <2>5. ~(y.seq < x.seq)
    BY <2>2, <2>3 DEF SeenBefore, Has
  <2> QED BY <2>2, <2>4, <2>5
<1> QED BY <1>1, <1>2, InitBasic, InitSafe, InitFeed, InitBase, PTL DEF Spec
=============================================================================
