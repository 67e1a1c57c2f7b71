------------------------------ MODULE SyncPush ------------------------------
(***************************************************************************)
(* The server side of synchronisation: POST /v1/sync/push as a Postgres    *)
(* transaction that applies a batch of changes statement by statement,     *)
(* and POST /v1/sync/pull as a cursor over the change feed.                *)
(*                                                                         *)
(* Every statement of apply_change is a step of its own, because under     *)
(* READ COMMITTED (the default) each one sees what other transactions have *)
(* committed meanwhile.  Under REPEATABLE READ all of them see the         *)
(* snapshot of the first one, and a write to a row changed since then      *)
(* fails.  SERIALIZABLE only adds failures to REPEATABLE READ, and         *)
(* DbFault already allows a failure anywhere.                              *)
(***************************************************************************)
EXTENDS ItemTables, Sequences

CONSTANTS
  Isolation,   \* ZANN_DB_TX_ISOLATION
  Batches,     \* the batches of changes (without base_seq) that are pushed
  BaseSeqs,    \* the base_seq values a device may send, 0 standing for none
  MaxPushes,   \* bound on the number of pushes
  Reader,      \* devices that pull
  PageLimit    \* the pull limit (at most 500, the code's default is 100)

ASSUME IsolationAssumption == Isolation \in {"read_committed", "repeatable_read"}
ASSUME PageLimitAssumption == PageLimit \in Nat \ {0}

ASSUME BatchesAssumption ==
  /\ BaseSeqs \subseteq Nat
  /\ MaxPushes \in Nat
  /\ Batches \subseteq Seq(Change)
  /\ <<>> \notin Batches

VARIABLES
  tx,         \* the push each session is working on
  snap,       \* the tables as of the transaction's first statement
  responses,  \* the successful and conflicting responses sent so far
  pushes,     \* how many pushes have begun
  cursor,     \* per reader, the cursor of its last pull
  seen        \* per reader, the sequence numbers it has been sent

pushVars == <<tx, snap, responses, pushes>>
vars == <<tableVars, pushVars, cursor, seen>>

PushPc == {"idle", "max_seq", "row", "path", "write", "change", "finish", "cursor"}

Idle == [pc |-> "idle", batch |-> <<>>, base |-> <<>>, i |-> 1, row |-> NoRow,
         conflicts |-> {}, applied |-> {}]

Applied == [item : Item, base : Nat, seq : Nat, version : Nat]

\* A push in progress: where it is in the batch, the row it has read, the
\* positions that conflicted and the changes applied.
Push == [pc : PushPc, batch : Batches \cup {<<>>}, base : Seq(BaseSeqs),
         i : Nat \ {0}, row : Row \cup {NoRow}, conflicts : SUBSET Nat,
         applied : SUBSET Applied]

TypeOK ==
  /\ TablesTypeOK
  /\ tx \in [Session -> Push]
  /\ snap \in [Session -> Tables \cup {None}]
  /\ responses \subseteq [applied : SUBSET Applied, new_cursor : Nat]
  /\ pushes \in Nat
  /\ cursor \in [Reader -> Nat]
  /\ seen \in [Reader -> SUBSET Nat]

Init ==
  /\ TablesInit
  /\ tx = [s \in Session |-> Idle]
  /\ snap = [s \in Session |-> None]
  /\ responses = {}
  /\ pushes = 0
  /\ cursor = [r \in Reader |-> 0]
  /\ seen = [r \in Reader |-> {}]

-----------------------------------------------------------------------------
(* Helpers *)

Cur(s) == tx[s].batch[tx[s].i]
CurBase(s) == tx[s].base[tx[s].i]

\* The table version statements of s read from (its own writes are added).
View(s) == IF Isolation = "read_committed" THEN db ELSE snap[s]

RowSeen(s) == RowIn(View(s), pend[s], Cur(s).item)

\* Faulty: the isolation level is never applied to the transaction.
StaleWriteIgnored(s, i, version) == FALSE

\* apply_tx_isolation decides when a write is refused: under REPEATABLE READ
\* the row (or a history key) was committed after the snapshot was taken.
StaleWrite(s, i, version) ==
  /\ Isolation = "repeatable_read"
  /\ \/ db.items[i] # snap[s].items[i]
     \/ \E h \in db.history[i] \ snap[s].history[i] : h.version = version

Goto(s, pc) == tx' = [tx EXCEPT ![s].pc = pc]

\* The loop of sync_push goes on with the next change of the batch.
NextChange(t) ==
  [t EXCEPT !.i = t.i + 1, !.row = NoRow,
            !.pc = IF t.i = Len(t.batch) THEN "finish" ELSE "max_seq"]

\* Faulty: a conflict is retried in place instead of being reported.
ConflictRetried(s) == tx' = [tx EXCEPT ![s].pc = "max_seq", ![s].row = NoRow]

\* ApplyChangeResult::Conflict: noted, and the loop goes on.
Conflict(s) ==
  tx' = [tx EXCEPT ![s] =
           [NextChange(tx[s]) EXCEPT !.conflicts = tx[s].conflicts \cup {tx[s].i}]]

\* An error of apply_change or of the database: rollback, error response.
Abort(s) ==
  /\ tx' = [tx EXCEPT ![s] = Idle]
  /\ snap' = [snap EXCEPT ![s] = None]
  /\ pend' = [pend EXCEPT ![s] = NothingPending]
  /\ UNCHANGED <<db, nextSeq, responses, pushes, cursor, seen>>

\* What a step that only moves the transaction's own program counter leaves.
Reading == UNCHANGED <<tableVars, snap, responses, pushes, cursor, seen>>

-----------------------------------------------------------------------------
(* sync_push, one statement at a time *)

\* prepare_sync has let the request through and the transaction has begun.
\* Nothing is read before the first statement, so the snapshot is taken here.
Begin(s, b, base) ==
  /\ tx[s].pc = "idle"
  /\ pushes < MaxPushes
  /\ pushes' = pushes + 1
  /\ tx' = [tx EXCEPT ![s] = [Idle EXCEPT !.pc = "max_seq", !.batch = b, !.base = base]]
  /\ snap' = [snap EXCEPT ![s] = IF Isolation = "read_committed" THEN None ELSE db]
  /\ UNCHANGED <<tableVars, responses, cursor, seen>>

\* SELECT MAX(seq): a base_seq older than the item's newest change conflicts.
ReadMaxSeq(s) ==
  /\ tx[s].pc = "max_seq"
  /\ IF StaleBase(CurBase(s), MaxSeqOf(ChangesIn(View(s), pend[s]), Cur(s).item))
     THEN Conflict(s)
     ELSE Goto(s, "row")
  /\ Reading

\* SELECT ... FROM items WHERE id, and the match on (operation, existing).
ReadRow(s) ==
  /\ tx[s].pc = "row"
  /\ LET c == Cur(s)
         existing == RowSeen(s)
     IN \/ /\ c.op = "create" /\ ~IsRow(existing) /\ Incomplete(c)
           /\ Abort(s)
        \/ /\ \/ c.op = "create" /\ IsRow(existing)
              \/ c.op # "create" /\ ~IsRow(existing)
           /\ Conflict(s)
           /\ Reading
        \/ /\ \/ c.op = "create" /\ ~IsRow(existing) /\ ~Incomplete(c)
              \/ c.op # "create" /\ IsRow(existing)
           /\ tx' = [tx EXCEPT ![s].row = existing,
                               ![s].pc = IF c.op \in {"create", "update"}
                                         THEN "path" ELSE "write"]
           /\ Reading

\* find_path_conflict, only for a create and an update.
CheckPath(s) ==
  /\ tx[s].pc = "path"
  /\ LET c == Cur(s)
         path == IF c.op = "create" THEN c.path ELSE Given(c.path, tx[s].row.path)
     IN  IF PathConflict(View(s), pend[s], path, c.item)
         THEN Conflict(s)
         ELSE Goto(s, "write")
  /\ Reading

\* The row a write of s installs, and the sessions it has to wait for.
WriteRow(s) ==
  NewRow(Cur(s), tx[s].row, RowIn(db, pend[s], Cur(s).item))

WaitsFor(s, t) ==
  /\ tx[s].pc = "write"
  /\ \/ RowHeldBy(s, t, Cur(s).item)
     \/ PathHeldBy(s, t, Cur(s).item, WriteRow(s))

\* INSERT or UPDATE of the row, after the history insert and prune.  The
\* history key is only ever contended together with the row, so one step
\* stands for the three statements.  An INSERT finds the id taken, or the
\* index the path, or REPEATABLE READ the row changed: the push fails.
Write(s) ==
  LET c    == Cur(s)
      i    == c.item
      row  == tx[s].row
      saved == IF KeepsHistory(c, row) THEN SaveHistory(View(s), pend[s], i, row)
               ELSE pend[s]
  IN
  /\ tx[s].pc = "write"
  /\ \A t \in Session : ~WaitsFor(s, t)
  /\ IF \/ UniqueViolation(s, i, WriteRow(s))
        \/ c.op = "create" /\ IsRow(RowIn(db, pend[s], i))
        \/ StaleWrite(s, i, IF IsRow(row) THEN row.version ELSE 0)
     THEN Abort(s)
     ELSE /\ pend' = [pend EXCEPT ![s] = [saved EXCEPT !.rows = [@ EXCEPT ![i] = WriteRow(s)]]]
          /\ Goto(s, "change")
          /\ UNCHANGED <<db, nextSeq, snap, responses, pushes, cursor, seen>>

\* Faulty: the feed entry carries the version that was read.
AnnouncedVersionRead(s) == IF IsRow(tx[s].row) THEN tx[s].row.version ELSE 1

\* item_version, the version just written.
AnnouncedVersion(s) == pend[s].rows[Cur(s).item].version

\* INSERT INTO changes ... RETURNING seq: the sequence number is drawn from
\* the sequence at once and is visible to others only after the commit.
InsertChange(s) ==
  LET c == Cur(s)
      version == AnnouncedVersion(s)
  IN
  /\ tx[s].pc = "change"
  /\ nextSeq' = nextSeq + 1
  /\ pend' = [pend EXCEPT ![s].changes = @ \cup
                {[seq |-> nextSeq, item |-> c.item, op |-> FeedOpOf(c.op),
                  version |-> version]}]
  /\ tx' = [tx EXCEPT ![s] = [NextChange(tx[s]) EXCEPT !.applied = tx[s].applied \cup
              {[item |-> c.item, base |-> CurBase(s), seq |-> nextSeq,
                version |-> version]}]]
  /\ UNCHANGED <<db, snap, responses, pushes, cursor, seen>>

\* Faulty: what could be applied is committed although the batch conflicts.
FinishPartly(s) ==
  /\ tx[s].pc = "finish"
  /\ db' = Merged(db, pend[s])
  /\ tx' = [tx EXCEPT ![s].pc = "cursor"]
  /\ pend' = [pend EXCEPT ![s] = NothingPending]
  /\ snap' = [snap EXCEPT ![s] = None]
  /\ UNCHANGED <<nextSeq, responses, pushes, cursor, seen>>

\* Any conflict rolls the whole batch back; otherwise it is committed.
Finish(s) ==
  /\ tx[s].pc = "finish"
  /\ IF tx[s].conflicts # {}
     THEN /\ UNCHANGED db
          /\ tx' = [tx EXCEPT ![s].pc = "cursor", ![s].applied = {}]
     ELSE /\ db' = Merged(db, pend[s])
          /\ tx' = [tx EXCEPT ![s].pc = "cursor"]
  /\ pend' = [pend EXCEPT ![s] = NothingPending]
  /\ snap' = [snap EXCEPT ![s] = None]
  /\ UNCHANGED <<nextSeq, responses, pushes, cursor, seen>>

\* last_seq_for_vault, read outside the transaction, goes into the response;
\* when the read fails the response says 0 (unwrap_or).
Respond(s) ==
  /\ tx[s].pc = "cursor"
  /\ \E last \in {LastSeq(db.changes), 0} :
       responses' = responses \cup {[applied |-> tx[s].applied, new_cursor |-> last]}
  /\ tx' = [tx EXCEPT ![s] = Idle]
  /\ UNCHANGED <<tableVars, snap, pushes, cursor, seen>>

\* The database or the connection fails, or the server process dies: an open
\* transaction is rolled back, a finished one is never answered.
DbFault(s) ==
  /\ tx[s].pc # "idle"
  /\ Abort(s)

\* Postgres resolves a cycle of lock waits by failing one transaction in it.
DeadlockVictim(s) ==
  /\ \E cycle \in SUBSET Session :
       /\ s \in cycle
       /\ \A t \in cycle : /\ \E u \in cycle : WaitsFor(t, u)
                           /\ \E u \in cycle : WaitsFor(u, t)
  /\ Abort(s)

-----------------------------------------------------------------------------
(* sync_pull: one SELECT over the committed feed *)

\* ORDER BY seq LIMIT limit + 1, the extra row cut off again.
Page(r) ==
  LET after == {c.seq : c \in {d \in db.changes : d.seq > cursor[r]}}
  IN  {q \in after : Cardinality({p \in after : p < q}) < PageLimit}

\* Faulty: the cursor is taken from the rows before the extra one is cut.
PullPastPage(r) ==
  LET after == {c.seq : c \in {d \in db.changes : d.seq > cursor[r]}}
      rows  == {q \in after : Cardinality({p \in after : p < q}) <= PageLimit}
  IN
  /\ cursor' = [cursor EXCEPT ![r] = IF rows = {} THEN @ ELSE Max(rows)]
  /\ seen' = [seen EXCEPT ![r] = @ \cup Page(r)]
  /\ UNCHANGED <<tableVars, pushVars>>

Pull(r) ==
  /\ cursor' = [cursor EXCEPT ![r] = IF Page(r) = {} THEN @ ELSE Max(Page(r))]
  /\ seen' = [seen EXCEPT ![r] = @ \cup Page(r)]
  /\ UNCHANGED <<tableVars, pushVars>>

-----------------------------------------------------------------------------
PushStep(s) ==
  \/ ReadMaxSeq(s) \/ ReadRow(s) \/ CheckPath(s) \/ Write(s)
  \/ InsertChange(s) \/ Finish(s) \/ Respond(s) \/ DeadlockVictim(s)

Next ==
  \/ \E s \in Session :
       \/ \E b \in Batches : \E base \in [1 .. Len(b) -> BaseSeqs] : Begin(s, b, base)
       \/ PushStep(s)
       \/ DbFault(s)
  \/ \E r \in Reader : Pull(r)

Spec == Init /\ [][Next]_vars

\* Every statement returns, and the deadlock detector runs; requests need not
\* arrive and faults need not happen.
FairSpec == Spec /\ \A s \in Session : WF_vars(PushStep(s))

-----------------------------------------------------------------------------
(* Properties *)

AckedChanges == UNION {r.applied : r \in responses}

\* The feed announces what the tables hold: the newest change of every stored
\* item carries the version of its row, whatever pushes were interleaved,
\* rolled back or cut short.  A device that has pulled that far can therefore
\* tell from the feed that it is current (apply_change, sync_push).
FeedAnnouncesRows ==
  \A i \in Item : IsRow(db.items[i]) =>
    \E c \in db.changes :
      /\ c.item = i
      /\ c.seq = MaxSeqOf(db.changes, i)
      /\ c.version = db.items[i].version

\* A push is all or nothing: the feed and the rows change only when the last
\* change of a batch without conflict has been applied, and then by one entry
\* per change of that batch (tests sync_push_is_atomic_on_error and
\* sync_push_conflict_is_atomic).
PushIsAtomic ==
  [][db' # db => \E s \in Session :
        /\ tx[s].pc = "finish" /\ tx[s].conflicts = {}
        /\ {c.item : c \in db'.changes \ db.changes}
             = {tx[s].batch[n].item : n \in DOMAIN tx[s].batch}
        /\ Cardinality(db'.changes \ db.changes) = Len(tx[s].batch)]_vars

\* Two pushes that were based on the same change of an item are not both
\* applied: exactly one of them wins and the other gets a conflict or an
\* error (test concurrent_updates_resolve_with_single_conflict).
SameBaseSingleWinner ==
  \A x, y \in AckedChanges :
    (x.item = y.item /\ x.base = y.base /\ 0 < x.base /\ x.base < x.seq /\ y.base < y.seq)
      => x.seq = y.seq

\* No two entries of the feed announce the same version of an item: every
\* applied change was computed from the row version it replaced.
VersionsUnique ==
  \A c, d \in db.changes : c.item = d.item /\ c.version = d.version => c.seq = d.seq

\* A page leaves out nothing that is committed by then: the cursor moves to
\* the last change that was sent, and not past the page limit (sync_pull cuts
\* the extra row off before it takes next_cursor).
PageHasNoGap ==
  [][\A r \in Reader : \A c \in db.changes :
       cursor[r] < c.seq /\ c.seq <= cursor'[r] => c.seq \in seen'[r]]_vars

\* Every push that begins is answered or fails: lock waits between batches
\* that touch the same items in different orders do not last.
PushEnds == \A s \in Session : tx[s].pc # "idle" ~> tx[s].pc = "idle"
=============================================================================
