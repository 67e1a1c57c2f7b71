----------------------------- MODULE ItemTables -----------------------------
(***************************************************************************)
(* The vault's tables as Postgres keeps them for concurrent transactions:  *)
(* uncommitted row versions, row locks, the partial unique index on active *)
(* paths and the BIGSERIAL sequence of the change feed.                    *)
(***************************************************************************)
EXTENDS ItemRows

CONSTANTS
  Session        \* database sessions that run a sync push

VARIABLES
  db,       \* the committed tables
  nextSeq,  \* the next value of the changes.seq sequence (never rolled back)
  pend      \* per session, what its open transaction has written

tableVars == <<db, nextSeq, pend>>

TablesTypeOK ==
  /\ db \in Tables
  /\ nextSeq \in Nat \ {0}
  /\ pend \in [Session -> Pending]

TablesInit ==
  /\ db = EmptyTables
  /\ nextSeq = 1
  /\ pend = [s \in Session |-> NothingPending]

\* The unique index on (vault_id, path) WHERE sync_status = 1: session s may
\* not install row for item i while another open transaction has an
\* uncommitted entry for the path, or has vacated the committed one.
PathHeldBy(s, t, i, row) ==
  /\ t # s
  /\ row.status = "active"
  /\ \E j \in Item \ {i} :
       /\ IsRow(pend[t].rows[j])
       /\ \/ ActiveAt(pend[t].rows[j], row.path)
          \/ ActiveAt(db.items[j], row.path)

\* A row version written by an open transaction locks the row.
RowHeldBy(s, t, i) == t # s /\ IsRow(pend[t].rows[i])

\* Faulty: the paths of rows are not indexed.
UniqueViolationNever(s, i, row) == FALSE

\* The index rejects the write: a committed (or own) other row has the path.
UniqueViolation(s, i, row) ==
  /\ row.status = "active"
  /\ PathConflict(db, pend[s], row.path, i)
=============================================================================
