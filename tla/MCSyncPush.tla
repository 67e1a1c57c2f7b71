----------------------------- MODULE MCSyncPush -----------------------------
(* Instances of SyncPush: two items, two paths, two payloads.              *)
EXTENDS SyncPush, TLC

CONSTANTS a, b, p, q, x, y

Ch(i, op, path, payload) ==
  [item |-> i, op |-> op, path |-> path, payload |-> payload, checksum |-> payload]

Create(i, path, payload) == Ch(i, "create", path, payload)
Update(i, path, payload) == Ch(i, "update", path, payload)
Delete(i) == Ch(i, "delete", None, None)
Restore(i, payload) == Ch(i, "restore", None, payload)

\* One item written by everybody: edits, deletes and restores race, alone and
\* in a batch, and another item claims the path a deleted one has left.
RacingBatches ==
  { <<Create(a, p, x)>>, <<Update(a, None, x)>>, <<Update(a, None, y), Delete(a)>>,
    <<Delete(a)>>, <<Restore(a, None)>>, <<Create(b, p, x)>> }

\* Two items in both orders, a contended path, and a batch that fails half way.
TwoItemBatches ==
  { <<Create(a, p, x), Create(b, q, x)>>,
    <<Update(a, None, y), Update(b, None, y)>>,
    <<Update(b, None, x), Update(a, None, x)>>,
    <<Update(a, q, None)>>,
    <<Delete(a), Ch(b, "create", q, None)>>,
    <<Restore(a, x)>> }

EditBatches == { <<Create(a, p, x)>>, <<Update(a, None, y)>> }

\* Under REPEATABLE READ the pushes of all devices have the effect of running
\* one after another, each batch alone: what the tables and the feed hold can
\* be reached by SerialVault, however the statements of the transactions
\* interleave (sync_push with apply_tx_isolation).
Serial == INSTANCE SerialVault WITH
  vault <- [items |-> db.items, history |-> db.history],
  announced <- {[item |-> c.item, op |-> c.op, version |-> c.version] : c \in db.changes}

PushesAreSerial == Serial!SerialSpec

SessionSymmetry == Permutations(Session)
=============================================================================
