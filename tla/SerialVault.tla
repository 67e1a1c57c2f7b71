----------------------------- MODULE SerialVault -----------------------------
(***************************************************************************)
(* What POST /v1/sync/push promises to the devices of a vault, without     *)
(* transactions: a batch of changes is applied at once, each change to the *)
(* rows the one before it has left, or nothing of it is.  The sequence     *)
(* numbers of the feed are left out, and so is base_seq: any batch may be  *)
(* refused.                                                                *)
(***************************************************************************)
EXTENDS ItemRows, Sequences

CONSTANTS
  Batches    \* the batches of changes that are pushed

VARIABLES
  vault,     \* the rows and the history of every item
  announced  \* what the feed says: items, operations and versions

serialVars == <<vault, announced>>

SerialInit ==
  /\ vault = [items |-> [i \in Item |-> NoRow], history |-> [i \in Item |-> {}]]
  /\ announced = {}

\* The path an item has after the change.
PathAfter(v, c) ==
  IF c.op = "create" THEN c.path ELSE Given(c.path, v.items[c.item].path)

\* A change is accepted when its item is there (or is not, for a create) and
\* leaves no two active items at one path.
Accepted(v, c) ==
  /\ IF c.op = "create" THEN ~IsRow(v.items[c.item]) /\ ~Incomplete(c)
                        ELSE IsRow(v.items[c.item])
  /\ c.op # "delete" =>
       \A j \in Item \ {c.item} : ~ActiveAt(v.items[j], PathAfter(v, c))

\* The entry a change leaves behind, and the newest entries that are kept.
Saved(v, c) ==
  LET row == v.items[c.item]
      all == v.history[c.item] \cup
               (IF KeepsHistory(c, row)
                THEN {[version |-> row.version, payload |-> row.payload]} ELSE {})
  IN  all \ Excess(all)

Applied1(v, c) ==
  LET row == v.items[c.item]
  IN  [items   |-> [v.items EXCEPT ![c.item] = NewRow(c, row, row)],
       history |-> [v.history EXCEPT ![c.item] = Saved(v, c)]]

\* The vault after the first n changes of a batch.
After(v, b) ==
  LET run[n \in 0 .. Len(b)] ==
        IF n = 0 THEN v ELSE Applied1(run[n - 1], b[n])
  IN  run

\* All of the batch, in its order.
ApplyBatch(b) ==
  LET run == After(vault, b)
  IN  /\ \A n \in 1 .. Len(b) : Accepted(run[n - 1], b[n])
      /\ vault' = run[Len(b)]
      /\ announced' = announced \cup
           {[item |-> b[n].item, op |-> FeedOpOf(b[n].op),
             version |-> run[n].items[b[n].item].version] : n \in 1 .. Len(b)}

SerialNext == \E b \in Batches : ApplyBatch(b)

SerialSpec == SerialInit /\ [][SerialNext]_serialVars
=============================================================================
